-------------------------- MODULE TextReviewProofs --------------------------
(***************************************************************************)
(* What TextReview promises, for any texts, flags and suggestions.         *)
(*                                                                         *)
(* Spans count from the beginning of a paragraph, and paragraphs exist     *)
(* only while a text is split.  So the argument is first that splitting    *)
(* gives back the paragraphs a text was built from (Split), which needs    *)
(* paragraphs in which, and at the end of which, no break begins (Clean).  *)
(***************************************************************************)
EXTENDS TextReview, SequenceTheorems, FiniteSetTheorems, WellFoundedInduction, TLAPS

\* Induction, with the numbers it is true of as a set.
LEMMA CountUp ==
    ASSUME NEW S, 0 \in S, \A k \in Nat : k \in S => k + 1 \in S
    PROVE  Nat \subseteq S
<1> SUFFICES ASSUME Nat \ S # {} PROVE FALSE
  OBVIOUS
<1>1. PICK least \in Nat \ S : \A m \in Nat \ S : <<m, least>> \notin OpToRel(<, Nat)
  <2>1. Nat \ S \subseteq Nat
    OBVIOUS
  <2> QED
    BY <2>1, WFMin, NatLessThanWellFounded, Zenon
<1>2. least - 1 \in Nat /\ least - 1 < least
  OBVIOUS
<1>3. least - 1 \in S
  BY <1>1, <1>2, Zenon DEF OpToRel
<1> QED
  BY <1>2, <1>3

-----------------------------------------------------------------------------
\* Splitting a text

NewlineFree(w) == \A k \in DOMAIN w : w[k] # Newline

BreakFree(p) == \A k \in DOMAIN p : k + 1 \in DOMAIN p /\ p[k] = Newline => p[k + 1] # Newline

\* Paragraphs as splitting makes them.
Clean(ps) ==
    /\ ps \in Seq(Seq(Char)) /\ Len(ps) > 0
    /\ \A k \in 1 .. Len(ps) : BreakFree(ps[k])
    /\ \A k \in 1 .. Len(ps) - 1 : ~EndsWithNewline(ps[k])

\* Reading one more character leaves clean paragraphs clean.
LEMMA ReadKeepsClean ==
    ASSUME NEW ps, Clean(ps), NEW c \in Char
    PROVE  Clean(Read(ps, c))
<1> DEFINE n == Len(ps)
           p == ps[n]
<1>1. n \in Nat /\ n > 0 /\ p \in Seq(Char) /\ BreakFree(p)
  BY DEF Clean
<1>2. CASE c = Newline /\ EndsWithNewline(p)
  <2> DEFINE q == SubSeq(p, 1, Len(p) - 1)
             less == [ps EXCEPT ![n] = q]
  <2>1. Len(p) \in Nat /\ Len(p) > 0 /\ p[Len(p)] = Newline
    BY <1>1, <1>2 DEF EndsWithNewline
  <2>2. q \in Seq(Char) /\ Len(q) = Len(p) - 1 /\ \A k \in 1 .. Len(q) : q[k] = p[k]
    BY <1>1, <2>1
  <2> HIDE DEF q
  <2>3. BreakFree(q) /\ ~EndsWithNewline(q)
    <3>1. DOMAIN p = 1 .. Len(p) /\ DOMAIN q = 1 .. Len(q)
      BY <1>1, <2>2
    <3>2. BreakFree(q)
      BY <1>1, <2>1, <2>2, <3>1 DEF BreakFree
    <3>3. ASSUME EndsWithNewline(q) PROVE FALSE
      <4>1. Len(q) \in 1 .. Len(q) /\ q[Len(q)] = Newline
        BY <2>2, <3>3 DEF EndsWithNewline
      <4>2. Len(q) \in DOMAIN p /\ Len(q) + 1 \in DOMAIN p /\ p[Len(q)] = Newline
        BY <1>1, <2>1, <2>2, <3>1, <4>1
      <4>3. p[Len(q) + 1] # Newline
        BY <1>1, <4>2 DEF BreakFree
      <4> QED
        BY <1>1, <2>1, <2>2, <4>3
    <3> QED
      BY <3>2, <3>3
  <2>4. /\ less \in Seq(Seq(Char)) /\ Len(less) = n
        /\ \A k \in 1 .. n : less[k] = IF k = n THEN q ELSE ps[k]
    BY <1>1, <2>2 DEF Clean
  <2>5. Read(ps, c) = Append(less, << >>)
    BY <1>2 DEF Read, q
  <2> HIDE DEF less
  <2>6. /\ Append(less, << >>) \in Seq(Seq(Char)) /\ Len(Append(less, << >>)) = n + 1
        /\ \A k \in 1 .. n : Append(less, << >>)[k] = less[k]
        /\ Append(less, << >>)[n + 1] = << >>
    BY <1>1, <2>4
  <2>7. BreakFree(<< >>)
    BY DEF BreakFree
  <2> QED
    BY <1>1, <2>3, <2>4, <2>5, <2>6, <2>7 DEF Clean
<1>3. CASE ~(c = Newline /\ EndsWithNewline(p))
  <2> DEFINE q == Append(p, c)
             more == [ps EXCEPT ![n] = q]
  <2>1. /\ q \in Seq(Char) /\ Len(q) = Len(p) + 1
        /\ \A k \in 1 .. Len(p) : q[k] = p[k]
        /\ q[Len(p) + 1] = c
    BY <1>1
  <2>2. BreakFree(q)
    BY <1>1, <1>3, <2>1 DEF BreakFree, EndsWithNewline
  <2> HIDE DEF q
  <2>3. /\ more \in Seq(Seq(Char)) /\ Len(more) = n
        /\ \A k \in 1 .. n : more[k] = IF k = n THEN q ELSE ps[k]
    BY <1>1, <2>1 DEF Clean
  <2>4. Read(ps, c) = more
    BY <1>3 DEF Read, q
  <2> HIDE DEF more
  <2>5. \A k \in 1 .. n : BreakFree(more[k])
    BY <2>2, <2>3 DEF Clean
  <2>6. ASSUME NEW k \in 1 .. n - 1 PROVE ~EndsWithNewline(more[k])
    <3>1. more[k] = ps[k]
      BY <1>1, <2>3
    <3> QED
      BY <3>1 DEF Clean
  <2> QED
    BY <1>1, <2>3, <2>4, <2>5, <2>6 DEF Clean
<1> QED
  BY <1>2, <1>3

LEMMA NoTextIsClean == Clean(<< << >> >>)
BY DEF Clean, BreakFree

IsReading(read, t, n) ==
    read = [k \in 0 .. n |-> IF k = 0 THEN << << >> >> ELSE Read(read[k - 1], t[k])]

LEMMA ReadingExists ==
    ASSUME NEW t, NEW n \in Nat
    PROVE  \E read : IsReading(read, t, n)
<1> DEFINE good == {m \in Nat : \E read : IsReading(read, t, m)}
<1>1. 0 \in good
  <2>1. IsReading([k \in 0 .. 0 |-> << << >> >>], t, 0)
    BY DEF IsReading
  <2> QED
    BY <2>1
<1>2. ASSUME NEW m \in Nat, m \in good PROVE m + 1 \in good
  <2>1. PICK read : IsReading(read, t, m)
    BY <1>2
  <2> DEFINE longer == [k \in 0 .. m + 1 |-> IF k = m + 1 THEN Read(read[m], t[m + 1]) ELSE read[k]]
  <2>2. \A k \in 0 .. m : read[k] = IF k = 0 THEN << << >> >> ELSE Read(read[k - 1], t[k])
    BY <2>1 DEF IsReading
  <2>3. \A k \in 0 .. m + 1 : longer[k] = IF k = 0 THEN << << >> >> ELSE Read(longer[k - 1], t[k])
    <3> TAKE k \in 0 .. m + 1
    <3>1. CASE k = m + 1
      BY <3>1
    <3>2. CASE k # m + 1
      BY <2>2, <3>2
    <3> QED
      BY <3>1, <3>2
  <2>4. IsReading(longer, t, m + 1)
    <3>1. longer = [k \in 0 .. m + 1 |-> longer[k]]
      OBVIOUS
    <3> HIDE DEF longer
    <3> QED
      BY <2>3, <3>1 DEF IsReading
  <2> HIDE DEF longer
  <2> QED
    BY <2>4
<1> HIDE DEF good
<1>3. Nat \subseteq good
  BY <1>1, <1>2, CountUp
<1> QED
  BY <1>3 DEF good

\* Splitting, as a run over the characters.
LEMMA Splitting ==
    ASSUME NEW t \in Seq(Char)
    PROVE  \E read : IsReading(read, t, Len(t)) /\ Paragraphs(t) = read[Len(t)]
<1> DEFINE read == CHOOSE r : IsReading(r, t, Len(t))
<1>1. Paragraphs(t) = read[Len(t)]
  BY DEF Paragraphs, IsReading
<1>2. IsReading(read, t, Len(t))
  BY ReadingExists
<1> HIDE DEF read
<1> QED
  BY <1>1, <1>2

\* Two readings of texts that begin alike agree as far as these do.
LEMMA ReadingsAgree ==
    ASSUME NEW t, NEW u, NEW n \in Nat, \A k \in 1 .. n : t[k] = u[k],
           NEW r, NEW s, IsReading(r, t, n), IsReading(s, u, n + 1)
    PROVE  r[n] = s[n]
<1> DEFINE good == {k \in Nat : k <= n => r[k] = s[k]}
<1>1. \A k \in 0 .. n : r[k] = IF k = 0 THEN << << >> >> ELSE Read(r[k - 1], t[k])
  BY DEF IsReading
<1>2. \A k \in 0 .. n + 1 : s[k] = IF k = 0 THEN << << >> >> ELSE Read(s[k - 1], u[k])
  BY DEF IsReading
<1>3. 0 \in good
  BY <1>1, <1>2
<1>4. ASSUME NEW k \in Nat, k \in good PROVE k + 1 \in good
  <2> SUFFICES ASSUME k + 1 <= n PROVE r[k + 1] = s[k + 1]
    OBVIOUS
  <2>1. r[k] = s[k] /\ t[k + 1] = u[k + 1]
    BY <1>4
  <2>2. r[k + 1] = Read(r[k], t[k + 1])
    BY <1>1
  <2>3. s[k + 1] = Read(s[k], u[k + 1])
    BY <1>2
  <2> QED
    BY <2>1, <2>2, <2>3
<1> HIDE DEF good
<1>5. Nat \subseteq good
  BY <1>3, <1>4, CountUp
<1> QED
  BY <1>5 DEF good

LEMMA SplitNothing == Paragraphs(<< >>) = << << >> >>
<1>1. << >> \in Seq(Char) /\ Len(<< >>) = 0
  OBVIOUS
<1>2. PICK read : IsReading(read, << >>, 0) /\ Paragraphs(<< >>) = read[0]
  BY <1>1, Splitting
<1> QED
  BY <1>2 DEF IsReading

LEMMA SplitLonger ==
    ASSUME NEW t \in Seq(Char), NEW u \in Seq(Char), NEW n \in Nat,
           Len(t) = n, Len(u) = n + 1, \A k \in 1 .. n : t[k] = u[k]
    PROVE  Paragraphs(u) = Read(Paragraphs(t), u[n + 1])
<1>1. PICK r : IsReading(r, t, n) /\ Paragraphs(t) = r[n]
  BY Splitting
<1>2. PICK s : IsReading(s, u, n + 1) /\ Paragraphs(u) = s[n + 1]
  BY Splitting
<1>3. r[n] = s[n]
  BY <1>1, <1>2, ReadingsAgree
<1>4. s[n + 1] = Read(s[n], u[n + 1])
  BY <1>2 DEF IsReading
<1> QED
  BY <1>1, <1>2, <1>3, <1>4

LEMMA SplitMore ==
    ASSUME NEW t \in Seq(Char), NEW c \in Char
    PROVE  Paragraphs(Append(t, c)) = Read(Paragraphs(t), c)
<1> DEFINE u == Append(t, c)
<1>1. /\ u \in Seq(Char) /\ Len(t) \in Nat /\ Len(u) = Len(t) + 1
      /\ \A k \in 1 .. Len(t) : t[k] = u[k]
      /\ u[Len(t) + 1] = c
  OBVIOUS
<1> HIDE DEF u
<1>2. Paragraphs(u) = Read(Paragraphs(t), u[Len(t) + 1])
  BY <1>1, SplitLonger
<1> QED
  BY <1>1, <1>2 DEF u

LEMMA SplitIsClean ==
    ASSUME NEW t \in Seq(Char)
    PROVE  Clean(Paragraphs(t))
<1>1. PICK r : IsReading(r, t, Len(t)) /\ Paragraphs(t) = r[Len(t)]
  BY Splitting
<1> DEFINE good == {k \in Nat : k <= Len(t) => Clean(r[k])}
<1>2. \A k \in 0 .. Len(t) : r[k] = IF k = 0 THEN << << >> >> ELSE Read(r[k - 1], t[k])
  BY <1>1 DEF IsReading
<1>3. 0 \in good
  BY <1>2, NoTextIsClean
<1>4. ASSUME NEW k \in Nat, k \in good PROVE k + 1 \in good
  <2> SUFFICES ASSUME k + 1 <= Len(t) PROVE Clean(r[k + 1])
    OBVIOUS
  <2>1. Clean(r[k]) /\ t[k + 1] \in Char
    BY <1>4
  <2>2. r[k + 1] = Read(r[k], t[k + 1])
    BY <1>2
  <2> QED
    BY <2>1, <2>2, ReadKeepsClean
<1> HIDE DEF good
<1>5. Nat \subseteq good
  BY <1>3, <1>4, CountUp
<1> QED
  BY <1>1, <1>5 DEF good

LEMMA ConcatAppend ==
    ASSUME NEW t \in Seq(Char), NEW b \in Seq(Char), NEW c \in Char
    PROVE  t \o Append(b, c) = Append(t \o b, c)
<1>1. <<c>> \in Seq(Char)
  OBVIOUS
<1>2. t \o (b \o <<c>>) = (t \o b) \o <<c>>
  BY <1>1, ConcatAssociative
<1>3. t \o b \in Seq(Char)
  OBVIOUS
<1> QED
  BY <1>2, <1>3, AppendIsConcat

\* A word without a break has none after any of its beginnings.
LEMMA NoBreakBetween ==
    ASSUME NEW p \in Seq(Char), NEW w \in Seq(Char), BreakFree(p \o w),
           NEW k \in Nat, k + 1 <= Len(w), w[k + 1] = Newline
    PROVE  ~EndsWithNewline(p \o SubSeq(w, 1, k))
<1> DEFINE b == SubSeq(w, 1, k)
           q == p \o b
           all == p \o w
           n == Len(p)
<1>1. /\ n \in Nat /\ Len(w) \in Nat
      /\ b \in Seq(Char) /\ Len(b) = k /\ \A i \in 1 .. k : b[i] = w[i]
  OBVIOUS
<1> HIDE DEF b
<1>2. /\ Len(q) = n + k
      /\ \A i \in 1 .. n + k : q[i] = IF i <= n THEN p[i] ELSE b[i - n]
  <2>1. /\ Len(q) = n + Len(b)
        /\ \A i \in 1 .. n + Len(b) : q[i] = IF i <= n THEN p[i] ELSE b[i - n]
    BY <1>1, ConcatProperties
  <2> HIDE DEF q, n
  <2> QED
    BY <1>1, <2>1
<1>3. /\ DOMAIN all = 1 .. n + Len(w)
      /\ \A i \in 1 .. n + Len(w) : all[i] = IF i <= n THEN p[i] ELSE w[i - n]
  BY ConcatProperties, LenProperties
<1> HIDE DEF all, q, n
<1> SUFFICES ASSUME EndsWithNewline(q) PROVE FALSE
  BY DEF q, b
<1>4. q # << >> /\ q[n + k] = Newline
  BY <1>2 DEF EndsWithNewline
<1>5. n + k > 0
  <2> SUFFICES ASSUME n + k = 0 PROVE FALSE
    BY <1>1
  <2>1. Len(q) = 0 /\ q \in Seq(Char)
    BY <1>1, <1>2 DEF q
  <2> QED
    BY <1>4, <2>1
<1>6. n + k \in 1 .. n + k /\ n + k \in DOMAIN all /\ n + k + 1 \in DOMAIN all
  BY <1>1, <1>3, <1>5
<1>7. all[n + k] = Newline
  <2>1. CASE n + k <= n
    BY <1>1, <1>2, <1>3, <1>4, <1>6, <2>1
  <2>2. CASE n + k > n
    <3>1. k \in 1 .. k /\ n + k - n = k /\ ~(n + k <= n)
      BY <1>1, <2>2
    <3>2. PICK i \in 1 .. n + k : i = n + k /\ i \in 1 .. n + Len(w)
      BY <1>3, <1>6
    <3>3. q[i] = b[i - n] /\ all[i] = w[i - n]
      BY <1>2, <1>3, <3>1, <3>2
    <3>4. b[k] = w[k]
      BY <1>1, <3>1
    <3> QED
      BY <1>1, <1>4, <3>1, <3>2, <3>3, <3>4
  <2> QED
    BY <1>1, <2>1, <2>2
<1>8. all[n + k + 1] = Newline
  <2>1. n + k + 1 - n = k + 1 /\ ~(n + k + 1 <= n)
    BY <1>1
  <2>2. PICK i \in 1 .. n + Len(w) : i = n + k + 1
    BY <1>3, <1>6
  <2>3. all[i] = w[i - n]
    BY <1>3, <2>1, <2>2
  <2> QED
    BY <1>1, <2>1, <2>2, <2>3
<1> QED
  BY <1>6, <1>7, <1>8 DEF BreakFree, all

LastOf(t) == Paragraphs(t)[Len(Paragraphs(t))]

WithLast(ps, p) == [ps EXCEPT ![Len(ps)] = p]

\* A word in which no break begins, not even with what stands before it, goes to the
\* last paragraph.
LEMMA SplitWord ==
    ASSUME NEW t \in Seq(Char), NEW w \in Seq(Char), BreakFree(LastOf(t) \o w)
    PROVE  Paragraphs(t \o w) = WithLast(Paragraphs(t), LastOf(t) \o w)
<1> DEFINE ps == Paragraphs(t)
           p == LastOf(t)
           begin(k) == SubSeq(w, 1, k)
           good == {k \in Nat : k <= Len(w) => Paragraphs(t \o begin(k)) = WithLast(ps, p \o begin(k))}
<1>1. Clean(ps)
  BY SplitIsClean
<1>2. ps \in Seq(Seq(Char)) /\ Len(ps) \in 1 .. Len(ps) /\ p \in Seq(Char) /\ p = ps[Len(ps)]
  BY <1>1 DEF Clean, LastOf
<1> HIDE DEF ps, p
<1>3. 0 \in good
  <2>1. begin(0) = << >> /\ t \o << >> = t /\ p \o << >> = p
    BY <1>2
  <2>2. WithLast(ps, p) = ps
    BY <1>2 DEF WithLast
  <2> QED
    BY <2>1, <2>2 DEF ps
<1>4. ASSUME NEW k \in Nat, k \in good PROVE k + 1 \in good
  <2> SUFFICES ASSUME k + 1 <= Len(w)
               PROVE  Paragraphs(t \o begin(k + 1)) = WithLast(ps, p \o begin(k + 1))
    OBVIOUS
  <2> DEFINE b == begin(k)
             c == w[k + 1]
             q == p \o b
  <2>1. b \in Seq(Char) /\ c \in Char /\ Len(b) = k /\ \A i \in 1 .. k : b[i] = w[i]
    OBVIOUS
  <2>2. begin(k + 1) = Append(b, c)
    OBVIOUS
  <2>3. Paragraphs(t \o b) = WithLast(ps, q)
    BY <1>4
  <2> HIDE DEF b, begin
  <2>4. t \o Append(b, c) = Append(t \o b, c) /\ p \o Append(b, c) = Append(q, c)
    BY <1>2, <2>1, ConcatAppend
  <2>5. ~(c = Newline /\ EndsWithNewline(q))
    BY <1>2, NoBreakBetween DEF b, begin, p
  <2>6. Read(WithLast(ps, q), c) = WithLast(ps, Append(q, c))
    <3> HIDE DEF q, c
    <3>1. Len(WithLast(ps, q)) = Len(ps) /\ WithLast(ps, q)[Len(ps)] = q
      BY <1>2 DEF WithLast
    <3> QED
      BY <2>5, <3>1 DEF Read, WithLast
  <2>7. t \o b \in Seq(Char)
    BY <2>1
  <2> QED
    BY <2>1, <2>2, <2>3, <2>4, <2>6, <2>7, SplitMore
<1> HIDE DEF good
<1>5. Nat \subseteq good
  BY <1>3, <1>4, CountUp
<1>6. begin(Len(w)) = w
  OBVIOUS
<1>7. Len(w) \in good
  BY <1>5
<1>8. Paragraphs(t \o begin(Len(w))) = WithLast(ps, p \o begin(Len(w)))
  BY <1>7 DEF good
<1> QED
  BY <1>6, <1>8 DEF ps, p

LEMMA SplitFirstWord ==
    ASSUME NEW t \in Seq(Char), NEW w \in Seq(Char), NEW ps, ps = Paragraphs(t),
           ps[Len(ps)] = << >>, BreakFree(w)
    PROVE  Paragraphs(t \o w) = WithLast(ps, w)
<1>1. << >> \o w = w
  OBVIOUS
<1>2. LastOf(t) = << >>
  BY DEF LastOf
<1> QED
  BY <1>1, <1>2, SplitWord

LEMMA AppendLast ==
    ASSUME NEW S, NEW ps \in Seq(S), NEW e \in S, NEW w \in S
    PROVE  WithLast(Append(ps, e), w) = Append(ps, w)
<1> DEFINE n == Len(ps)
           ended == Append(ps, e)
           whole == Append(ps, w)
           new == WithLast(ended, w)
<1>1. n \in Nat
  OBVIOUS
<1>2. /\ ended \in Seq(S) /\ Len(ended) = n + 1 /\ \A i \in 1 .. n : ended[i] = ps[i]
      /\ whole \in Seq(S) /\ Len(whole) = n + 1 /\ \A i \in 1 .. n : whole[i] = ps[i]
      /\ whole[n + 1] = w
  BY AppendProperties
<1> HIDE DEF ended, whole, n
<1>3. /\ new \in Seq(S) /\ Len(new) = n + 1
      /\ \A i \in 1 .. n + 1 : new[i] = IF i = n + 1 THEN w ELSE ended[i]
  <2>1. n + 1 \in 1 .. Len(ended)
    BY <1>1, <1>2
  <2> QED
    BY <1>2, <2>1, ExceptSeq DEF WithLast
<1> HIDE DEF new
<1>4. \A i \in 1 .. n + 1 : new[i] = whole[i]
  BY <1>1, <1>2, <1>3
<1>5. new = whole
  BY <1>2, <1>3, <1>4, SeqEqual
<1> QED
  BY <1>5 DEF new, ended, whole

\* A break begins a paragraph.
LEMMA SplitBreak ==
    ASSUME NEW t \in Seq(Char), NEW ps, ps = Paragraphs(t), ~EndsWithNewline(ps[Len(ps)]),
           Newline \in Char
    PROVE  Paragraphs(t \o Break) = Append(ps, << >>)
<1> DEFINE p == ps[Len(ps)]
           q == Append(p, Newline)
           more == WithLast(ps, q)
<1>1. Clean(ps)
  BY SplitIsClean
<1>2. ps \in Seq(Seq(Char)) /\ Len(ps) \in 1 .. Len(ps) /\ p \in Seq(Char)
  BY <1>1 DEF Clean
<1>3. t \o Break = Append(Append(t, Newline), Newline)
  BY DEF Break
<1>4. Append(t, Newline) \in Seq(Char)
  OBVIOUS
<1>5. Paragraphs(t \o Break) = Read(Read(ps, Newline), Newline)
  BY <1>3, <1>4, SplitMore
<1>6. Read(ps, Newline) = more
  BY DEF Read, WithLast
<1>7. /\ q \in Seq(Char) /\ Len(q) = Len(p) + 1 /\ q[Len(q)] = Newline /\ q # << >>
      /\ SubSeq(q, 1, Len(q) - 1) = p
  BY <1>2
<1> HIDE DEF p, q
<1>8. Len(more) = Len(ps) /\ more[Len(ps)] = q /\ [more EXCEPT ![Len(ps)] = p] = ps
  <2>1. Len(more) = Len(ps) /\ more[Len(ps)] = q
    BY <1>2 DEF WithLast
  <2>2. p = ps[Len(ps)] /\ ps = [i \in 1 .. Len(ps) |-> ps[i]]
    BY <1>2 DEF p
  <2>3. [more EXCEPT ![Len(ps)] = p] = ps
    <3>1. [more EXCEPT ![Len(ps)] = p] = [i \in 1 .. Len(ps) |-> IF i = Len(ps) THEN p ELSE ps[i]]
      BY <1>2, <2>2 DEF WithLast
    <3> QED
      BY <2>2, <3>1
  <2> QED
    BY <2>1, <2>3
<1> HIDE DEF more
<1>9. Read(more, Newline) = Append([more EXCEPT ![Len(ps)] = SubSeq(q, 1, Len(q) - 1)], << >>)
  BY <1>7, <1>8 DEF Read, EndsWithNewline
<1> QED
  BY <1>5, <1>6, <1>7, <1>8, <1>9

-----------------------------------------------------------------------------
\* Building a text

IsBuilding(built, ps, n) ==
    built = [k \in 1 .. n |-> IF k = 1 THEN ps[1] ELSE built[k - 1] \o Break \o ps[k]]

LEMMA BuildingExists ==
    ASSUME NEW ps, NEW n \in Nat
    PROVE  \E built : IsBuilding(built, ps, n)
<1> DEFINE good == {m \in Nat : \E built : IsBuilding(built, ps, m)}
<1>1. 0 \in good
  <2>1. IsBuilding([k \in 1 .. 0 |-> ps[1]], ps, 0)
    BY DEF IsBuilding
  <2> QED
    BY <2>1
<1>2. ASSUME NEW m \in Nat, m \in good PROVE m + 1 \in good
  <2>1. PICK built : IsBuilding(built, ps, m)
    BY <1>2
  <2> DEFINE Step(x, k) == x \o Break \o ps[k]
             longer == [k \in 1 .. m + 1 |->
                          IF k = 1 THEN ps[1] ELSE IF k = m + 1 THEN Step(built[m], k) ELSE built[k]]
  <2>2. \A k \in 1 .. m : built[k] = IF k = 1 THEN ps[1] ELSE Step(built[k - 1], k)
    BY <2>1 DEF IsBuilding
  <2> HIDE DEF Step
  <2>3. \A k \in 1 .. m + 1 : longer[k] = IF k = 1 THEN ps[1] ELSE Step(longer[k - 1], k)
    <3> SUFFICES ASSUME NEW k \in 1 .. m + 1, k # 1 PROVE longer[k] = Step(longer[k - 1], k)
      OBVIOUS
    <3>1. k - 1 \in 1 .. m /\ longer[k - 1] = built[k - 1]
      <4>1. k - 1 \in 1 .. m /\ k - 1 # m + 1 /\ k - 1 \in 1 .. m + 1
        OBVIOUS
      <4> QED
        BY <2>2, <4>1
    <3>2. CASE k = m + 1
      BY <3>1, <3>2
    <3>3. CASE k # m + 1
      BY <2>2, <3>1, <3>3
    <3> QED
      BY <3>2, <3>3
  <2>4. IsBuilding(longer, ps, m + 1)
    <3>1. longer = [k \in 1 .. m + 1 |-> longer[k]]
      OBVIOUS
    <3> HIDE DEF longer
    <3> QED
      BY <2>3, <3>1 DEF IsBuilding, Step
  <2> HIDE DEF longer
  <2> QED
    BY <2>4
<1> HIDE DEF good
<1>3. Nat \subseteq good
  BY <1>1, <1>2, CountUp
<1> QED
  BY <1>3 DEF good

LEMMA Building ==
    ASSUME NEW ps \in Seq(Seq(Char)), Len(ps) > 0
    PROVE  \E built : /\ IsBuilding(built, ps, Len(ps)) /\ buildText(ps) = built[Len(ps)]
                      /\ built[1] = ps[1]
                      /\ \A k \in 1 .. Len(ps) - 1 : built[k + 1] = built[k] \o Break \o ps[k + 1]
<1> DEFINE built == CHOOSE b : IsBuilding(b, ps, Len(ps))
<1>1. buildText(ps) = built[Len(ps)]
  BY DEF buildText, IsBuilding
<1>2. IsBuilding(built, ps, Len(ps))
  <2>1. Len(ps) \in Nat
    OBVIOUS
  <2>2. \E b : IsBuilding(b, ps, Len(ps))
    BY <2>1, BuildingExists
  <2> QED
    BY <2>2, Zenon
<1> HIDE DEF built
<1>3. built[1] = ps[1]
  BY <1>2 DEF IsBuilding
<1>4. ASSUME NEW k \in 1 .. Len(ps) - 1
      PROVE  built[k + 1] = built[k] \o Break \o ps[k + 1]
  <2> DEFINE Step(x, i) == x \o Break \o ps[i]
  <2>1. \A i \in 1 .. Len(ps) : built[i] = IF i = 1 THEN ps[1] ELSE Step(built[i - 1], i)
    BY <1>2 DEF IsBuilding
  <2> HIDE DEF Step
  <2>2. built[k + 1] = Step(built[k], k + 1)
    <3>1. k + 1 \in 1 .. Len(ps) /\ k + 1 # 1 /\ k + 1 - 1 = k
      OBVIOUS
    <3> QED
      BY <2>1, <3>1
  <2> QED
    BY <2>2 DEF Step
<1> QED
  BY <1>1, <1>2, <1>3, <1>4

\* What is built of paragraphs is a text.
LEMMA BuiltIsText ==
    ASSUME NEW ps \in Seq(Seq(Char)), Len(ps) > 0, Newline \in Char
    PROVE  buildText(ps) \in Seq(Char)
<1>1. PICK built : /\ buildText(ps) = built[Len(ps)]
                   /\ built[1] = ps[1]
                   /\ \A k \in 1 .. Len(ps) - 1 : built[k + 1] = built[k] \o Break \o ps[k + 1]
  BY Building
<1> DEFINE good == {k \in Nat : k + 1 <= Len(ps) => built[k + 1] \in Seq(Char)}
<1>2. 0 \in good
  BY <1>1
<1>3. ASSUME NEW k \in Nat, k \in good PROVE k + 1 \in good
  <2> SUFFICES ASSUME k + 1 + 1 <= Len(ps) PROVE built[k + 1 + 1] \in Seq(Char)
    OBVIOUS
  <2>1. built[k + 1] \in Seq(Char) /\ k + 1 \in 1 .. Len(ps) - 1 /\ ps[k + 1 + 1] \in Seq(Char)
    BY <1>3
  <2>2. built[k + 1 + 1] = built[k + 1] \o Break \o ps[k + 1 + 1]
    BY <1>1, <2>1
  <2>3. Break \in Seq(Char)
    BY DEF Break
  <2> QED
    BY <2>1, <2>2, <2>3
<1> HIDE DEF good
<1>4. Nat \subseteq good
  BY <1>2, <1>3, CountUp
<1>5. Len(ps) - 1 \in good /\ Len(ps) - 1 + 1 = Len(ps)
  BY <1>4
<1> QED
  BY <1>1, <1>5 DEF good

\* A text built from clean paragraphs is split into them again.
LEMMA Split ==
    ASSUME NEW ps, Clean(ps), Newline \in Char
    PROVE  Paragraphs(buildText(ps)) = ps
<1>1. ps \in Seq(Seq(Char)) /\ Len(ps) \in Nat /\ Len(ps) > 0
  BY DEF Clean
<1>2. PICK built : /\ buildText(ps) = built[Len(ps)]
                   /\ built[1] = ps[1]
                   /\ \A k \in 1 .. Len(ps) - 1 : built[k + 1] = built[k] \o Break \o ps[k + 1]
  BY <1>1, Building
<1> DEFINE P(k) == built[k] \in Seq(Char) /\ Paragraphs(built[k]) = SubSeq(ps, 1, k)
           good == {k \in Nat : k + 1 <= Len(ps) => P(k + 1)}
<1>3. 0 \in good
  <2>1. << >> \in Seq(Char) /\ ps[1] \in Seq(Char) /\ BreakFree(ps[1]) /\ << >> \o ps[1] = ps[1]
    BY <1>1 DEF Clean
  <2>2. << << >> >>[Len(<< << >> >>)] = << >>
    OBVIOUS
  <2>3. Paragraphs(<< >> \o ps[1]) = WithLast(<< << >> >>, ps[1])
    BY <2>1, <2>2, SplitNothing, SplitFirstWord
  <2>4. WithLast(<< << >> >>, ps[1]) = << ps[1] >>
    BY DEF WithLast
  <2>5. SubSeq(ps, 1, 1) = << ps[1] >>
    <3>1. ps[1] \in Seq(Char)
      BY <1>1
    <3> DEFINE begin == SubSeq(ps, 1, 1)
               single == << ps[1] >>
    <3>2. begin \in Seq(Seq(Char)) /\ Len(begin) = 1 /\ begin[1] = ps[1]
      BY <1>1
    <3>3. single \in Seq(Seq(Char)) /\ Len(single) = 1 /\ single[1] = ps[1]
      BY <3>1
    <3> HIDE DEF begin, single
    <3>4. begin = single
      BY <3>2, <3>3, SeqEqual
    <3> QED
      BY <3>4 DEF begin, single
  <2> QED
    BY <1>2, <2>1, <2>3, <2>4, <2>5
<1>4. ASSUME NEW k \in Nat, k \in good PROVE k + 1 \in good
  <2> SUFFICES ASSUME NEW j \in 1 .. Len(ps) - 1, P(j) PROVE P(j + 1)
    <3>1. CASE k + 1 + 1 <= Len(ps)
      <4>1. k + 1 \in 1 .. Len(ps) - 1 /\ P(k + 1)
        BY <1>1, <1>4, <3>1
      <4> HIDE DEF P
      <4> QED
        BY <4>1
    <3>2. CASE ~(k + 1 + 1 <= Len(ps))
      BY <3>2
    <3> QED
      BY <3>1, <3>2
  <2> DEFINE t == built[j]
             u == t \o Break
             begin == SubSeq(ps, 1, j)
             w == ps[j + 1]
  <2>1. /\ t \in Seq(Char) /\ Paragraphs(t) = begin
        /\ built[j + 1] = u \o w
    BY <1>2
  <2>2. /\ begin \in Seq(Seq(Char)) /\ Len(begin) = j /\ begin[j] = ps[j]
        /\ SubSeq(ps, 1, j + 1) = Append(begin, w)
        /\ w \in Seq(Char)
    BY <1>1
  <2>3. ~EndsWithNewline(begin[Len(begin)]) /\ BreakFree(w)
    <3>1. ~EndsWithNewline(ps[j]) /\ BreakFree(w)
      BY <1>1 DEF Clean
    <3> QED
      BY <2>2, <3>1
  <2> HIDE DEF t, begin, w
  <2>4. Paragraphs(u) = Append(begin, << >>)
    BY <2>1, <2>3, SplitBreak
  <2>5. u \in Seq(Char)
    BY <2>1 DEF Break
  <2>6. /\ Append(begin, << >>)[Len(Append(begin, << >>))] = << >>
        /\ WithLast(Append(begin, << >>), w) = Append(begin, w)
    <3>2. Len(Append(begin, << >>)) = j + 1 /\ Append(begin, << >>)[j + 1] = << >>
      BY <2>2
    <3>3. WithLast(Append(begin, << >>), w) = Append(begin, w)
      <4>1. << >> \in Seq(Char)
        OBVIOUS
      <4> QED
        BY <2>2, <4>1, AppendLast
    <3> QED
      BY <3>2, <3>3
  <2> HIDE DEF u
  <2>7. Paragraphs(u \o w) = WithLast(Append(begin, << >>), w)
    BY <2>2, <2>3, <2>4, <2>5, <2>6, SplitFirstWord
  <2>8. u \o w \in Seq(Char)
    BY <2>2, <2>5
  <2> QED
    BY <2>1, <2>2, <2>6, <2>7, <2>8
<1> HIDE DEF good
<1>5. Nat \subseteq good
  BY <1>3, <1>4, CountUp
<1>6. Len(ps) - 1 \in good /\ Len(ps) - 1 + 1 = Len(ps)
  BY <1>1, <1>5
<1>7. Paragraphs(built[Len(ps)]) = SubSeq(ps, 1, Len(ps))
  BY <1>1, <1>6 DEF good
<1> QED
  BY <1>1, <1>2, <1>7

-----------------------------------------------------------------------------
\* One fix

LEMMA Cut ==
    ASSUME NEW p \in Seq(Char), NEW a \in Nat, NEW b \in Nat, a <= b, b <= Len(p)
    PROVE  LET cut == SubSeq(p, a + 1, b)
           IN cut \in Seq(Char) /\ Len(cut) = b - a /\ \A i \in 1 .. b - a : cut[i] = p[a + i]
<1>1. Len(p) \in Nat /\ \A i \in a + 1 .. b : p[i] \in Char
  OBVIOUS
<1>2. a + 1 \in Int /\ b \in Int
  OBVIOUS
<1> DEFINE cut == SubSeq(p, a + 1, b)
<1>3. /\ cut \in Seq(Char)
      /\ Len(cut) = IF a + 1 <= b THEN b - (a + 1) + 1 ELSE 0
      /\ \A i \in 1 .. b - (a + 1) + 1 : cut[i] = p[a + 1 + i - 1]
  BY <1>1, <1>2, SubSeqProperties
<1> HIDE DEF cut
<1>4. b - (a + 1) + 1 = b - a /\ (IF a + 1 <= b THEN b - (a + 1) + 1 ELSE 0) = b - a
  OBVIOUS
<1>5. \A i \in 1 .. b - a : a + 1 + i - 1 = a + i
  OBVIOUS
<1> QED
  BY <1>3, <1>4, <1>5 DEF cut

SameText(q, c, e, p, a, b) == SubSeq(q, c + 1, e) = SubSeq(p, a + 1, b)

LEMMA SameCut ==
    ASSUME NEW p \in Seq(Char), NEW a \in Nat, NEW b \in Nat, a <= b, b <= Len(p),
           NEW q \in Seq(Char), NEW c \in Nat, NEW e \in Nat, e <= Len(q), e - c = b - a,
           \A i \in 1 .. b - a : q[c + i] = p[a + i]
    PROVE  SameText(q, c, e, p, a, b)
<1> DEFINE new == SubSeq(q, c + 1, e)
           old == SubSeq(p, a + 1, b)
<1>1. c <= e
  OBVIOUS
<1>2. old \in Seq(Char) /\ Len(old) = b - a /\ \A i \in 1 .. b - a : old[i] = p[a + i]
  BY Cut
<1>3. new \in Seq(Char) /\ Len(new) = b - a /\ \A i \in 1 .. b - a : new[i] = q[c + i]
  BY <1>1, Cut
<1> HIDE DEF new, old
<1>4. new = old
  BY <1>2, <1>3, SeqEqual
<1> QED
  BY <1>4 DEF new, old, SameText

\* q is p with w for what stood behind a, and d is by how much it is longer.
IsSplice(q, p, w, a, d) ==
    /\ q \in Seq(Char) /\ Len(q) = Len(p) + d
    /\ \A i \in 1 .. a : q[i] = p[i]
    /\ \A i \in a + 1 .. a + Len(w) : q[i] = w[i - a]
    /\ \A i \in a + Len(w) + 1 .. Len(q) : q[i] = p[i - d]

Splice(p, w, a, b) == SubSeq(p, 1, a) \o w \o SubSeq(p, b + 1, Len(p))

LEMMA Spliced ==
    ASSUME NEW p \in Seq(Char), NEW w \in Seq(Char), NEW a \in Nat, NEW b \in Nat, a < b, b <= Len(p),
           NEW d \in Int, d = Len(w) - (b - a)
    PROVE  IsSplice(Splice(p, w, a, b), p, w, a, d)
<1> DEFINE front == SubSeq(p, 1, a)
           back == SubSeq(p, b + 1, Len(p))
           n == Len(p)
           k == Len(w)
           q == Splice(p, w, a, b)
<1>1. n \in Nat /\ k \in Nat /\ d = k - (b - a)
  OBVIOUS
<1>2. front \in Seq(Char) /\ Len(front) = a /\ \A i \in 1 .. a : front[i] = p[i]
  OBVIOUS
<1>3. back \in Seq(Char) /\ Len(back) = n - b /\ \A i \in 1 .. n - b : back[i] = p[b + i]
  OBVIOUS
<1> HIDE DEF front, back, n, q
<1> DEFINE half == front \o w
<1>4. /\ half \in Seq(Char) /\ Len(half) = a + k
      /\ \A i \in 1 .. a + k : half[i] = IF i <= a THEN front[i] ELSE w[i - a]
  BY <1>2, ConcatProperties
<1>5. q = half \o back
  BY DEF front, back, n, q, Splice
<1> HIDE DEF half, k
<1>6. /\ q \in Seq(Char) /\ Len(q) = a + k + (n - b)
      /\ \A i \in 1 .. a + k + (n - b) : q[i] = IF i <= a + k THEN half[i] ELSE back[i - (a + k)]
  <2>1. half \in Seq(Char) /\ back \in Seq(Char)
    BY <1>3, <1>4
  <2>2. /\ half \o back \in Seq(Char) /\ Len(half \o back) = Len(half) + Len(back)
        /\ \A i \in 1 .. Len(half) + Len(back) :
             (half \o back)[i] = IF i <= Len(half) THEN half[i] ELSE back[i - Len(half)]
    BY <2>1, ConcatProperties, Zenon
  <2> QED
    BY <1>3, <1>4, <1>5, <2>2
<1>7. q \in Seq(Char) /\ Len(q) = n + d /\ b <= n
  <2>1. b <= n
    BY DEF n
  <2>2. Len(q) = a + k + (n - b) /\ d = k - (b - a)
    BY <1>1, <1>6
  <2> QED
    BY <1>1, <1>6, <2>1, <2>2
<1>8. ASSUME NEW i \in 1 .. a PROVE q[i] = p[i]
  <2>1. i \in 1 .. a + k + (n - b) /\ i \in 1 .. a + k /\ i <= a /\ i <= a + k
    BY <1>1, <1>7
  <2>2. q[i] = half[i] /\ half[i] = front[i] /\ front[i] = p[i]
    BY <1>2, <1>4, <1>6, <2>1
  <2> QED
    BY <2>2
<1>9. ASSUME NEW i \in a + 1 .. a + k PROVE q[i] = w[i - a]
  <2>1. i \in 1 .. a + k + (n - b) /\ i \in 1 .. a + k /\ ~(i <= a) /\ i <= a + k
    BY <1>1, <1>7
  <2>2. q[i] = half[i] /\ half[i] = w[i - a]
    BY <1>4, <1>6, <2>1
  <2> QED
    BY <2>2
<1>10. ASSUME NEW i \in a + k + 1 .. n + d PROVE q[i] = p[i - d]
  <2>1. i \in 1 .. a + k + (n - b) /\ ~(i <= a + k) /\ i - (a + k) \in 1 .. n - b /\ b + (i - (a + k)) = i - d
    BY <1>1, <1>7
  <2>2. q[i] = back[i - (a + k)]
    BY <1>6, <2>1
  <2>3. back[i - (a + k)] = p[b + (i - (a + k))]
    BY <1>3, <2>1
  <2> QED
    BY <2>1, <2>2, <2>3
<1> QED
  BY <1>7, <1>8, <1>9, <1>10 DEF n, k, q, IsSplice

\* A span within a paragraph.
Within(f, p) == f.start \in Nat /\ f.end \in Nat /\ f.start < f.end /\ f.end <= Len(p)

\* A fix puts its suggestion for what its flag marks, and moves what is behind.
LEMMA SubstitutedIs ==
    ASSUME NEW p \in Seq(Char), NEW f, Within(f, p), f.suggestion \in Seq(Char)
    PROVE  LET q == Substituted(p, f)
               n == f.start + Len(f.suggestion)
           IN /\ q \in Seq(Char) /\ Len(q) = Len(p) + Delta(f) /\ Len(q) \in Nat
              /\ n \in Nat /\ n <= Len(q) /\ n = f.end + Delta(f) /\ Delta(f) \in Int
              /\ \A i \in 1 .. f.start : q[i] = p[i]
              /\ \A i \in f.start + 1 .. n : q[i] = f.suggestion[i - f.start]
              /\ \A i \in n + 1 .. Len(q) : q[i] = p[i - Delta(f)]
<1>1. PICK a \in Nat, b \in Nat, w \in Seq(Char) : a = f.start /\ b = f.end /\ w = f.suggestion
  BY DEF Within
<1>2. PICK d \in Int : d = Delta(f) /\ d = Len(w) - (b - a)
  BY <1>1 DEF Delta
<1> DEFINE q == Splice(p, w, a, b)
<1>3. a < b /\ b <= Len(p) /\ Len(p) \in Nat /\ Len(w) \in Nat
  BY <1>1 DEF Within
<1>4. IsSplice(q, p, w, a, d)
  BY <1>2, <1>3, Spliced
<1>5. q = Substituted(p, f)
  BY <1>1 DEF Substituted, Splice
<1> HIDE DEF q
<1>6. /\ Len(q) \in Nat /\ a + Len(w) \in Nat /\ a + Len(w) <= Len(q) /\ a + Len(w) = b + d
  BY <1>2, <1>3, <1>4 DEF IsSplice
<1> QED
  BY <1>1, <1>2, <1>4, <1>5, <1>6 DEF IsSplice

\* Where a flag is after a fix.
Moved(g, f) == IF After(g, f) THEN AdjustSpan(g, Delta(f)) ELSE g

\* What a flag marks is the same after a fix with which it is not in conflict, and a
\* span is never left alone because it would begin before its paragraph.
MarkIsMoved(h, q, g, p, f) ==
    /\ h \in Flag /\ Within(h, q) /\ Marked(q, h) = Marked(p, g)
    /\ h = IF g.start >= f.end
           THEN [g EXCEPT !.start = g.start + Delta(f), !.end = g.end + Delta(f)] ELSE g

LEMMA MarksAreMoved ==
    ASSUME NEW p \in Seq(Char), NEW f \in Flag, NEW g \in Flag, Within(f, p), Within(g, p),
           f.para = g.para, ~Conflicts(g, f)
    PROVE  MarkIsMoved(Moved(g, f), Substituted(p, f), g, p, f)
<1> DEFINE q == Substituted(p, f)
           d == Delta(f)
           h == Moved(g, f)
           n == f.start + Len(f.suggestion)
<1>1. /\ q \in Seq(Char) /\ Len(q) = Len(p) + d /\ Len(q) \in Nat
      /\ n \in Nat /\ n <= Len(q) /\ n = f.end + d /\ d \in Int
      /\ \A i \in 1 .. f.start : q[i] = p[i]
      /\ \A i \in n + 1 .. Len(q) : q[i] = p[i - d]
  BY SubstitutedIs DEF Flag
<1>2. /\ f.start \in Nat /\ f.end \in Nat /\ g.start \in Nat /\ g.end \in Nat /\ Len(p) \in Nat
      /\ f.start < f.end /\ g.start < g.end /\ f.end <= Len(p) /\ g.end <= Len(p)
  BY DEF Within
<1>3. n >= f.start
  BY <1>2 DEF Flag
<1> HIDE DEF q, d, n
<1>4. CASE g.start >= f.end
  <2>1. h = IF g.start + d < 0 THEN g ELSE [g EXCEPT !.start = g.start + d, !.end = g.end + d]
    BY <1>4 DEF Moved, After, AdjustSpan, d
  <2>2. g.start + d >= n /\ g.start + d \in Nat /\ g.end + d \in Nat
    BY <1>1, <1>2, <1>4
  <2>3. h = [g EXCEPT !.start = g.start + d, !.end = g.end + d]
    BY <1>1, <1>2, <2>1, <2>2
  <2>4. h \in Flag /\ h.start = g.start + d /\ h.end = g.end + d
    BY <2>2, <2>3 DEF Flag
  <2> HIDE DEF h
  <2>5. Within(h, q)
    BY <1>1, <1>2, <2>2, <2>4 DEF Within
  <2>6. Marked(q, h) = Marked(p, g)
    <3>1. PICK a \in Nat, b \in Nat, m \in Nat, e \in Nat :
             a = g.start /\ b = g.end /\ m = g.start + d /\ e = g.end + d
      BY <1>2, <2>2
    <3>2. PICK r \in Seq(Char) : r = q
      BY <1>1
    <3>3. PICK x \in Int, k \in Nat : x = d /\ k = n
      BY <1>1
    <3>4. a <= b /\ b <= Len(p) /\ e <= Len(r) /\ e - m = b - a
      <4>1. m = a + x /\ e = b + x
        BY <3>1, <3>3
      <4>2. Len(r) = Len(p) + x /\ Len(p) \in Nat
        BY <1>1, <3>2, <3>3
      <4>3. a < b /\ b <= Len(p)
        BY <1>2, <3>1
      <4> QED
        BY <4>1, <4>2, <4>3
    <3>5. ASSUME NEW i \in 1 .. b - a PROVE r[m + i] = p[a + i]
      <4>1. m + i \in n + 1 .. Len(q) /\ m + i - d = a + i
        <5>1. m = a + x /\ m >= k
          BY <2>2, <3>1, <3>3
        <5>2. m + i >= k + 1 /\ m + i <= Len(r) /\ m + i - x = a + i
          BY <3>4, <5>1
        <5>3. m + i \in k + 1 .. Len(r)
          BY <5>2
        <5> QED
          BY <3>2, <3>3, <5>2, <5>3
      <4>2. q[m + i] = p[m + i - d]
        BY <1>1, <4>1
      <4> QED
        BY <3>2, <4>1, <4>2
    <3>6. SameText(r, m, e, p, a, b)
      BY <3>4, <3>5, SameCut
    <3> QED
      BY <2>4, <3>1, <3>2, <3>6 DEF Marked, SameText
  <2> QED
    BY <1>4, <2>3, <2>4, <2>5, <2>6 DEF q, d, h, MarkIsMoved
<1>5. CASE ~(g.start >= f.end)
  <2>1. g.end <= f.start
    BY <1>2, <1>5 DEF Conflicts
  <2>2. h = g
    BY <1>5 DEF Moved, After
  <2>3. Within(g, q)
    BY <1>1, <1>2, <1>3, <2>1 DEF Within
  <2>4. Marked(q, g) = Marked(p, g)
    <3>1. PICK a \in Nat, b \in Nat : a = g.start /\ b = g.end
      BY <1>2
    <3>2. PICK r \in Seq(Char) : r = q
      BY <1>1
    <3>3. a <= b /\ b <= Len(p) /\ b <= Len(r) /\ b - a = b - a
      BY <1>2, <2>3, <3>1, <3>2 DEF Within
    <3>4. ASSUME NEW i \in 1 .. b - a PROVE r[a + i] = p[a + i]
      <4>1. a + i \in 1 .. f.start
        BY <1>2, <2>1, <3>1
      <4> QED
        BY <1>1, <3>2, <4>1
    <3>5. SameText(r, a, b, p, a, b)
      BY <3>3, <3>4, SameCut
    <3> QED
      BY <3>1, <3>2, <3>5 DEF Marked, SameText
  <2> QED
    BY <1>5, <2>2, <2>3, <2>4 DEF q, h, MarkIsMoved
<1> QED
  BY <1>4, <1>5

\* What a fix may not do to a paragraph: put a break into it, or one half at its end.
KeepsBreaks(q, p) ==
    /\ BreakFree(q)
    /\ ~EndsWithNewline(p) => ~EndsWithNewline(q)
    /\ NewlineFree(p) => NewlineFree(q)

LEMMA FixKeepsBreaks ==
    ASSUME NEW p \in Seq(Char), NEW f \in Flag, Within(f, p), BreakFree(p),
           NewlineFree(f.suggestion), f.suggestion = << >> => NewlineFree(p)
    PROVE  KeepsBreaks(Substituted(p, f), p)
<1>1. PICK q \in Seq(Char) : q = Substituted(p, f)
  BY SubstitutedIs DEF Flag
<1>2. PICK w \in Seq(Char), a \in Nat, b \in Nat, d \in Int :
         w = f.suggestion /\ a = f.start /\ b = f.end /\ d = Delta(f)
  BY SubstitutedIs DEF Flag, Within
<1>3. PICK n \in Nat : n = a + Len(w)
  BY <1>2
<1>4. /\ Len(q) = Len(p) + d /\ n <= Len(q) /\ n = b + d
      /\ \A i \in 1 .. a : q[i] = p[i]
      /\ \A i \in a + 1 .. n : q[i] = w[i - a]
      /\ \A i \in n + 1 .. Len(q) : q[i] = p[i - d]
  <2>1. f.suggestion \in Seq(Char)
    BY DEF Flag
  <2>2. /\ Len(q) = Len(p) + Delta(f)
        /\ f.start + Len(f.suggestion) <= Len(q) /\ f.start + Len(f.suggestion) = f.end + Delta(f)
        /\ \A i \in 1 .. f.start : q[i] = p[i]
        /\ \A i \in f.start + 1 .. f.start + Len(f.suggestion) : q[i] = f.suggestion[i - f.start]
        /\ \A i \in f.start + Len(f.suggestion) + 1 .. Len(q) : q[i] = p[i - Delta(f)]
    BY <1>1, <2>1, SubstitutedIs
  <2> QED
    BY <1>2, <1>3, <2>2
<1>5. /\ a < b /\ b <= Len(p) /\ Len(p) \in Nat /\ Len(q) \in Nat /\ Len(w) \in Nat /\ a <= n
      /\ DOMAIN p = 1 .. Len(p) /\ DOMAIN q = 1 .. Len(q) /\ DOMAIN w = 1 .. Len(w)
  BY <1>2, <1>3 DEF Within
<1>6. \A i \in 1 .. Len(w) : w[i] # Newline
  BY <1>2, <1>5 DEF NewlineFree
\* Of a newline in q, its place in p.
<1>7. ASSUME NEW i \in 1 .. Len(q), q[i] = Newline
      PROVE  \/ i <= a /\ i \in 1 .. Len(p) /\ p[i] = Newline
             \/ i > n /\ i - d \in 1 .. Len(p) /\ p[i - d] = Newline
  <2>1. CASE i <= a
    BY <1>4, <1>5, <1>7, <2>1
  <2>2. CASE i > a /\ i <= n
    <3>1. i \in a + 1 .. n /\ i - a \in 1 .. Len(w)
      BY <1>3, <1>5, <2>2
    <3>2. q[i] = w[i - a]
      BY <1>4, <3>1
    <3> QED
      BY <1>6, <1>7, <3>1, <3>2
  <2>3. CASE i > n
    <3>1. i \in n + 1 .. Len(q) /\ i - d > b /\ i - d <= Len(p)
      BY <1>4, <1>5, <2>3
    <3>2. q[i] = p[i - d]
      BY <1>4, <3>1
    <3> QED
      BY <1>5, <1>7, <2>3, <3>1, <3>2
  <2> QED
    BY <2>1, <2>2, <2>3
<1>8. NewlineFree(p) => NewlineFree(q)
  BY <1>5, <1>7 DEF NewlineFree
<1>9. NewlineFree(q) => BreakFree(q)
  BY DEF NewlineFree, BreakFree
<1>10. CASE w = << >>
  <2>1. NewlineFree(q)
    BY <1>2, <1>8, <1>10
  <2>2. ~EndsWithNewline(q)
    <3> SUFFICES ASSUME q # << >> PROVE q[Len(q)] # Newline
      BY DEF EndsWithNewline
    <3>1. Len(q) \in DOMAIN q
      BY <1>5
    <3> QED
      BY <2>1, <3>1 DEF NewlineFree
  <2> QED
    BY <1>1, <1>9, <2>1, <2>2 DEF KeepsBreaks
<1>11. CASE w # << >>
  <2>1. Len(w) > 0 /\ n > a
    BY <1>3, <1>5, <1>11
  <2>2. BreakFree(q)
    <3> SUFFICES ASSUME NEW i \in 1 .. Len(q), i + 1 \in 1 .. Len(q), q[i] = Newline, q[i + 1] = Newline
                 PROVE  FALSE
      BY <1>5 DEF BreakFree
    <3>1. \A j \in 1 .. Len(p) : j + 1 \in 1 .. Len(p) /\ p[j] = Newline => p[j + 1] # Newline
      BY <1>5 DEF BreakFree
    <3>2. \/ i <= a /\ i \in 1 .. Len(p) /\ p[i] = Newline
          \/ i > n /\ i - d \in 1 .. Len(p) /\ p[i - d] = Newline
      BY <1>7
    <3>3. PICK j \in 1 .. Len(q) : j = i + 1
      OBVIOUS
    <3>4. \/ j <= a /\ j \in 1 .. Len(p) /\ p[j] = Newline
          \/ j > n /\ j - d \in 1 .. Len(p) /\ p[j - d] = Newline
      BY <1>7, <3>3
    <3>5. CASE i <= a
      <4>1. j <= a /\ i \in 1 .. Len(p) /\ p[i] = Newline /\ j \in 1 .. Len(p) /\ p[j] = Newline
        BY <1>5, <2>1, <3>2, <3>3, <3>4, <3>5
      <4> QED
        BY <3>1, <3>3, <4>1
    <3>6. CASE i > n
      <4>1. /\ i - d \in 1 .. Len(p) /\ p[i - d] = Newline
            /\ j - d \in 1 .. Len(p) /\ p[j - d] = Newline
        BY <1>5, <2>1, <3>2, <3>3, <3>4, <3>6
      <4>2. PICK k \in 1 .. Len(p) : k = i - d
        BY <4>1
      <4>3. j - d = k + 1
        BY <3>3, <4>2
      <4> QED
        BY <3>1, <4>1, <4>2, <4>3
    <3> QED
      BY <3>2, <3>5, <3>6
  <2>3. ASSUME ~EndsWithNewline(p) PROVE ~EndsWithNewline(q)
    <3> SUFFICES ASSUME q # << >>, q[Len(q)] = Newline PROVE FALSE
      BY DEF EndsWithNewline
    <3>1. PICK i \in 1 .. Len(q) : i = Len(q)
      BY <1>5
    <3>2. \/ i <= a /\ i \in 1 .. Len(p) /\ p[i] = Newline
          \/ i > n /\ i - d \in 1 .. Len(p) /\ p[i - d] = Newline
      BY <1>7, <3>1
    <3>3. ~(i <= a)
      BY <1>4, <1>5, <2>1, <3>1
    <3>4. i - d = Len(p) /\ p[Len(p)] = Newline
      BY <1>4, <1>5, <3>1, <3>2, <3>3
    <3>5. p # << >>
      BY <1>5
    <3> QED
      BY <2>3, <3>4, <3>5 DEF EndsWithNewline
  <2> QED
    BY <1>1, <1>8, <2>2, <2>3 DEF KeepsBreaks
<1> QED
  BY <1>10, <1>11

LEMMA NewlineIsChar == Newline \in Char
BY TextsAssumption DEF TextsAssumption

\* A flag that marks at least one character, and where a fix moves such a flag: as far as
\* the fix lengthens the paragraph, if it stands behind it, and never before its beginning.
Spanning(g) == g \in Flag /\ g.start < g.end

IsMoved(h, g, f) ==
    /\ Spanning(h) /\ h.id = g.id /\ h.para = g.para /\ h.state = g.state
    /\ h.suggestion = g.suggestion
    /\ h = IF g.para = f.para /\ g.start >= f.end
           THEN [g EXCEPT !.start = g.start + Delta(f), !.end = g.end + Delta(f)] ELSE g

LEMMA MovedIs ==
    ASSUME NEW f, Spanning(f), NEW g, Spanning(g)
    PROVE  IsMoved(Moved(g, f), g, f)
<1> DEFINE d == Delta(f)
           h == Moved(g, f)
<1>1. /\ f.start \in Nat /\ f.end \in Nat /\ g.start \in Nat /\ g.end \in Nat
      /\ f.start < f.end /\ g.start < g.end /\ g \in Flag
  BY DEF Spanning, Flag
<1>2. d \in Int /\ f.end + d >= f.start
  <2>1. Len(f.suggestion) \in Nat
    BY DEF Spanning, Flag
  <2> QED
    BY <1>1, <2>1 DEF Delta
<1> HIDE DEF d
<1>3. CASE After(g, f)
  <2>1. g.para = f.para /\ g.start >= f.end
    BY <1>3 DEF After
  <2>2. g.start + d \in Nat /\ g.end + d \in Nat /\ ~(g.start + d < 0) /\ g.start + d < g.end + d
    BY <1>1, <1>2, <2>1
  <2>3. h = [g EXCEPT !.start = g.start + d, !.end = g.end + d]
    BY <1>3, <2>2 DEF Moved, AdjustSpan, d
  <2>4. /\ h \in Flag /\ h.start = g.start + d /\ h.end = g.end + d /\ h.id = g.id
        /\ h.para = g.para /\ h.state = g.state /\ h.suggestion = g.suggestion
    BY <1>1, <2>2, <2>3 DEF Flag
  <2> QED
    BY <2>1, <2>2, <2>3, <2>4 DEF IsMoved, Spanning, d
<1>4. CASE ~After(g, f)
  <2>1. h = g /\ ~(g.para = f.para /\ g.start >= f.end)
    BY <1>4 DEF Moved, After
  <2> QED
    BY <2>1 DEF IsMoved, Spanning
<1> QED
  BY <1>3, <1>4

\* A fix moves two flags that are not in conflict, with it or with each other, into none.
LEMMA FixKeepsApart ==
    ASSUME NEW f, Spanning(f), NEW g, Spanning(g), ~Conflicts(g, f),
           NEW h, Spanning(h), ~Conflicts(h, f), ~Conflicts(g, h)
    PROVE  ~Conflicts(Moved(g, f), Moved(h, f))
<1>1. IsMoved(Moved(g, f), g, f) /\ IsMoved(Moved(h, f), h, f)
  BY MovedIs
<1>2. Moved(g, f).para = g.para /\ Moved(h, f).para = h.para
  BY <1>1 DEF IsMoved
<1>3. CASE g.para # h.para
  BY <1>2, <1>3 DEF Conflicts
<1>4. CASE g.para = h.para /\ g.para # f.para
  <2>1. Moved(g, f) = g /\ Moved(h, f) = h
    BY <1>4 DEF Moved, After
  <2> QED
    BY <2>1
<1>5. CASE g.para = h.para /\ g.para = f.para
  <2>1. Len(f.suggestion) \in Nat /\ f.start \in Nat /\ f.end \in Nat /\ f.start < f.end
    BY DEF Spanning, Flag
  <2>2. Delta(f) \in Int /\ f.end + Delta(f) >= f.start
    BY <2>1 DEF Delta
  <2>3. PICK a \in Nat, b \in Nat, s \in Nat, e \in Nat, x \in Nat, y \in Nat, d \in Int :
           /\ a = f.start /\ b = f.end /\ s = g.start /\ e = g.end /\ x = h.start /\ y = h.end
           /\ d = Delta(f)
    BY <2>2 DEF Spanning, Flag
  <2>4. /\ Moved(g, f).start = IF s >= b THEN s + d ELSE s
        /\ Moved(g, f).end = IF s >= b THEN e + d ELSE e
    BY <1>1, <1>5, <2>3 DEF IsMoved, Spanning, Flag
  <2>5. /\ Moved(h, f).start = IF x >= b THEN x + d ELSE x
        /\ Moved(h, f).end = IF x >= b THEN y + d ELSE y
    BY <1>1, <1>5, <2>3 DEF IsMoved, Spanning, Flag
  <2>6. /\ ~(s < b /\ e > a) /\ ~(x < b /\ y > a) /\ ~(s < y /\ e > x)
        /\ s < e /\ x < y /\ a < b /\ b + d >= a
    BY <1>5, <2>2, <2>3 DEF Conflicts, Spanning
  <2> QED
    BY <2>4, <2>5, <2>6 DEF Conflicts
<1> QED
  BY <1>3, <1>4, <1>5

LEMMA FitsIsWithin ==
    ASSUME NEW ps \in Seq(Seq(Char)), NEW f \in Flag, Fits(ps, f)
    PROVE  f.para + 1 \in 1 .. Len(ps) /\ ps[f.para + 1] \in Seq(Char) /\ Within(f, ps[f.para + 1])
BY DEF Fits, Within, Flag

\* What a fix makes of the paragraphs: the same but one.
FixIs(new, ps, f) ==
    /\ new \in Seq(Seq(Char)) /\ Len(new) = Len(ps)
    /\ \A k \in 1 .. Len(ps) : new[k] = IF k = f.para + 1 THEN Substituted(ps[k], f) ELSE ps[k]

LEMMA WithFixIs ==
    ASSUME NEW ps \in Seq(Seq(Char)), NEW f \in Flag, Fits(ps, f)
    PROVE  FixIs(WithFix(ps, f), ps, f)
<1>1. PICK m \in Nat : m = Len(ps)
  OBVIOUS
<1>2. PICK x \in 1 .. m : x = f.para + 1 /\ ps[x] \in Seq(Char) /\ Within(f, ps[x])
  BY <1>1, FitsIsWithin
<1>3. PICK q \in Seq(Char) : q = Substituted(ps[x], f)
  BY <1>2, SubstitutedIs DEF Flag
<1> DEFINE new == WithFix(ps, f)
<1>4. new = [k \in 1 .. m |-> IF k = x THEN q ELSE ps[k]]
  BY <1>1, <1>2, <1>3 DEF WithFix
<1> HIDE DEF new
<1>5. new \in Seq(Seq(Char)) /\ Len(new) = m /\ \A k \in 1 .. m : new[k] = IF k = x THEN q ELSE ps[k]
  BY <1>1, <1>4
<1> QED
  BY <1>1, <1>2, <1>3, <1>5 DEF FixIs, new

\* A fix that puts no newline into a paragraph, and if it puts nothing there, has none
\* around, leaves the paragraphs such as splitting makes them.
Tame(f, ps) ==
    NewlineFree(f.suggestion) /\ (f.suggestion = << >> => NewlineFree(ps[f.para + 1]))

LEMMA FixKeepsClean ==
    ASSUME NEW ps, Clean(ps), NEW f \in Flag, Fits(ps, f), Tame(f, ps)
    PROVE  Clean(WithFix(ps, f))
<1>1. PICK m \in Nat : m = Len(ps)
  BY DEF Clean
<1>2. ps \in Seq(Seq(Char)) /\ m > 0
  BY <1>1 DEF Clean
<1>3. PICK x \in 1 .. m : x = f.para + 1 /\ ps[x] \in Seq(Char) /\ Within(f, ps[x])
  BY <1>1, <1>2, FitsIsWithin
<1>4. KeepsBreaks(Substituted(ps[x], f), ps[x])
  <2>1. BreakFree(ps[x]) /\ NewlineFree(f.suggestion) /\ (f.suggestion = << >> => NewlineFree(ps[x]))
    BY <1>1, <1>3 DEF Clean, Tame
  <2> QED
    BY <1>3, <2>1, FixKeepsBreaks
<1>5. PICK new : new = WithFix(ps, f)
  OBVIOUS
<1>6. /\ new \in Seq(Seq(Char)) /\ Len(new) = m
      /\ \A k \in 1 .. m : new[k] = IF k = x THEN Substituted(ps[x], f) ELSE ps[k]
  BY <1>1, <1>2, <1>3, <1>5, WithFixIs DEF FixIs
<1>7. ASSUME NEW k \in 1 .. m PROVE BreakFree(new[k])
  BY <1>1, <1>4, <1>6 DEF Clean, KeepsBreaks
<1>8. ASSUME NEW k \in 1 .. m - 1 PROVE ~EndsWithNewline(new[k])
  <2>1. ~EndsWithNewline(ps[k])
    BY <1>1 DEF Clean
  <2> QED
    BY <1>4, <1>6, <2>1 DEF KeepsBreaks
<1> QED
  BY <1>2, <1>5, <1>6, <1>7, <1>8 DEF Clean

\* A flag m in the paragraphs new is the flag h in the paragraphs ps, wherever it is now.
CarriedOver(m, new, h, ps) ==
    /\ m \in Flag /\ Fits(new, m) /\ Marked(new[m.para + 1], m) = Marked(ps[h.para + 1], h)
    /\ m.id = h.id /\ m.para = h.para /\ m.state = h.state /\ m.suggestion = h.suggestion

LEMMA FixCarriesOver ==
    ASSUME NEW ps, Clean(ps), NEW f \in Flag, Fits(ps, f), NEW h \in Flag, Fits(ps, h), ~Conflicts(h, f)
    PROVE  CarriedOver(Moved(h, f), WithFix(ps, f), h, ps)
<1>1. PICK l \in Nat : l = Len(ps)
  BY DEF Clean
<1>2. ps \in Seq(Seq(Char))
  BY DEF Clean
<1>3. PICK x \in 1 .. l : x = h.para + 1 /\ ps[x] \in Seq(Char) /\ Within(h, ps[x])
  BY <1>1, <1>2, FitsIsWithin
<1>4. f.para + 1 \in 1 .. l /\ ps[f.para + 1] \in Seq(Char) /\ Within(f, ps[f.para + 1])
  BY <1>1, <1>2, FitsIsWithin
<1> DEFINE new == WithFix(ps, f)
           m == Moved(h, f)
<1>5. /\ Len(new) = l
      /\ \A k \in 1 .. l : new[k] = IF k = f.para + 1 THEN Substituted(ps[k], f) ELSE ps[k]
  BY <1>1 DEF WithFix
<1> HIDE DEF new
<1>6. h.para \in Nat /\ f.para \in Nat
  BY DEF Flag
<1>7. CASE h.para = f.para
  <2>1. new[x] = Substituted(ps[x], f) /\ Within(f, ps[x])
    BY <1>3, <1>4, <1>5, <1>7
  <2>2. PICK q \in Seq(Char) : q = new[x]
    BY <1>3, <2>1, SubstitutedIs DEF Flag
  <2>3. /\ m \in Flag /\ Within(m, q) /\ Marked(q, m) = Marked(ps[x], h)
        /\ m = IF h.start >= f.end
               THEN [h EXCEPT !.start = h.start + Delta(f), !.end = h.end + Delta(f)] ELSE h
    <3>1. MarkIsMoved(Moved(h, f), Substituted(ps[x], f), h, ps[x], f)
      BY <1>3, <1>7, <2>1, MarksAreMoved
    <3> QED
      BY <2>1, <2>2, <3>1 DEF MarkIsMoved
  <2>4. m.id = h.id /\ m.para = h.para /\ m.state = h.state /\ m.suggestion = h.suggestion
    BY <2>3 DEF Flag
  <2> HIDE DEF m
  <2>5. Fits(new, m)
    BY <1>3, <1>5, <1>6, <2>2, <2>3, <2>4 DEF Fits, Within
  <2>6. Marked(new[m.para + 1], m) = Marked(ps[h.para + 1], h)
    BY <1>3, <2>2, <2>3, <2>4
  <2> QED
    BY <2>3, <2>4, <2>5, <2>6 DEF CarriedOver, m, new
<1>8. CASE h.para # f.para
  <2>1. m = h
    BY <1>8 DEF Moved, After
  <2>2. new[x] = ps[x]
    BY <1>3, <1>5, <1>6, <1>8
  <2>3. Fits(new, h)
    BY <1>1, <1>3, <1>5, <2>2 DEF Fits
  <2>4. Marked(new[h.para + 1], h) = Marked(ps[h.para + 1], h)
    BY <1>3, <2>2
  <2> HIDE DEF m
  <2> QED
    BY <2>1, <2>3, <2>4 DEF CarriedOver, m, new
<1> QED
  BY <1>7, <1>8

-----------------------------------------------------------------------------
\* What no fix can reach: the paragraphs before the one it is in.

\* The first m paragraphs are those of ps, and there are more.
Begins(qs, ps, m) == m < Len(qs) /\ \A k \in 1 .. m : qs[k] = ps[k]

\* Reading on changes no paragraph but the last, or adds one.
LEMMA ReadKeepsBeginning ==
    ASSUME NEW qs \in Seq(Seq(Char)), NEW ps, NEW m \in Nat, Begins(qs, ps, m), NEW c \in Char
    PROVE  Begins(Read(qs, c), ps, m)
<1>1. PICK n \in Nat : n = Len(qs) /\ m < n
  BY DEF Begins
<1>2. qs[n] \in Seq(Char)
  BY <1>1
<1>3. CASE c = Newline /\ EndsWithNewline(qs[n])
  <2>1. PICK q : q = SubSeq(qs[n], 1, Len(qs[n]) - 1)
    OBVIOUS
  <2>2. q \in Seq(Char)
    BY <1>2, <2>1
  <2>3. PICK less \in Seq(Seq(Char)) : /\ less = [qs EXCEPT ![n] = q] /\ Len(less) = n
                                       /\ \A k \in 1 .. m : less[k] = qs[k]
    <3>1. n \in 1 .. Len(qs) /\ n \in Nat /\ \A k \in 1 .. m : k \in 1 .. n /\ k # n
      BY <1>1
    <3>2. /\ [qs EXCEPT ![n] = q] \in Seq(Seq(Char)) /\ Len([qs EXCEPT ![n] = q]) = n
          /\ \A k \in 1 .. n : [qs EXCEPT ![n] = q][k] = IF k = n THEN q ELSE qs[k]
      BY <1>1, <2>2, <3>1, ExceptSeq
    <3>3. \A k \in 1 .. m : [qs EXCEPT ![n] = q][k] = qs[k]
      BY <3>1, <3>2
    <3> QED
      BY <3>2, <3>3, Zenon
  <2>4. Read(qs, c) = Append(less, << >>)
    BY <1>1, <1>3, <2>1, <2>3 DEF Read
  <2>5. Len(Append(less, << >>)) = n + 1 /\ \A k \in 1 .. m : Append(less, << >>)[k] = less[k]
    BY <1>1, <2>3
  <2> QED
    BY <1>1, <2>3, <2>4, <2>5 DEF Begins
<1>4. CASE ~(c = Newline /\ EndsWithNewline(qs[n]))
  <2>1. PICK q : q = Append(qs[n], c)
    OBVIOUS
  <2>2. q \in Seq(Char)
    BY <1>2, <2>1
  <2>3. PICK more \in Seq(Seq(Char)) : /\ more = [qs EXCEPT ![n] = q] /\ Len(more) = n
                                       /\ \A k \in 1 .. m : more[k] = qs[k]
    <3>1. n \in 1 .. Len(qs) /\ n \in Nat /\ \A k \in 1 .. m : k \in 1 .. n /\ k # n
      BY <1>1
    <3>2. /\ [qs EXCEPT ![n] = q] \in Seq(Seq(Char)) /\ Len([qs EXCEPT ![n] = q]) = n
          /\ \A k \in 1 .. n : [qs EXCEPT ![n] = q][k] = IF k = n THEN q ELSE qs[k]
      BY <1>1, <2>2, <3>1, ExceptSeq
    <3>3. \A k \in 1 .. m : [qs EXCEPT ![n] = q][k] = qs[k]
      BY <3>1, <3>2
    <3> QED
      BY <3>2, <3>3, Zenon
  <2>4. Read(qs, c) = more
    BY <1>1, <1>4, <2>1, <2>3 DEF Read
  <2> QED
    BY <1>1, <2>3, <2>4 DEF Begins
<1> QED
  BY <1>3, <1>4

LEMMA LongerKeepsBeginning ==
    ASSUME NEW t \in Seq(Char), NEW w \in Seq(Char), NEW ps, NEW m \in Nat,
           Begins(Paragraphs(t), ps, m)
    PROVE  Begins(Paragraphs(t \o w), ps, m)
<1> DEFINE begin(k) == SubSeq(w, 1, k)
           good == {k \in Nat : k <= Len(w) => Begins(Paragraphs(t \o begin(k)), ps, m)}
<1>1. 0 \in good
  <2>1. begin(0) = << >> /\ t \o << >> = t
    OBVIOUS
  <2> QED
    BY <2>1
<1>2. ASSUME NEW k \in Nat, k \in good PROVE k + 1 \in good
  <2> SUFFICES ASSUME k + 1 <= Len(w) PROVE Begins(Paragraphs(t \o begin(k + 1)), ps, m)
    OBVIOUS
  <2> DEFINE b == begin(k)
             c == w[k + 1]
  <2>1. b \in Seq(Char) /\ c \in Char /\ begin(k + 1) = Append(b, c)
    OBVIOUS
  <2>2. Begins(Paragraphs(t \o b), ps, m)
    BY <1>2
  <2> HIDE DEF b, c, begin
  <2>3. t \o b \in Seq(Char) /\ t \o Append(b, c) = Append(t \o b, c)
    BY <2>1, ConcatAppend
  <2>4. Paragraphs(t \o Append(b, c)) = Read(Paragraphs(t \o b), c)
    BY <2>1, <2>3, SplitMore
  <2>5. Paragraphs(t \o b) \in Seq(Seq(Char))
    BY <2>3, SplitIsClean DEF Clean
  <2> QED
    BY <2>1, <2>2, <2>4, <2>5, ReadKeepsBeginning
<1> HIDE DEF good
<1>3. Nat \subseteq good
  BY <1>1, <1>2, CountUp
<1>4. begin(Len(w)) = w
  OBVIOUS
<1>5. Len(w) \in good
  BY <1>3
<1>6. Begins(Paragraphs(t \o begin(Len(w))), ps, m)
  BY <1>5 DEF good
<1> QED
  BY <1>4, <1>6

Continues(built, ps, k) == built[k + 1] = built[k] \o Break \o ps[k + 1]

IsRun(built, ps) ==
    /\ buildText(ps) = built[Len(ps)] /\ built[1] = ps[1]
    /\ \A k \in 1 .. Len(ps) - 1 : Continues(built, ps, k)

LEMMA RunExists ==
    ASSUME NEW ps \in Seq(Seq(Char)), Len(ps) > 0
    PROVE  \E built : IsRun(built, ps)
BY Building DEF IsRun, Continues

Alike(ps, qs, n) ==
    /\ Len(ps) \in Nat /\ Len(qs) \in Nat /\ n \in 1 .. Len(ps) /\ n \in 1 .. Len(qs)
    /\ \A k \in 1 .. n : ps[k] = qs[k]

Agree(b, d, n) == b[n] = d[n]

\* Two lists of paragraphs that begin alike are put together alike as far as they do.
LEMMA RunsAgree ==
    ASSUME NEW ps, NEW qs, NEW b, NEW d, NEW n, IsRun(b, ps), IsRun(d, qs), Alike(ps, qs, n)
    PROVE  Agree(b, d, n)
<1> DEFINE good == {k \in Nat : k + 1 <= n => b[k + 1] = d[k + 1]}
<1>0. /\ Len(ps) \in Nat /\ Len(qs) \in Nat /\ n \in 1 .. Len(ps) /\ n \in 1 .. Len(qs)
      /\ n \in Nat /\ n - 1 \in Nat /\ n - 1 + 1 = n
      /\ \A k \in 1 .. n : ps[k] = qs[k]
  BY DEF Alike
<1>1. 0 \in good
  BY <1>0 DEF IsRun
<1>2. ASSUME NEW k \in Nat, k \in good PROVE k + 1 \in good
  <2> SUFFICES ASSUME k + 1 + 1 <= n PROVE b[k + 1 + 1] = d[k + 1 + 1]
    OBVIOUS
  <2>1. PICK m \in 1 .. n : m = k + 1 /\ m + 1 \in 1 .. n /\ m \in 1 .. Len(ps) - 1 /\ m \in 1 .. Len(qs) - 1
    BY <1>0
  <2>2. b[m] = d[m] /\ ps[m + 1] = qs[m + 1]
    BY <1>0, <1>2, <2>1
  <2>3. b[m + 1] = b[m] \o Break \o ps[m + 1]
    BY <2>1 DEF IsRun, Continues
  <2>4. d[m + 1] = d[m] \o Break \o qs[m + 1]
    BY <2>1 DEF IsRun, Continues
  <2> QED
    BY <2>1, <2>2, <2>3, <2>4
<1> HIDE DEF good
<1>3. Nat \subseteq good
  BY <1>1, <1>2, CountUp
<1>4. n - 1 \in good
  BY <1>0, <1>3
<1> QED
  BY <1>0, <1>4 DEF good, Agree

\* Where the paragraphs up to x are put together, those before it are read off again,
\* whatever is in the others.
LEMMA PrefixIsReadOff ==
    ASSUME NEW ps, Clean(ps), NEW new \in Seq(Seq(Char)), Len(new) = Len(ps), NEW b, IsRun(b, new),
           NEW x \in 1 .. Len(ps), \A k \in 1 .. x - 1 : new[k] = ps[k]
    PROVE  b[x] \in Seq(Char) /\ Begins(Paragraphs(b[x]), ps, x - 1)
<1>1. ps \in Seq(Seq(Char)) /\ Len(ps) \in Nat /\ x \in Nat /\ new[x] \in Seq(Char)
  BY DEF Clean
<1>2. CASE x = 1
  <2>1. b[1] = new[1]
    BY DEF IsRun
  <2>2. b[1] \in Seq(Char)
    BY <1>1, <1>2, <2>1
  <2>3. Len(Paragraphs(b[1])) > 0
    BY <2>2, SplitIsClean DEF Clean
  <2>4. \A k \in 1 .. 0 : Paragraphs(b[1])[k] = ps[k]
    OBVIOUS
  <2> QED
    BY <1>2, <2>2, <2>3, <2>4 DEF Begins
<1>3. CASE x > 1
  <2>1. PICK m \in 1 .. Len(ps) - 1 : x = m + 1 /\ m \in Nat /\ m <= Len(ps) /\ m > 0
    <3>1. x - 1 \in 1 .. Len(ps) - 1 /\ x = x - 1 + 1 /\ x - 1 \in Nat /\ x - 1 <= Len(ps) /\ x - 1 > 0
      BY <1>1, <1>3
    <3> QED
      BY <3>1, Zenon
  <2>2. PICK pre \in Seq(Seq(Char)) : /\ pre = SubSeq(ps, 1, m) /\ Len(pre) = m
                                      /\ \A k \in 1 .. m : pre[k] = ps[k]
    <3>1. /\ SubSeq(ps, 1, m) \in Seq(Seq(Char)) /\ Len(SubSeq(ps, 1, m)) = m
          /\ \A k \in 1 .. m : SubSeq(ps, 1, m)[k] = ps[k]
      BY <1>1, <2>1
    <3> QED
      BY <3>1, Zenon
  <2>3. Clean(pre) /\ ~EndsWithNewline(pre[m])
    <3>1. \A k \in 1 .. m : BreakFree(pre[k]) /\ ~EndsWithNewline(pre[k])
      <4>1. \A k \in 1 .. m : k \in 1 .. Len(ps) /\ k \in 1 .. Len(ps) - 1
        BY <1>1
      <4> QED
        BY <2>2, <4>1 DEF Clean
    <3> QED
      BY <2>2, <3>1 DEF Clean
  <2>4. PICK d : IsRun(d, pre)
    BY <2>1, <2>2, RunExists
  <2>5. b[m] = d[m]
    <3>1. Alike(new, pre, m)
      BY <1>1, <2>1, <2>2 DEF Alike
    <3>2. Agree(b, d, m)
      BY <2>4, <3>1, RunsAgree
    <3> QED
      BY <3>2 DEF Agree
  <2>6. b[m] = buildText(pre)
    BY <2>2, <2>4, <2>5 DEF IsRun
  <2>7. PICK t \in Seq(Char) : t = b[m] /\ Paragraphs(t) = pre
    <3>1. Len(pre) > 0
      BY <2>1, <2>2
    <3>2. buildText(pre) \in Seq(Char) /\ Paragraphs(buildText(pre)) = pre
      BY <2>3, <3>1, BuiltIsText, Split, NewlineIsChar
    <3> QED
      BY <2>6, <3>2, Zenon
  <2>8. b[x] = t \o Break \o new[x]
    BY <1>1, <2>1, <2>7 DEF IsRun, Continues
  <2>9. t \o Break \in Seq(Char) /\ b[x] \in Seq(Char)
    BY <1>1, <2>7, <2>8, NewlineIsChar DEF Break
  <2>10. Paragraphs(t \o Break) = Append(pre, << >>)
    BY <2>2, <2>3, <2>7, SplitBreak, NewlineIsChar
  <2>11. Begins(Append(pre, << >>), ps, m)
    <3>1. Len(Append(pre, << >>)) = m + 1 /\ \A k \in 1 .. m : Append(pre, << >>)[k] = pre[k]
      BY <2>2
    <3> QED
      BY <2>2, <3>1 DEF Begins
  <2>12. Begins(Paragraphs(b[x]), ps, m)
    <3>1. Begins(Paragraphs(t \o Break), ps, m)
      BY <2>10, <2>11
    <3>2. Begins(Paragraphs((t \o Break) \o new[x]), ps, m)
      BY <1>1, <2>1, <2>9, <3>1, LongerKeepsBeginning
    <3> QED
      BY <2>8, <3>2
  <2> QED
    BY <2>1, <2>9, <2>12
<1> QED
  BY <1>1, <1>2, <1>3

LEMMA EarlierStay ==
    ASSUME NEW ps, Clean(ps), NEW new \in Seq(Seq(Char)), Len(new) = Len(ps),
           NEW x \in 1 .. Len(ps), \A k \in 1 .. x - 1 : new[k] = ps[k]
    PROVE  Begins(Paragraphs(buildText(new)), ps, x - 1)
<1>1. PICK n \in Nat : n = Len(ps) /\ n > 0
  BY DEF Clean
<1>2. PICK b : IsRun(b, new)
  BY <1>1, RunExists
<1> DEFINE P(k) == b[k] \in Seq(Char) /\ Begins(Paragraphs(b[k]), ps, x - 1)
           good == {k \in Nat : x + k <= n => P(x + k)}
<1>3. x \in Nat /\ x - 1 \in Nat /\ x <= n
  BY <1>1
<1>4. 0 \in good
  <2>1. P(x)
    BY <1>2, PrefixIsReadOff
  <2> HIDE DEF P
  <2> QED
    BY <1>3, <2>1
<1>5. ASSUME NEW k \in Nat, k \in good PROVE k + 1 \in good
  <2> SUFFICES ASSUME x + (k + 1) <= n PROVE P(x + (k + 1))
    OBVIOUS
  <2>1. PICK j \in 1 .. n - 1 : j = x + k /\ j + 1 = x + (k + 1) /\ P(j)
    <3>1. x + k \in 1 .. n - 1 /\ x + k + 1 = x + (k + 1) /\ x + k <= n
      BY <1>1, <1>3
    <3> HIDE DEF P
    <3> QED
      BY <1>5, <3>1
  <2>2. PICK t \in Seq(Char) : t = b[j] /\ Begins(Paragraphs(t), ps, x - 1)
    BY <2>1, Zenon
  <2>3. b[j + 1] = t \o Break \o new[j + 1] /\ new[j + 1] \in Seq(Char)
    <3>1. j \in 1 .. Len(new) - 1 /\ j + 1 \in 1 .. Len(new)
      BY <1>1, <2>1
    <3>2. new[j + 1] \in Seq(Char)
      BY <3>1
    <3>3. b[j + 1] = b[j] \o Break \o new[j + 1]
      BY <1>2, <3>1 DEF IsRun, Continues
    <3> QED
      BY <2>2, <3>2, <3>3
  <2>4. t \o Break \in Seq(Char) /\ Break \in Seq(Char)
    BY <2>2, NewlineIsChar DEF Break
  <2>5. Begins(Paragraphs(t \o Break), ps, x - 1)
    BY <1>3, <2>2, <2>4, LongerKeepsBeginning
  <2>6. Begins(Paragraphs(t \o Break \o new[j + 1]), ps, x - 1)
    BY <1>3, <2>3, <2>4, <2>5, LongerKeepsBeginning
  <2>7. t \o Break \o new[j + 1] \in Seq(Char)
    BY <2>3, <2>4
  <2>8. P(j + 1)
    BY <2>3, <2>6, <2>7
  <2> HIDE DEF P
  <2> QED
    BY <2>1, <2>8
<1> HIDE DEF good
<1>6. Nat \subseteq good
  BY <1>4, <1>5, CountUp
<1>7. n - x \in good /\ x + (n - x) = n
  BY <1>1, <1>3, <1>6
<1>8. P(n)
  <2> HIDE DEF P
  <2> QED
    BY <1>7 DEF good
<1> QED
  BY <1>1, <1>2, <1>8 DEF IsRun

-----------------------------------------------------------------------------
\* The invariant: every flag marks at least one character, so that no shift is refused and
\* none runs two flags into each other, and those of the paragraphs in which no fix made or
\* moved a break mark what they were raised for.

Inv ==
    /\ TypeOK
    /\ \A f \in flags : Spanning(f)
    /\ SpansStayTrue

\* Raised on a text and suggested for it.
LEMMA InitInv == Init => Inv
<1> SUFFICES ASSUME Init PROVE Inv
  OBVIOUS
<1> DEFINE ps == Paragraphs(text)
<1>1. PICK spans \in [FlagId -> {sp \in Spans(text) : sp.start < sp.end}],
           words \in [FlagId -> Suggestions] :
        /\ flags = {Raised(i, spans[i], words[i]) : i \in FlagId}
        /\ match = [i \in FlagId |-> Marked(ps[spans[i].para + 1], spans[i])]
  BY DEF Init
<1>2. text \in Texts /\ text \in Seq(Char)
  <2>1. text \in Texts
    BY DEF Init
  <2>2. Texts \subseteq Seq(Char)
    BY TextsAssumption DEF TextsAssumption
  <2> QED
    BY <2>1, <2>2
<1>3. ps \in Seq(Seq(Char)) /\ Len(ps) \in Nat
  BY <1>2, SplitIsClean DEF Clean
<1>4. ASSUME NEW i \in FlagId
      PROVE  /\ spans[i].para \in Nat /\ spans[i].start \in Nat /\ spans[i].end \in Nat
             /\ spans[i].para < Len(ps) /\ spans[i].start < spans[i].end
             /\ spans[i].end <= Len(ps[spans[i].para + 1])
             /\ ps[spans[i].para + 1] \in Seq(Char)
             /\ Marked(ps[spans[i].para + 1], spans[i]) \in Seq(Char)
  <2>1. spans[i] \in Spans(text) /\ spans[i].start < spans[i].end
    OBVIOUS
  <2>2. \E k \in DOMAIN ps : \E s \in 0 .. Len(ps[k]) - 1, e \in 1 .. Len(ps[k]) :
           spans[i] = [para |-> k - 1, start |-> s, end |-> e]
    BY <2>1 DEF Spans
  <2>3. PICK k \in 1 .. Len(ps) : \E s \in 0 .. Len(ps[k]) - 1, e \in 1 .. Len(ps[k]) :
           spans[i] = [para |-> k - 1, start |-> s, end |-> e]
    <3>1. DOMAIN ps = 1 .. Len(ps)
      BY <1>3
    <3> HIDE DEF ps
    <3> QED
      BY <2>2, <3>1
  <2>4. PICK s \in 0 .. Len(ps[k]) - 1, e \in 1 .. Len(ps[k]) :
           spans[i] = [para |-> k - 1, start |-> s, end |-> e]
    BY <2>3
  <2>5. PICK p \in Seq(Char) : p = ps[k]
    BY <1>3
  <2>6. s \in Nat /\ e \in Nat /\ e <= Len(p) /\ Len(p) \in Nat /\ s < e
    BY <2>1, <2>4, <2>5
  <2>7. SubSeq(p, s + 1, e) \in Seq(Char)
    BY <2>6, Cut
  <2>8. spans[i].para = k - 1 /\ spans[i].start = s /\ spans[i].end = e /\ k - 1 + 1 = k
    BY <2>4
  <2> QED
    BY <1>3, <2>5, <2>6, <2>7, <2>8 DEF Marked
<1>5. ASSUME NEW i \in FlagId
      PROVE  LET f == Raised(i, spans[i], words[i])
             IN /\ Spanning(f) /\ f.id = i /\ Fits(ps, f)
                /\ Marked(ps[f.para + 1], f) = match[f.id]
  <2> DEFINE f == Raised(i, spans[i], words[i])
  <2>1. words[i] \in Seq(Char)
    BY TextsAssumption DEF TextsAssumption
  <2>2. f \in Flag
    BY <1>4, <2>1 DEF Raised, Flag, FlagState
  <2>3. f.id = i /\ f.para = spans[i].para /\ f.start = spans[i].start /\ f.end = spans[i].end
    BY DEF Raised
  <2> HIDE DEF f
  <2>4. Spanning(f) /\ Fits(ps, f)
    BY <1>4, <2>2, <2>3 DEF Fits, Spanning
  <2>5. Marked(ps[f.para + 1], f) = match[f.id]
    BY <1>1, <2>3 DEF Marked
  <2> QED
    BY <2>3, <2>4, <2>5 DEF f
<1> HIDE DEF ps
<1>6. ASSUME NEW f \in flags
      PROVE  \E i \in FlagId : f = Raised(i, spans[i], words[i])
  BY <1>1
<1>7. ASSUME NEW f \in flags
      PROVE  Spanning(f) /\ f \in Flag /\ Fits(ps, f) /\ Marked(ps[f.para + 1], f) = match[f.id]
  BY <1>5, <1>6 DEF Spanning
<1>8. ASSUME NEW f \in flags, NEW g \in flags, f.id = g.id PROVE f = g
  <2>1. PICK i \in FlagId : f = Raised(i, spans[i], words[i])
    BY <1>6
  <2>2. PICK j \in FlagId : g = Raised(j, spans[j], words[j])
    BY <1>6
  <2>3. i = j
    BY <1>5, <1>8, <2>1, <2>2
  <2> QED
    BY <2>1, <2>2, <2>3
<1>9. match \in [FlagId -> Seq(Char)]
  BY <1>1, <1>4 DEF ps
<1>10. intact \in Nat
  BY <1>3 DEF Init, ps
<1>11. TypeOK
  BY <1>2, <1>7, <1>8, <1>9, <1>10 DEF TypeOK
<1>12. SpansStayTrue
  BY <1>7 DEF SpansStayTrue, Active, ps
<1> QED
  BY <1>7, <1>11, <1>12 DEF Inv

LEMMA RejectInv ==
    ASSUME Inv, NEW f \in flags, RejectFlag(f)
    PROVE  Inv'
<1> DEFINE r == SetState(f, "rejected")
<1>1. Spanning(f) /\ f \in Flag
  BY DEF Inv, TypeOK
<1>2. Spanning(r) /\ r \in Flag /\ r.id = f.id /\ r.state = "rejected"
  BY <1>1 DEF SetState, Flag, FlagState, Spanning
<1> HIDE DEF r
<1>3. flags' = (flags \ {f}) \cup {r} /\ text' = text /\ match' = match /\ intact' = intact
  BY DEF RejectFlag, r
<1>4. TypeOK'
  BY <1>2, <1>3 DEF Inv, TypeOK
<1>5. \A g \in flags' : Spanning(g)
  BY <1>2, <1>3 DEF Inv
<1>6. Active' \subseteq Active
  BY <1>2, <1>3 DEF Active
<1>7. SpansStayTrue'
  BY <1>3, <1>6 DEF Inv, SpansStayTrue
<1> QED
  BY <1>4, <1>5, <1>7 DEF Inv

LEMMA TextIsClean ==
    ASSUME Inv
    PROVE  Clean(Paragraphs(text)) /\ Paragraphs(text) \in Seq(Seq(Char))
BY SplitIsClean DEF Inv, TypeOK, Clean

\* The fix of a flag whose span fits, and of one whose span does not.
Fixing(g) ==
    LET ps == Paragraphs(text)
        new == WithFix(ps, g)
    IN /\ Spanning(g) /\ Fits(ps, g) /\ FixIs(new, ps, g)
       /\ text' = buildText(new) /\ text' \in Seq(Char)
       /\ \A m \in flags' : \E h \in flags : ~Conflicts(h, g) /\ m = Moved(h, g)
       /\ intact' = IF Paragraphs(text') # new /\ g.para < intact THEN g.para ELSE intact

OnlyMarking(g, f) ==
    /\ Spanning(g) /\ g.id = f.id /\ g.state = "applied"
    /\ text' = text /\ flags' = (flags \ {f}) \cup {g} /\ intact' = intact

LEMMA ApplyFixIs ==
    ASSUME Inv, NEW f \in flags, ApplyFix(f)
    PROVE  LET g == SetState(f, "applied") IN match' = match /\ (Fixing(g) \/ OnlyMarking(g, f))
<1> DEFINE g == SetState(f, "applied")
           ps == Paragraphs(text)
           both == (flags \ {f}) \cup {g}
<1>1. Spanning(f) /\ f \in Flag /\ ps \in Seq(Seq(Char)) /\ Len(ps) > 0
  BY TextIsClean DEF Inv, TypeOK, Clean
<1>2. /\ g \in Flag /\ g.state = "applied" /\ g.suggestion = f.suggestion
      /\ g.para = f.para /\ g.start = f.start /\ g.end = f.end /\ g.id = f.id
  BY <1>1 DEF SetState, Flag, FlagState
<1>3. Spanning(g) /\ (Fits(ps, g) <=> Fits(ps, f))
  BY <1>1, <1>2 DEF Spanning, Fits
<1>4. /\ text' = Apply(text, g, both).text /\ flags' = Apply(text, g, both).flags
      /\ match' = match
      /\ intact' = IF Resplits(f) /\ f.para < intact THEN f.para ELSE intact
  BY DEF ApplyFix
<1> HIDE DEF g, ps
<1>5. WithFix(ps, g) = WithFix(ps, f)
  BY <1>2 DEF WithFix, Substituted
<1>6. Resplits(f) <=> Fits(ps, g) /\ Paragraphs(text') # WithFix(ps, g)
  BY <1>3, <1>5 DEF Resplits, ps
<1>7. CASE Fits(ps, g)
  <2> DEFINE new == WithFix(ps, g)
  <2>1. text' = buildText(new) /\ flags' = Remaining(g, both)
    BY <1>4, <1>7 DEF Apply, ps
  <2>2. FixIs(new, ps, g)
    BY <1>1, <1>2, <1>7, WithFixIs
  <2> HIDE DEF new
  <2>3. text' \in Seq(Char)
    BY <1>1, <2>1, <2>2, BuiltIsText, NewlineIsChar DEF FixIs
  <2>4. ASSUME NEW m \in flags' PROVE \E h \in flags : ~Conflicts(h, g) /\ m = Moved(h, g)
    <3>1. PICK h \in both \ {g} : ~Conflicts(h, g) /\ m = Moved(h, g)
      BY <2>1 DEF Remaining, Moved
    <3> QED
      BY <3>1
  <2>5. intact' = IF Paragraphs(text') # new /\ g.para < intact THEN g.para ELSE intact
    BY <1>2, <1>4, <1>6, <1>7 DEF new
  <2>6. Fixing(g)
    BY <1>3, <1>7, <2>1, <2>2, <2>3, <2>4, <2>5 DEF Fixing, new, ps
  <2> QED
    BY <1>4, <2>6 DEF g
<1>8. CASE ~Fits(ps, g)
  <2>1. text' = text /\ flags' = both /\ intact' = intact
    BY <1>4, <1>6, <1>8 DEF Apply, ps
  <2> QED
    BY <1>2, <1>3, <1>4, <2>1 DEF OnlyMarking, g
<1> QED
  BY <1>7, <1>8

\* A flag behind a fix is the flag it was, wherever it is now.
LEMMA FixingMoves ==
    ASSUME Inv, NEW g, Fixing(g), NEW m \in flags'
    PROVE  \E h \in flags : Spanning(h) /\ ~Conflicts(h, g) /\ m = Moved(h, g) /\ IsMoved(m, h, g)
<1>1. PICK h \in flags : ~Conflicts(h, g) /\ m = Moved(h, g)
  BY DEF Fixing
<1>2. Spanning(h) /\ Spanning(g)
  BY DEF Inv, Fixing
<1> QED
  BY <1>1, <1>2, MovedIs

LEMMA FixingKeepsSpansTrue ==
    ASSUME Inv, NEW g, Fixing(g), match' = match
    PROVE  SpansStayTrue'
<1>1. PICK ps \in Seq(Seq(Char)) : ps = Paragraphs(text) /\ Clean(ps)
  BY TextIsClean
<1>2. PICK new : new = WithFix(ps, g) /\ FixIs(new, ps, g)
  BY <1>1 DEF Fixing
<1>3. PICK now : now = Paragraphs(text')
  OBVIOUS
<1>4. /\ g \in Flag /\ Spanning(g) /\ Fits(ps, g) /\ text' = buildText(new) /\ g.para \in Nat
      /\ intact' = IF now # new /\ g.para < intact THEN g.para ELSE intact
      /\ intact \in Nat
  BY <1>1, <1>2, <1>3 DEF Fixing, Spanning, Inv, TypeOK, Flag
<1> SUFFICES ASSUME NEW m \in Active', m.para < intact'
             PROVE  Fits(now, m) /\ Marked(now[m.para + 1], m) = match[m.id]
  BY <1>3 DEF SpansStayTrue
<1>5. PICK h \in flags : Spanning(h) /\ ~Conflicts(h, g) /\ m = Moved(h, g) /\ IsMoved(m, h, g)
  BY FixingMoves DEF Active
<1>6. h \in Active /\ h \in Flag /\ m.para = h.para /\ m.id = h.id /\ h.para \in Nat
  BY <1>5 DEF IsMoved, Active, Spanning, Flag
<1>7. h.para < intact
  BY <1>4, <1>6
<1>8. Fits(ps, h) /\ Marked(ps[h.para + 1], h) = match[h.id]
  BY <1>1, <1>6, <1>7 DEF Inv, SpansStayTrue
<1>9. CASE now = new
  <2>1. CarriedOver(m, new, h, ps)
    BY <1>1, <1>2, <1>4, <1>5, <1>6, <1>8, FixCarriesOver
  <2> QED
    BY <1>6, <1>8, <1>9, <2>1 DEF CarriedOver
<1>10. CASE now # new
  <2>1. h.para < g.para
    BY <1>4, <1>6, <1>10
  <2>2. m = h
    BY <1>5, <2>1, <1>4, <1>6 DEF IsMoved
  <2>3. /\ g.para + 1 \in 1 .. Len(ps) /\ g.para + 1 - 1 = g.para
        /\ h.para + 1 \in 1 .. g.para
    BY <1>1, <1>4, <1>6, <2>1, FitsIsWithin
  <2> DEFINE y == g.para + 1
  <2>4. \A k \in 1 .. y - 1 : new[k] = ps[k]
    <3>1. \A k \in 1 .. y - 1 : k \in 1 .. Len(ps) /\ k # g.para + 1
      BY <1>1, <1>4, <2>3
    <3> QED
      BY <1>2, <3>1 DEF FixIs
  <2>5. Begins(now, ps, g.para)
    <3>1. new \in Seq(Seq(Char)) /\ Len(new) = Len(ps)
      BY <1>2 DEF FixIs
    <3>2. Begins(Paragraphs(buildText(new)), ps, y - 1)
      BY <1>1, <2>3, <2>4, <3>1, EarlierStay
    <3> QED
      BY <1>3, <1>4, <2>3, <3>2
  <2>6. now[h.para + 1] = ps[h.para + 1] /\ h.para < Len(now)
    <3>1. Len(now) \in Nat
      BY <1>3, SplitIsClean DEF Clean, Fixing
    <3> QED
      BY <1>4, <1>6, <2>1, <2>3, <2>5, <3>1 DEF Begins
  <2>7. Fits(now, h)
    BY <1>8, <2>6 DEF Fits
  <2> QED
    BY <1>8, <2>2, <2>6, <2>7
<1> QED
  BY <1>9, <1>10

LEMMA FixingInv ==
    ASSUME Inv, NEW g, Fixing(g), match' = match
    PROVE  Inv'
<1>1. \A m \in flags' : Spanning(m) /\ m \in Flag
  BY FixingMoves DEF IsMoved, Spanning
<1>2. ASSUME NEW m \in flags', NEW n \in flags', m.id = n.id PROVE m = n
  <2>1. PICK h \in flags : m = Moved(h, g) /\ IsMoved(m, h, g)
    BY FixingMoves
  <2>2. PICK k \in flags : n = Moved(k, g) /\ IsMoved(n, k, g)
    BY FixingMoves
  <2>3. h.id = k.id
    BY <1>2, <2>1, <2>2 DEF IsMoved
  <2>4. h = k
    BY <2>3 DEF Inv, TypeOK
  <2> QED
    BY <2>1, <2>2, <2>4
<1>3. intact' \in Nat /\ text' \in Seq(Char)
  BY DEF Fixing, Spanning, Flag, Inv, TypeOK
<1>4. TypeOK'
  BY <1>1, <1>2, <1>3 DEF Inv, TypeOK
<1> QED
  BY <1>1, <1>4, FixingKeepsSpansTrue DEF Inv

LEMMA OnlyMarkingInv ==
    ASSUME Inv, NEW f \in flags, NEW g, OnlyMarking(g, f), match' = match
    PROVE  Inv'
<1>1. g \in Flag /\ g.id = f.id /\ Spanning(g) /\ flags' = (flags \ {f}) \cup {g}
  BY DEF OnlyMarking, Spanning
<1>2. \A m \in flags' : Spanning(m) /\ m \in Flag
  BY <1>1 DEF Inv, TypeOK
<1>3. \A m, n \in flags' : m.id = n.id => m = n
  BY <1>1 DEF Inv, TypeOK
<1>4. TypeOK'
  BY <1>2, <1>3 DEF OnlyMarking, Inv, TypeOK
<1>5. Active' \subseteq Active
  BY DEF OnlyMarking, Active
<1>6. SpansStayTrue'
  BY <1>5 DEF OnlyMarking, Inv, SpansStayTrue
<1> QED
  BY <1>2, <1>4, <1>6 DEF Inv

-----------------------------------------------------------------------------
\* ApplyAll, as a run over the flags by position.

IsTurning(done, t, s, n) ==
    done = [k \in 0 .. n |->
              IF k = 0 THEN [text |-> t, flags |-> {}]
              ELSE IF s[k].state = "rejected" THEN done[k - 1]
              ELSE Apply(done[k - 1].text, s[k], done[k - 1].flags)]

LEMMA TurningExists ==
    ASSUME NEW t, NEW s, NEW n \in Nat
    PROVE  \E done : IsTurning(done, t, s, n)
<1> DEFINE first == [text |-> t, flags |-> {}]
           next(d, k) == IF s[k].state = "rejected" THEN d ELSE Apply(d.text, s[k], d.flags)
           good == {m \in Nat : \E done : IsTurning(done, t, s, m)}
<1>1. ASSUME NEW done, NEW m \in Nat
      PROVE  IsTurning(done, t, s, m) <=>
               done = [k \in 0 .. m |-> IF k = 0 THEN first ELSE next(done[k - 1], k)]
  BY DEF IsTurning
<1> HIDE DEF first, next
<1>2. 0 \in good
  <2>1. IsTurning([k \in 0 .. 0 |-> first], t, s, 0)
    BY <1>1
  <2> QED
    BY <2>1
<1>3. ASSUME NEW m \in Nat, m \in good PROVE m + 1 \in good
  <2>1. PICK done : IsTurning(done, t, s, m)
    BY <1>3
  <2> DEFINE longer == [k \in 0 .. m + 1 |-> IF k = m + 1 THEN next(done[m], m + 1) ELSE done[k]]
  <2>2. done = [k \in 0 .. m |-> IF k = 0 THEN first ELSE next(done[k - 1], k)]
    BY <1>1, <2>1
  <2>3. \A k \in 0 .. m : done[k] = IF k = 0 THEN first ELSE next(done[k - 1], k)
    BY <2>2
  <2>4. \A k \in 0 .. m + 1 : longer[k] = IF k = 0 THEN first ELSE next(longer[k - 1], k)
    <3> TAKE k \in 0 .. m + 1
    <3>1. CASE k = m + 1
      BY <3>1
    <3>2. CASE k # m + 1
      BY <2>3, <3>2
    <3> QED
      BY <3>1, <3>2
  <2>5. longer = [k \in 0 .. m + 1 |-> longer[k]]
    OBVIOUS
  <2> HIDE DEF longer
  <2>6. longer = [k \in 0 .. m + 1 |-> IF k = 0 THEN first ELSE next(longer[k - 1], k)]
    BY <2>4, <2>5
  <2>7. IsTurning(longer, t, s, m + 1)
    BY <1>1, <2>6
  <2> QED
    BY <2>7
<1> HIDE DEF good
<1>4. Nat \subseteq good
  BY <1>2, <1>3, CountUp
<1> QED
  BY <1>4 DEF good

NoneRejected(s, n) == s \in [1 .. n -> Flag] /\ \A i \in 1 .. n : s[i].state # "rejected"

Turns(t, s, n) ==
    \E done : /\ ApplyInTurn(t, s) = done[n] /\ done[0] = [text |-> t, flags |-> {}]
              /\ \A k \in 1 .. n : done[k] = Apply(done[k - 1].text, s[k], done[k - 1].flags)

LEMMA Turning ==
    ASSUME NEW t, NEW s, NEW n \in Nat, NoneRejected(s, n)
    PROVE  Turns(t, s, n)
<1>0. s \in [1 .. n -> Flag] /\ \A i \in 1 .. n : s[i].state # "rejected"
  BY DEF NoneRejected
<1> DEFINE done == CHOOSE d : IsTurning(d, t, s, Len(s))
<1>1. Len(s) = n
  <2>1. s \in Seq(Flag)
    BY <1>0, SeqDef
  <2>2. DOMAIN s = 1 .. n
    BY <1>0
  <2> QED
    BY <2>1, <2>2, LenProperties
<1>2. ApplyInTurn(t, s) = done[n]
  BY <1>1 DEF ApplyInTurn, IsTurning
<1>3. IsTurning(done, t, s, n)
  BY <1>1, TurningExists
<1> HIDE DEF done
<1>4. done[0] = [text |-> t, flags |-> {}]
  BY <1>3 DEF IsTurning
<1>5. ASSUME NEW k \in 1 .. n
      PROVE  done[k] = Apply(done[k - 1].text, s[k], done[k - 1].flags)
  <2>1. k \in 0 .. n /\ k # 0 /\ s[k].state # "rejected"
    BY <1>0
  <2>2. done[k] = IF k = 0 THEN [text |-> t, flags |-> {}]
                  ELSE IF s[k].state = "rejected" THEN done[k - 1]
                  ELSE Apply(done[k - 1].text, s[k], done[k - 1].flags)
    BY <1>3, <2>1, Zenon DEF IsTurning
  <2> QED
    BY <2>1, <2>2, Zenon
<1> QED
  BY <1>2, <1>4, <1>5, Zenon DEF Turns

\* No flag is left over: every one is handed the flags of the one before, of which the
\* first has none.
LEMMA NoneLeft ==
    ASSUME NEW t \in Seq(Char), NEW s, NEW n \in Nat, NoneRejected(s, n)
    PROVE  ApplyInTurn(t, s).text \in Seq(Char) /\ ApplyInTurn(t, s).flags = {}
<1>1. PICK done : /\ ApplyInTurn(t, s) = done[n] /\ done[0] = [text |-> t, flags |-> {}]
                  /\ \A k \in 1 .. n : done[k] = Apply(done[k - 1].text, s[k], done[k - 1].flags)
  BY Turning DEF Turns
<1> DEFINE good == {k \in Nat : k <= n => done[k].text \in Seq(Char) /\ done[k].flags = {}}
<1>2. 0 \in good
  BY <1>1
<1>3. ASSUME NEW k \in Nat, k \in good PROVE k + 1 \in good
  <2> SUFFICES ASSUME k + 1 <= n
               PROVE  done[k + 1].text \in Seq(Char) /\ done[k + 1].flags = {}
    OBVIOUS
  <2>1. PICK u \in Seq(Char) : u = done[k].text /\ done[k].flags = {}
    BY <1>3
  <2>2. PICK f \in Flag : f = s[k + 1]
    BY DEF NoneRejected
  <2>3. done[k + 1] = Apply(u, f, {})
    <3>1. PICK i \in 1 .. n : i = k + 1 /\ i - 1 = k
      OBVIOUS
    <3>2. done[i] = Apply(done[i - 1].text, s[i], done[i - 1].flags)
      BY <1>1
    <3> QED
      BY <2>1, <2>2, <3>1, <3>2
  <2>4. Remaining(f, {}) = {}
    BY DEF Remaining
  <2>5. CASE Fits(Paragraphs(u), f)
    <3>1. PICK ps \in Seq(Seq(Char)) : ps = Paragraphs(u) /\ Len(ps) > 0
      BY SplitIsClean DEF Clean
    <3>2. WithFix(ps, f) \in Seq(Seq(Char)) /\ Len(WithFix(ps, f)) > 0
      <4>1. ASSUME NEW x \in 1 .. Len(ps), x = f.para + 1 PROVE Substituted(ps[x], f) \in Seq(Char)
        <5>1. Within(f, ps[x]) /\ ps[x] \in Seq(Char)
          BY <2>5, <3>1, <4>1, FitsIsWithin
        <5> QED
          BY <5>1, SubstitutedIs DEF Flag
      <4>2. \A x \in 1 .. Len(ps) : (IF x = f.para + 1 THEN Substituted(ps[x], f) ELSE ps[x]) \in Seq(Char)
        BY <4>1
      <4>3. PICK m \in Nat : m = Len(ps)
        OBVIOUS
      <4>4. PICK qs \in [1 .. m -> Seq(Char)] : qs = WithFix(ps, f)
        BY <4>2, <4>3 DEF WithFix
      <4>5. qs \in Seq(Seq(Char)) /\ Len(qs) = m
        OBVIOUS
      <4> QED
        BY <3>1, <4>3, <4>4, <4>5
    <3>3. buildText(WithFix(ps, f)) \in Seq(Char)
      BY <3>2, BuiltIsText, NewlineIsChar
    <3> QED
      BY <2>3, <2>4, <2>5, <3>1, <3>3 DEF Apply
  <2>6. CASE ~Fits(Paragraphs(u), f)
    BY <2>3, <2>6 DEF Apply
  <2> QED
    BY <2>5, <2>6
<1> HIDE DEF good
<1>4. Nat \subseteq good
  BY <1>2, <1>3, CountUp
<1> QED
  BY <1>1, <1>4 DEF good

\* There are as many flags at most as there are names for them.
LEMMA FinitelyManyFlags ==
    ASSUME TypeOK
    PROVE  IsFiniteSet(flags)
<1> DEFINE name == [f \in flags |-> f.id]
<1>1. name \in Injection(flags, FlagId)
  BY DEF TypeOK, Flag, Injection, IsInjective
<1>2. IsFiniteSet(FlagId)
  BY TextsAssumption DEF TextsAssumption
<1> QED
  BY <1>1, <1>2, FS_Injection

LEMMA OrderIs ==
    ASSUME Inv, NEW s \in ByPosition(Active)
    PROVE  \E n \in Nat : /\ NoneRejected(s, n) /\ s \in [1 .. n -> Active]
                          /\ \A i, j \in 1 .. n : i # j => s[i] # s[j]
<1>1. Active \subseteq flags /\ flags \subseteq Flag
  BY DEF Inv, TypeOK, Active
<1>2. IsFiniteSet(Active) /\ Cardinality(Active) \in Nat
  BY <1>1, FinitelyManyFlags, FS_Subset, FS_CardinalityType DEF Inv
<1>3. PICK n \in Nat : n = Cardinality(Active)
  BY <1>2
<1>4. s \in [1 .. n -> Active] /\ \A i, j \in 1 .. n : i # j => s[i] # s[j]
  BY <1>3 DEF ByPosition, SetToSeqs
<1>5. s \in [1 .. n -> Flag]
  BY <1>1, <1>4
<1>6. \A i \in 1 .. n : s[i].state # "rejected"
  BY <1>4 DEF Active
<1> QED
  BY <1>4, <1>5, <1>6 DEF NoneRejected

LEMMA ApplyAllInv ==
    ASSUME Inv, ApplyAllFixes
    PROVE  Inv' /\ flags' = {}
<1>1. PICK s \in ByPosition(Active) : /\ text' = ApplyInTurn(text, s).text
                                      /\ flags' = ApplyInTurn(text, s).flags
                                      /\ match' = match /\ intact' = intact
  BY DEF ApplyAllFixes, ApplyAll
<1>2. PICK n \in Nat : NoneRejected(s, n)
  BY OrderIs
<1>3. text \in Seq(Char) /\ match \in [FlagId -> Seq(Char)] /\ intact \in Nat
  BY DEF Inv, TypeOK
<1>4. text' \in Seq(Char) /\ flags' = {} /\ match' = match /\ intact' = intact
  BY <1>1, <1>2, <1>3, NoneLeft
<1>5. Active' = {}
  BY <1>4 DEF Active
<1> QED
  BY <1>3, <1>4, <1>5 DEF Inv, TypeOK, SpansStayTrue

LEMMA InvIsInductive == Inv /\ [Next]_vars => Inv'
<1> SUFFICES ASSUME Inv, [Next]_vars PROVE Inv'
  OBVIOUS
<1>1. ASSUME NEW f \in flags, RejectFlag(f) PROVE Inv'
  BY <1>1, RejectInv
<1>2. ASSUME NEW f \in flags, ApplyFix(f) PROVE Inv'
  <2>1. PICK g : match' = match /\ (Fixing(g) \/ OnlyMarking(g, f))
    BY <1>2, ApplyFixIs
  <2> QED
    BY <2>1, FixingInv, OnlyMarkingInv
<1>3. CASE ApplyAllFixes
  BY <1>3, ApplyAllInv
<1>4. CASE UNCHANGED vars
  BY <1>4 DEF vars, Inv, TypeOK, SpansStayTrue, Active
<1> QED
  BY <1>1, <1>2, <1>3, <1>4 DEF Next

LEMMA InvHolds == Spec => []Inv
BY InitInv, InvIsInductive, PTL DEF Spec

\* The session's text stays a text over the alphabet and its flags stay flags, no two of
\* one name, through rejections, single fixes and ApplyAll.
THEOREM TypeCorrect == Spec => []TypeOK
<1>1. Inv => TypeOK
  BY DEF Inv
<1> QED
  BY <1>1, InvHolds, PTL

\* However fixes and rejections follow one another (ApplyFix.Execute, fix_applier.go), and
\* whatever the fixes put into the text, the span of every flag that may still be applied
\* marks the characters it was raised for, up to the first paragraph in which a fix made or
\* moved a paragraph break.
THEOREM SpansTrue == Spec => []SpansStayTrue
<1>1. Inv => SpansStayTrue
  BY DEF Inv
<1> QED
  BY <1>1, InvHolds, PTL

\* A fix that puts no newline into its paragraph, and if it only deletes, deletes from a
\* paragraph without one, makes and moves no paragraph break: the flags of all paragraphs
\* that were intact before it stay true.
THEOREM TameFixResplitsNothing ==
    Spec => [][\A f \in flags : ApplyFix(f) /\ Tame(f, Paragraphs(text)) => intact' = intact]_vars
<1>1. ASSUME Inv, NEW f \in flags, ApplyFix(f), Tame(f, Paragraphs(text)) PROVE intact' = intact
  <2> DEFINE g == SetState(f, "applied")
             ps == Paragraphs(text)
  <2>1. Fixing(g) \/ OnlyMarking(g, f)
    BY <1>1, ApplyFixIs
  <2>2. CASE OnlyMarking(g, f)
    BY <2>2 DEF OnlyMarking
  <2>3. CASE Fixing(g)
    <3>1. f \in Flag /\ g.suggestion = f.suggestion /\ g.para = f.para
      BY <1>1 DEF Inv, TypeOK, SetState, Flag, FlagState
    <3>2. Tame(g, ps)
      BY <1>1, <3>1 DEF Tame
    <3> HIDE DEF g, ps
    <3>3. g \in Flag /\ Fits(ps, g) /\ Clean(ps) /\ text' = buildText(WithFix(ps, g))
      BY <1>1, <2>3, TextIsClean DEF Fixing, Spanning, ps
    <3>4. Clean(WithFix(ps, g))
      BY <3>2, <3>3, FixKeepsClean
    <3>5. Paragraphs(text') = WithFix(ps, g)
      BY <3>3, <3>4, Split, NewlineIsChar
    <3> QED
      BY <2>3, <3>5 DEF Fixing, ps
  <2> QED
    BY <2>1, <2>2, <2>3
<1>2. Inv /\ [Next]_vars =>
        [\A f \in flags : ApplyFix(f) /\ Tame(f, Paragraphs(text)) => intact' = intact]_vars
  BY <1>1
<1> QED
  BY <1>2, InvHolds, PTL DEF Spec

LEMMA StepsKeepApart ==
    ASSUME Inv, [Next]_vars, NEW f \in flags, NEW g \in flags, NEW h \in flags', NEW k \in flags',
           f.id = h.id, g.id = k.id, f.id # g.id, h \in Active', k \in Active', ~Conflicts(f, g)
    PROVE  ~Conflicts(h, k)
<1>1. ASSUME NEW m \in flags, NEW n \in flags, m.id = n.id PROVE m = n
  BY <1>1 DEF Inv, TypeOK
\* Of two flags that a step only marks, or leaves, nothing moves.
<1>2. ASSUME NEW e \in flags, NEW r, flags' = (flags \ {e}) \cup {r}, r.state \in {"rejected", "applied"}
      PROVE  ~Conflicts(h, k)
  <2>1. h \in flags /\ k \in flags
    BY <1>2 DEF Active
  <2>2. h = f /\ k = g
    BY <1>1, <2>1
  <2> QED
    BY <2>2
<1>3. ASSUME NEW e \in flags, RejectFlag(e) PROVE ~Conflicts(h, k)
  <2>1. flags' = (flags \ {e}) \cup {SetState(e, "rejected")}
    BY <1>3 DEF RejectFlag
  <2>2. e \in Flag
    BY DEF Inv, TypeOK
  <2>3. SetState(e, "rejected").state = "rejected"
    BY <2>2 DEF SetState, Flag
  <2> QED
    BY <1>2, <2>1, <2>3
<1>4. ASSUME NEW e \in flags, ApplyFix(e) PROVE ~Conflicts(h, k)
  <2>1. PICK a : Fixing(a) \/ OnlyMarking(a, e)
    BY <1>4, ApplyFixIs
  <2>2. CASE OnlyMarking(a, e)
    BY <1>2, <2>2 DEF OnlyMarking
  <2>3. CASE Fixing(a)
    <3>1. ASSUME NEW m \in flags', NEW o \in flags, m.id = o.id
          PROVE  Spanning(o) /\ ~Conflicts(o, a) /\ m = Moved(o, a)
      <4>1. PICK q \in flags : Spanning(q) /\ ~Conflicts(q, a) /\ m = Moved(q, a) /\ m.id = q.id
        BY <2>3, FixingMoves DEF IsMoved
      <4>2. q = o
        BY <1>1, <3>1, <4>1
      <4> QED
        BY <4>1, <4>2
    <3>2. Spanning(a)
      BY <2>3 DEF Fixing
    <3> QED
      BY <3>1, <3>2, FixKeepsApart
  <2> QED
    BY <2>1, <2>2, <2>3
<1>5. CASE ApplyAllFixes
  BY <1>5, ApplyAllInv
<1>6. CASE UNCHANGED vars
  <2>1. h = f /\ k = g
    BY <1>1, <1>6 DEF vars
  <2> QED
    BY <2>1
<1> QED
  BY <1>3, <1>4, <1>5, <1>6 DEF Next

\* No step of a session runs two flags that may still be applied into each other: not a
\* fix before both, between them or behind them, not one that makes a paragraph break, and
\* not ApplyAll.
THEOREM KeptApart == Spec => NoNewOverlap
<1>1. Inv /\ [Next]_vars =>
        [\A f, g \in flags : \A h, k \in flags' :
           /\ f.id = h.id /\ g.id = k.id /\ f.id # g.id
           /\ h \in Active' /\ k \in Active' /\ ~Conflicts(f, g)
           => ~Conflicts(h, k)]_vars
  BY StepsKeepApart
<1> QED
  BY <1>1, InvHolds, PTL DEF Spec, NoNewOverlap
=============================================================================
