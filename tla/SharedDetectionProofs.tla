----------------------- MODULE SharedDetectionProofs -----------------------
(***************************************************************************)
(* What the shared nodes guarantee for any number of analyses, rules,      *)
(* texts and windows, and however deep references go.                      *)
(***************************************************************************)
EXTENDS SharedDetection, SequenceTheorems, TLAPS

\* The i-th call of an analysis computes the matches of a node.
Computes(p, i, n) ==
  i \in DOMAIN stack[p] /\ stack[p][i].node = n /\ stack[p][i].pc = "compute"

\* A call that waits for another is computing.
OuterCompute ==
  \A p \in Analyses : \A i \in DOMAIN stack[p] :
    i # Len(stack[p]) => stack[p][i].pc = "compute"

\* An analysis is in no node twice.
OncePerNode ==
  \A p \in Analyses, n \in Nodes : \A i, j \in DOMAIN stack[p] :
    Computes(p, i, n) /\ Computes(p, j, n) => i = j

\* What is being computed is not in the cache.
NotYetCached ==
  \A p \in Analyses : \A i \in DOMAIN stack[p] :
    stack[p][i].pc = "compute" => cache[stack[p][i].node][stack[p][i].text] = NotCached

IInv == TypeOK /\ OuterCompute /\ OncePerNode /\ HeldByItsComputation /\ NotYetCached
        /\ SameMatchesForAll

LEMMA ComputingNodes ==
  \A p \in Analyses, n \in Nodes :
    n \in ComputesIn(p) <=> \E i \in DOMAIN stack[p] : Computes(p, i, n)
BY DEF ComputesIn, Computes

-----------------------------------------------------------------------------
\* The three ways a stack of calls changes

LEMMA TopReplaced ==
  ASSUME NEW s \in Seq(Frames), s # <<>>, NEW f \in Frames
  PROVE  LET r == [s EXCEPT ![Len(s)] = f]
         IN  /\ r \in Seq(Frames) /\ Len(r) = Len(s) /\ DOMAIN r = DOMAIN s
             /\ r[Len(s)] = f
             /\ \A i \in DOMAIN s : i # Len(s) => r[i] = s[i]
<1>1. Len(s) \in 1 .. Len(s)
  BY EmptySeq, LenProperties
<1> QED
  BY <1>1, ExceptSeq

LEMMA PrefixOfSeq ==
  ASSUME NEW S, NEW s \in Seq(S), NEW n \in 0 .. Len(s)
  PROVE  /\ SubSeq(s, 1, n) \in Seq(S)
         /\ Len(SubSeq(s, 1, n)) = n
         /\ \A i \in 1 .. n : SubSeq(s, 1, n)[i] = s[i]
<1>1. \A i \in 1 .. n : s[i] \in S
  OBVIOUS
<1>2. SubSeq(s, 1, n) \in Seq(S)
  BY <1>1, SubSeqProperties
<1>3. Len(SubSeq(s, 1, n)) = n
  OBVIOUS
<1>4. \A i \in 1 .. n : SubSeq(s, 1, n)[i] = s[i]
  OBVIOUS
<1> QED
  BY <1>2, <1>3, <1>4

LEMMA TopPopped ==
  ASSUME NEW s \in Seq(Frames), s # <<>>
  PROVE  LET r == SubSeq(s, 1, Len(s) - 1)
         IN  /\ r \in Seq(Frames) /\ Len(r) = Len(s) - 1 /\ DOMAIN r = DOMAIN s \ {Len(s)}
             /\ \A i \in DOMAIN r : r[i] = s[i]
<1> DEFINE r == SubSeq(s, 1, Len(s) - 1)
<1>1. Len(s) \in Nat \ {0} /\ Len(s) - 1 \in 0 .. Len(s)
  BY EmptySeq, LenProperties
<1>2. r \in Seq(Frames) /\ Len(r) = Len(s) - 1 /\ \A i \in 1 .. Len(s) - 1 : r[i] = s[i]
  BY <1>1, PrefixOfSeq
<1> HIDE DEF r
<1>3. DOMAIN r = 1 .. Len(s) - 1 /\ DOMAIN s = 1 .. Len(s)
  BY <1>2, LenProperties
<1>4. DOMAIN r = DOMAIN s \ {Len(s)}
  BY <1>1, <1>3
<1> QED
  BY <1>2, <1>3, <1>4 DEF r

LEMMA TopPushed ==
  ASSUME NEW s \in Seq(Frames), NEW f \in Frames
  PROVE  LET r == Append(s, f)
         IN  /\ r \in Seq(Frames) /\ Len(r) = Len(s) + 1 /\ DOMAIN r = DOMAIN s \cup {Len(r)}
             /\ r[Len(r)] = f
             /\ \A i \in DOMAIN s : r[i] = s[i]
BY AppendProperties, LenProperties

LEMMA FrameType == ASSUME NEW n \in Nodes, NEW t \in Texts PROVE Frame(n, t) \in Frames
BY DEF Frame, Frames

\* The innermost call of an analysis that is in one.
LEMMA TopType ==
  ASSUME TypeOK, NEW p \in Analyses, stack[p] # <<>>
  PROVE  /\ stack[p] \in Seq(Frames) /\ Len(stack[p]) \in DOMAIN stack[p]
         /\ Len(stack[p]) \in Nat \ {0} /\ Top(p) \in Frames
         /\ Top(p).node \in Nodes /\ Top(p).text \in Texts
<1>1. stack[p] \in Seq(Frames)
  BY DEF TypeOK
<1>2. Len(stack[p]) \in Nat \ {0} /\ DOMAIN stack[p] = 1 .. Len(stack[p])
  BY <1>1, EmptySeq, LenProperties
<1>3. Len(stack[p]) \in DOMAIN stack[p]
  BY <1>2
<1>4. Top(p) \in Frames
  BY <1>1, <1>2, <1>3, ElementOfSeq DEF Top
<1> QED
  BY <1>1, <1>2, <1>3, <1>4 DEF Frames

-----------------------------------------------------------------------------
\* Steps that leave locks and caches alone

\* The same calls compute as before, and the same matches.
SameComputing ==
  \A q \in Analyses : \A i \in Nat :
    /\ (i \in DOMAIN stack'[q] /\ stack'[q][i].pc = "compute")
          <=> (i \in DOMAIN stack[q] /\ stack[q][i].pc = "compute")
    /\ i \in DOMAIN stack[q] /\ stack[q][i].pc = "compute"
          => stack'[q][i].node = stack[q][i].node /\ stack'[q][i].text = stack[q][i].text

LEMMA LocksStillFit ==
  ASSUME IInv, TypeOK', SameComputing, UNCHANGED <<writer, cache, broken>>
  PROVE  OncePerNode' /\ HeldByItsComputation' /\ NotYetCached'
<1>1. \A q \in Analyses : DOMAIN stack[q] \subseteq Nat /\ DOMAIN stack'[q] \subseteq Nat
  <2> TAKE q \in Analyses
  <2>1. stack[q] \in Seq(Frames) /\ stack'[q] \in Seq(Frames)
    BY DEF IInv, TypeOK
  <2> QED
    BY <2>1, LenProperties
<1>2. \A q \in Analyses, n \in Nodes : \A i \in Nat : Computes(q, i, n)' <=> Computes(q, i, n)
  BY DEF SameComputing, Computes
<1>3. OncePerNode'
  <2> SUFFICES ASSUME NEW q \in Analyses, NEW n \in Nodes,
                      NEW i \in DOMAIN stack'[q], NEW j \in DOMAIN stack'[q],
                      Computes(q, i, n)', Computes(q, j, n)'
               PROVE  i = j
    BY DEF OncePerNode
  <2>1. Computes(q, i, n) /\ Computes(q, j, n)
    BY <1>1, <1>2
  <2> QED
    BY <2>1 DEF IInv, OncePerNode, Computes
<1>4. HeldByItsComputation'
  <2>1. \A n \in Nodes, q \in Analyses : ComputesIn(q)' = ComputesIn(q)
    BY <1>1 DEF ComputesIn, SameComputing
  <2> QED
    BY <2>1 DEF IInv, HeldByItsComputation
<1>5. NotYetCached'
  BY <1>1 DEF IInv, NotYetCached, SameComputing
<1> QED
  BY <1>3, <1>4, <1>5

\* What SetTop and Return make of the stacks.
LEMMA AfterSetTop ==
  ASSUME TypeOK, NEW p \in Analyses, stack[p] # <<>>, NEW f \in Frames, SetTop(p, f)
  PROVE  /\ stack' \in [Analyses -> Seq(Frames)]
         /\ \A q \in Analyses \ {p} : stack'[q] = stack[q]
         /\ Len(stack'[p]) = Len(stack[p]) /\ DOMAIN stack'[p] = DOMAIN stack[p]
         /\ stack'[p][Len(stack[p])] = f
         /\ \A i \in DOMAIN stack[p] : i # Len(stack[p]) => stack'[p][i] = stack[p][i]
<1>1. stack[p] \in Seq(Frames) /\ stack \in [Analyses -> Seq(Frames)]
  BY DEF TypeOK
<1> DEFINE s == stack[p]
           r == [s EXCEPT ![Len(s)] = f]
<1>2. /\ r \in Seq(Frames) /\ Len(r) = Len(s) /\ DOMAIN r = DOMAIN s
      /\ r[Len(s)] = f
      /\ \A i \in DOMAIN s : i # Len(s) => r[i] = s[i]
  BY <1>1, TopReplaced
<1>3. stack' = [stack EXCEPT ![p] = r]
  BY DEF SetTop
<1> HIDE DEF r
<1>4. stack'[p] = r /\ (\A q \in Analyses \ {p} : stack'[q] = stack[q])
      /\ stack' \in [Analyses -> Seq(Frames)]
  BY <1>1, <1>2, <1>3
<1> QED
  BY <1>2, <1>4

LEMMA AfterReturn ==
  ASSUME TypeOK, NEW p \in Analyses, stack[p] # <<>>, NEW m, Return(p, m)
  PROVE  /\ stack' \in [Analyses -> Seq(Frames)]
         /\ \A q \in Analyses \ {p} : stack'[q] = stack[q]
         /\ Len(stack'[p]) = Len(stack[p]) - 1
         /\ DOMAIN stack'[p] = DOMAIN stack[p] \ {Len(stack[p])}
         /\ \A i \in DOMAIN stack'[p] : stack'[p][i] = stack[p][i]
<1>1. stack[p] \in Seq(Frames) /\ stack \in [Analyses -> Seq(Frames)]
  BY DEF TypeOK
<1> DEFINE s == stack[p]
           r == SubSeq(s, 1, Len(s) - 1)
<1>2. /\ r \in Seq(Frames) /\ Len(r) = Len(s) - 1 /\ DOMAIN r = DOMAIN s \ {Len(s)}
      /\ \A i \in DOMAIN r : r[i] = s[i]
  BY <1>1, TopPopped
<1>3. stack' = [stack EXCEPT ![p] = r]
  BY DEF Return
<1> HIDE DEF r
<1>4. stack'[p] = r /\ (\A q \in Analyses \ {p} : stack'[q] = stack[q])
      /\ stack' \in [Analyses -> Seq(Frames)]
  BY <1>1, <1>2, <1>3
<1> QED
  BY <1>2, <1>4

-----------------------------------------------------------------------------
\* Each step keeps the invariant

LEMMA StartStep ==
  ASSUME IInv, NEW p \in Analyses, NEW n \in Nodes, NEW t \in Texts, Start(p, n, t)
  PROVE  IInv'
<1>1. /\ stack \in [Analyses -> Seq(Frames)] /\ stack[p] = <<>>
      /\ stack' = [stack EXCEPT ![p] = <<Frame(n, t)>>] /\ UNCHANGED <<writer, cache, given, broken>>
  BY DEF IInv, TypeOK, Start
<1>2. Frame(n, t) \in Frames /\ Frame(n, t).pc = "look"
  BY FrameType DEF Frame
<1>3. <<Frame(n, t)>> \in Seq(Frames)
  BY <1>2
<1>4. /\ stack' \in [Analyses -> Seq(Frames)] /\ stack'[p] = <<Frame(n, t)>>
      /\ \A q \in Analyses \ {p} : stack'[q] = stack[q]
  BY <1>1, <1>3
<1>5. /\ DOMAIN stack[p] = {} /\ DOMAIN stack'[p] = {1} /\ Len(stack'[p]) = 1
      /\ stack'[p][1].pc = "look"
  BY <1>1, <1>2, <1>4
<1>6. TypeOK'
  BY <1>1, <1>4 DEF IInv, TypeOK
<1>7. OuterCompute'
  <2> SUFFICES ASSUME NEW q \in Analyses, NEW i \in DOMAIN stack'[q], i # Len(stack'[q])
               PROVE  stack'[q][i].pc = "compute"
    BY DEF OuterCompute
  <2>1. q # p
    BY <1>5
  <2>2. i \in DOMAIN stack[q] /\ i # Len(stack[q]) /\ stack'[q] = stack[q]
    BY <1>4, <2>1
  <2> QED
    BY <2>2 DEF IInv, OuterCompute
<1>8. SameComputing
  BY <1>4, <1>5 DEF SameComputing
<1>9. SameMatchesForAll'
  BY <1>1 DEF IInv, SameMatchesForAll
<1> QED
  BY <1>1, <1>6, <1>7, <1>8, <1>9, LocksStillFit DEF IInv

\* A call returns what is cached.
LEMMA HitStep ==
  ASSUME IInv, NEW p \in Analyses, stack[p] # <<>>, Top(p).pc # "compute",
         cache[Top(p).node][Top(p).text] # NotCached,
         Return(p, cache[Top(p).node][Top(p).text]), UNCHANGED <<writer, cache, broken>>
  PROVE  IInv'
<1> DEFINE n == Top(p).node
           t == Top(p).text
<1>1. TypeOK /\ n \in Nodes /\ t \in Texts /\ Len(stack[p]) \in DOMAIN stack[p]
  BY TopType DEF IInv
<1>2. /\ stack' \in [Analyses -> Seq(Frames)]
      /\ \A q \in Analyses \ {p} : stack'[q] = stack[q]
      /\ Len(stack'[p]) = Len(stack[p]) - 1
      /\ DOMAIN stack'[p] = DOMAIN stack[p] \ {Len(stack[p])}
      /\ \A i \in DOMAIN stack'[p] : stack'[p][i] = stack[p][i]
  BY <1>1, AfterReturn
<1>3. given' = [given EXCEPT ![n][t] = @ \cup {cache[n][t]}]
  BY DEF Return
<1>4. cache[n][t] \in Matches
  BY <1>1 DEF TypeOK
<1>5. TypeOK'
  BY <1>1, <1>2, <1>3, <1>4 DEF TypeOK
<1>6. OuterCompute'
  BY <1>2 DEF IInv, OuterCompute
<1>7. SameComputing
  BY <1>1, <1>2 DEF SameComputing, Top
<1>8. SameMatchesForAll'
  BY <1>1, <1>3 DEF IInv, TypeOK, SameMatchesForAll
<1> QED
  BY <1>5, <1>6, <1>7, <1>8, LocksStillFit DEF IInv

LEMMA LookStep ==
  ASSUME IInv, NEW p \in Analyses, Look(p)
  PROVE  IInv'
<1> DEFINE f == Top(p)
<1>1. TypeOK /\ stack[p] # <<>> /\ f.pc = "look" /\ f \in Frames
      /\ Len(stack[p]) \in DOMAIN stack[p]
  BY TopType DEF IInv, Look, At
<1>2. CASE cache[f.node][f.text] # NotCached
  BY <1>1, <1>2, HitStep DEF Look
<1>3. CASE cache[f.node][f.text] = NotCached
  <2> DEFINE g == [f EXCEPT !.pc = "lock"]
  <2>1. g \in Frames /\ g.pc = "lock"
    BY <1>1 DEF Frames
  <2>2. SetTop(p, g) /\ UNCHANGED <<writer, cache, given, broken>>
    BY <1>3 DEF Look
  <2> HIDE DEF g
  <2>3. /\ stack' \in [Analyses -> Seq(Frames)]
        /\ \A q \in Analyses \ {p} : stack'[q] = stack[q]
        /\ Len(stack'[p]) = Len(stack[p]) /\ DOMAIN stack'[p] = DOMAIN stack[p]
        /\ stack'[p][Len(stack[p])] = g
        /\ \A i \in DOMAIN stack[p] : i # Len(stack[p]) => stack'[p][i] = stack[p][i]
    BY <1>1, <2>1, <2>2, AfterSetTop
  <2>4. TypeOK'
    BY <1>1, <2>2, <2>3 DEF TypeOK
  <2>5. OuterCompute'
    BY <2>3 DEF IInv, OuterCompute
  <2>6. SameComputing
    BY <1>1, <2>1, <2>3 DEF SameComputing, Top
  <2>7. SameMatchesForAll'
    BY <2>2 DEF IInv, SameMatchesForAll
  <2> QED
    BY <2>2, <2>4, <2>5, <2>6, <2>7, LocksStillFit DEF IInv
<1> QED
  BY <1>2, <1>3

LEMMA AskStep ==
  ASSUME IInv, NEW p \in Analyses, Ask(p)
  PROVE  IInv'
<1> DEFINE s == stack[p]
           f == Top(p)
<1>1. TypeOK /\ s # <<>> /\ f.pc = "compute" /\ f \in Frames /\ s \in Seq(Frames)
      /\ Len(s) \in DOMAIN s /\ Len(s) \in Nat
  BY TopType DEF IInv, Ask, At
<1>2. PICK ask \in f.todo :
         LET h == [f EXCEPT !.todo = @ \ {ask}]
         IN  stack' = [stack EXCEPT ![p] =
                          Append([@ EXCEPT ![Len(@)] = h], Frame(ask[1], ask[2]))]
  BY DEF Ask
<1> DEFINE g == [f EXCEPT !.todo = @ \ {ask}]
           u == [s EXCEPT ![Len(s)] = g]
           w == Append(u, Frame(ask[1], ask[2]))
<1>3. ask[1] \in Nodes /\ ask[2] \in Texts
  BY <1>1 DEF Frames
<1>4. g \in Frames /\ g.pc = "compute" /\ g.node = f.node /\ g.text = f.text
  BY <1>1 DEF Frames
<1>6. stack' = [stack EXCEPT ![p] = w]
  BY <1>2
<1> HIDE DEF g
<1>7. /\ u \in Seq(Frames) /\ Len(u) = Len(s) /\ DOMAIN u = DOMAIN s /\ u[Len(s)] = g
      /\ \A i \in DOMAIN s : i # Len(s) => u[i] = s[i]
  BY <1>1, <1>4, TopReplaced
<1> HIDE DEF u
<1>8. Frame(ask[1], ask[2]) \in Frames /\ Frame(ask[1], ask[2]).pc = "look"
  BY <1>3, FrameType DEF Frame
<1>9. /\ w \in Seq(Frames) /\ Len(w) = Len(s) + 1 /\ DOMAIN w = DOMAIN s \cup {Len(s) + 1}
      /\ w[Len(s) + 1].pc = "look"
      /\ \A i \in DOMAIN s : w[i] = u[i]
  BY <1>7, <1>8, TopPushed
<1> HIDE DEF w
<1>10. /\ stack' \in [Analyses -> Seq(Frames)] /\ stack'[p] = w
       /\ \A q \in Analyses \ {p} : stack'[q] = stack[q]
  BY <1>1, <1>6, <1>9 DEF TypeOK
<1>11. UNCHANGED <<writer, cache, given, broken>>
  BY DEF Ask
<1>12. TypeOK'
  BY <1>1, <1>10, <1>11 DEF TypeOK
<1>13. \A i \in DOMAIN s : w[i].pc = s[i].pc /\ w[i].node = s[i].node /\ w[i].text = s[i].text
  BY <1>1, <1>4, <1>7, <1>9 DEF Top
<1>14. \A i \in DOMAIN s : s[i].pc = "compute"
  BY <1>1 DEF IInv, OuterCompute, Top
<1>15. OuterCompute'
  <2> SUFFICES ASSUME NEW q \in Analyses, NEW i \in DOMAIN stack'[q], i # Len(stack'[q])
               PROVE  stack'[q][i].pc = "compute"
    BY DEF OuterCompute
  <2>1. CASE q = p
    BY <1>9, <1>10, <1>13, <1>14, <2>1
  <2>2. CASE q # p
    BY <1>10, <2>2 DEF IInv, OuterCompute
  <2> QED
    BY <2>1, <2>2
<1>16. SameComputing
  <2> SUFFICES ASSUME NEW q \in Analyses, NEW i \in Nat
               PROVE  /\ (i \in DOMAIN stack'[q] /\ stack'[q][i].pc = "compute")
                            <=> (i \in DOMAIN stack[q] /\ stack[q][i].pc = "compute")
                      /\ i \in DOMAIN stack[q] /\ stack[q][i].pc = "compute"
                            => stack'[q][i].node = stack[q][i].node
                               /\ stack'[q][i].text = stack[q][i].text
    BY DEF SameComputing
  <2>1. CASE q = p
    <3>1. i \in DOMAIN w <=> i \in DOMAIN s \/ i = Len(s) + 1
      BY <1>9
    <3>2. Len(s) + 1 \notin DOMAIN s
      BY <1>1, LenProperties
    <3> QED
      BY <1>9, <1>10, <1>13, <2>1, <3>1, <3>2
  <2>2. CASE q # p
    BY <1>10, <2>2
  <2> QED
    BY <2>1, <2>2
<1>17. SameMatchesForAll'
  BY <1>11 DEF IInv, SameMatchesForAll
<1> QED
  BY <1>11, <1>12, <1>15, <1>16, <1>17, LocksStillFit DEF IInv

\* Nobody computes in a node whose lock is free.
LEMMA FreeNode ==
  ASSUME IInv, NEW n \in Nodes, writer[n] = Nobody, NEW q \in Analyses, NEW i \in DOMAIN stack[q],
         stack[q][i].node = n
  PROVE  stack[q][i].pc # "compute"
BY NamesAssumption DEF IInv, HeldByItsComputation, ComputesIn

LEMMA LockStep ==
  ASSUME IInv, NEW p \in Analyses, Lock(p)
  PROVE  IInv'
<1> DEFINE f == Top(p)
<1>1. TypeOK /\ stack[p] # <<>> /\ f.pc = "lock" /\ f \in Frames
      /\ f.node \in Nodes /\ f.text \in Texts
      /\ Len(stack[p]) \in DOMAIN stack[p] /\ writer[f.node] = Nobody
      /\ UNCHANGED <<cache, broken>>
  BY TopType DEF IInv, Lock, At
<1>2. CASE cache[f.node][f.text] # NotCached
  BY <1>1, <1>2, HitStep DEF Lock
<1>3. CASE cache[f.node][f.text] = NotCached
  <2>1. PICK asks \in SUBSET (Refs[f.node] \X Windows[f.text]) :
           SetTop(p, [f EXCEPT !.pc = "compute", !.todo = asks])
    BY <1>3 DEF Lock, Compute
  <2>2. writer' = [writer EXCEPT ![f.node] = p] /\ UNCHANGED <<cache, given, broken>>
    BY <1>1, <1>3 DEF Lock
  <2> DEFINE g == [f EXCEPT !.pc = "compute", !.todo = asks]
  <2>3. asks \in SUBSET (Nodes \X Texts)
    BY <1>1, RefsAssumption, WindowsAssumption
  <2>4. g \in Frames /\ g.pc = "compute" /\ g.node = f.node /\ g.text = f.text
    BY <1>1, <2>3 DEF Frames
  <2> HIDE DEF g
  <2>5. /\ stack' \in [Analyses -> Seq(Frames)]
        /\ \A q \in Analyses \ {p} : stack'[q] = stack[q]
        /\ Len(stack'[p]) = Len(stack[p]) /\ DOMAIN stack'[p] = DOMAIN stack[p]
        /\ stack'[p][Len(stack[p])] = g
        /\ \A i \in DOMAIN stack[p] : i # Len(stack[p]) => stack'[p][i] = stack[p][i]
    BY <1>1, <2>1, <2>4, AfterSetTop DEF g
  <2>6. TypeOK'
    BY <1>1, <2>2, <2>5 DEF TypeOK
  <2>7. OuterCompute'
    BY <2>5 DEF IInv, OuterCompute
  <2>8. OncePerNode'
    <3> SUFFICES ASSUME NEW q \in Analyses, NEW n \in Nodes,
                        NEW i \in DOMAIN stack'[q], NEW j \in DOMAIN stack'[q],
                        Computes(q, i, n)', Computes(q, j, n)', i # j
                 PROVE  FALSE
      BY DEF OncePerNode
    <3>1. CASE q # p
      BY <2>5, <3>1 DEF IInv, OncePerNode, Computes
    <3>2. CASE q = p /\ i # Len(stack[p]) /\ j # Len(stack[p])
      BY <2>5, <3>2 DEF IInv, OncePerNode, Computes
    <3>3. CASE q = p /\ (i = Len(stack[p]) \/ j = Len(stack[p]))
      <4>1. PICK k \in DOMAIN stack[p] : k # Len(stack[p]) /\ Computes(p, k, f.node)
        BY <2>4, <2>5, <3>3 DEF Computes
      <4> QED
        BY <1>1, <4>1, FreeNode DEF Computes
    <3> QED
      BY <3>1, <3>2, <3>3
  <2>9. HeldByItsComputation'
    <3>1. f.node \notin broken
      BY <1>1 DEF IInv, HeldByItsComputation
    <3>2. \A n \in Nodes : writer'[n] = IF n = f.node THEN p ELSE writer[n]
      BY <1>1, <2>2 DEF TypeOK
    <3>3. \A n \in broken' : writer'[n] # Nobody
      BY <1>1, <2>2, <3>1, <3>2 DEF IInv, TypeOK, HeldByItsComputation
    <3> SUFFICES ASSUME NEW n \in Nodes, NEW q \in Analyses
                 PROVE  n \notin broken' /\ writer'[n] = q <=> n \in ComputesIn(q)'
      BY <3>3 DEF HeldByItsComputation
    <3>4. n \notin broken /\ writer[n] = q <=> n \in ComputesIn(q)
      BY DEF IInv, HeldByItsComputation
    <3>5. CASE q # p
      <4>1. writer'[n] = q <=> writer[n] = q
        BY <1>1, <3>2, <3>5, NamesAssumption
      <4>2. ComputesIn(q)' = ComputesIn(q)
        BY <2>5, <3>5 DEF ComputesIn
      <4> QED
        BY <2>2, <3>4, <4>1, <4>2
    <3>6. CASE q = p /\ n = f.node
      <4>1. n \in ComputesIn(p)'
        BY <1>1, <2>4, <2>5, <3>6 DEF ComputesIn
      <4> QED
        BY <2>2, <3>1, <3>2, <3>6, <4>1
    <3>7. CASE q = p /\ n # f.node
      <4>1. \A i \in DOMAIN stack[p] :
               stack'[p][i].node = n /\ stack'[p][i].pc = "compute"
                 <=> stack[p][i].node = n /\ stack[p][i].pc = "compute"
        BY <1>1, <2>4, <2>5, <3>7 DEF Top
      <4>2. n \in ComputesIn(p)' <=> n \in ComputesIn(p)
        BY <2>5, <4>1 DEF ComputesIn
      <4> QED
        BY <2>2, <3>2, <3>4, <3>7, <4>2
    <3> QED
      BY <3>5, <3>6, <3>7
  <2>10. NotYetCached'
    <3> SUFFICES ASSUME NEW q \in Analyses, NEW i \in DOMAIN stack'[q],
                        stack'[q][i].pc = "compute"
                 PROVE  cache[stack'[q][i].node][stack'[q][i].text] = NotCached
      BY <2>2 DEF NotYetCached
    <3>1. CASE q = p /\ i = Len(stack[p])
      BY <1>3, <2>4, <2>5, <3>1
    <3>2. CASE ~(q = p /\ i = Len(stack[p]))
      BY <2>5, <3>2 DEF IInv, NotYetCached
    <3> QED
      BY <3>1, <3>2
  <2>11. SameMatchesForAll'
    BY <2>2 DEF IInv, SameMatchesForAll
  <2> QED
    BY <2>6, <2>7, <2>8, <2>9, <2>10, <2>11 DEF IInv
<1> QED
  BY <1>2, <1>3

LEMMA KeepStep ==
  ASSUME IInv, NEW p \in Analyses, Keep(p)
  PROVE  IInv'
<1> DEFINE f == Top(p)
<1>1. TypeOK /\ stack[p] # <<>> /\ f.pc = "compute" /\ f \in Frames
      /\ f.node \in Nodes /\ f.text \in Texts /\ Len(stack[p]) \in DOMAIN stack[p]
  BY TopType DEF IInv, Keep, At
<1>2. PICK m \in Matches :
         cache' = [cache EXCEPT ![f.node][f.text] = m] /\ Return(p, m)
  BY DEF Keep
<1>3. writer' = [writer EXCEPT ![f.node] = Nobody] /\ UNCHANGED broken
  BY DEF Keep
<1>4. given' = [given EXCEPT ![f.node][f.text] = @ \cup {m}]
  BY <1>2 DEF Return
<1>5. /\ stack' \in [Analyses -> Seq(Frames)]
      /\ \A q \in Analyses \ {p} : stack'[q] = stack[q]
      /\ Len(stack'[p]) = Len(stack[p]) - 1
      /\ DOMAIN stack'[p] = DOMAIN stack[p] \ {Len(stack[p])}
      /\ \A i \in DOMAIN stack'[p] : stack'[p][i] = stack[p][i]
  BY <1>1, <1>2, AfterReturn
<1>6. TypeOK'
  BY <1>1, <1>2, <1>3, <1>4, <1>5 DEF TypeOK
<1>7. OuterCompute'
  BY <1>5 DEF IInv, OuterCompute
<1>8. OncePerNode'
  BY <1>5 DEF IInv, OncePerNode, Computes
<1>9. Computes(p, Len(stack[p]), f.node)
  BY <1>1 DEF Computes, Top
<1>10. writer[f.node] = p /\ f.node \notin broken
  BY <1>1, <1>9, ComputingNodes DEF IInv, HeldByItsComputation
\* No other call computes in the node whose lock is given back.
<1>11. ASSUME NEW q \in Analyses, NEW i \in DOMAIN stack'[q], stack'[q][i].pc = "compute"
       PROVE  stack'[q][i].node # f.node
  <2>1. CASE q = p
    <3>1. i \in DOMAIN stack[p] /\ i # Len(stack[p]) /\ stack'[p][i] = stack[p][i]
      BY <1>5, <2>1
    <3> QED
      BY <1>1, <1>9, <1>11, <2>1, <3>1 DEF IInv, OncePerNode, Computes
  <2>2. CASE q # p
    <3>1. stack'[q][i].node \in ComputesIn(q)
      BY <1>5, <1>11, <2>2 DEF ComputesIn
    <3> QED
      BY <1>1, <1>10, <2>2, <3>1 DEF IInv, HeldByItsComputation
  <2> QED
    BY <2>1, <2>2
<1>12. HeldByItsComputation'
  <2>1. \A n \in Nodes : writer'[n] = IF n = f.node THEN Nobody ELSE writer[n]
    BY <1>1, <1>3 DEF TypeOK
  <2>2. \A n \in broken' : writer'[n] # Nobody
    BY <1>1, <1>3, <1>10, <2>1 DEF IInv, TypeOK, HeldByItsComputation
  <2> SUFFICES ASSUME NEW n \in Nodes, NEW q \in Analyses
               PROVE  n \notin broken' /\ writer'[n] = q <=> n \in ComputesIn(q)'
    BY <2>2 DEF HeldByItsComputation
  <2>3. n \notin broken /\ writer[n] = q <=> n \in ComputesIn(q)
    BY DEF IInv, HeldByItsComputation
  <2>4. CASE n = f.node
    <3>1. n \notin ComputesIn(q)'
      BY <1>11, <2>4 DEF ComputesIn
    <3> QED
      BY <2>1, <2>4, <3>1, NamesAssumption
  <2>5. CASE n # f.node /\ q # p
    <3>1. ComputesIn(q)' = ComputesIn(q)
      BY <1>5, <2>5 DEF ComputesIn
    <3> QED
      BY <1>3, <2>1, <2>3, <2>5, <3>1
  <2>6. CASE n # f.node /\ q = p
    <3>1. stack[p][Len(stack[p])].node # n
      BY <2>6 DEF Top
    <3>2. n \in ComputesIn(p)' <=> n \in ComputesIn(p)
      BY <1>5, <3>1 DEF ComputesIn
    <3> QED
      BY <1>3, <2>1, <2>3, <2>6, <3>2
  <2> QED
    BY <2>4, <2>5, <2>6
<1>13. NotYetCached'
  <2> SUFFICES ASSUME NEW q \in Analyses, NEW i \in DOMAIN stack'[q],
                      stack'[q][i].pc = "compute"
               PROVE  cache'[stack'[q][i].node][stack'[q][i].text] = NotCached
    BY DEF NotYetCached
  <2>1. stack'[q][i].node # f.node
    BY <1>11
  <2>2. i \in DOMAIN stack[q] /\ stack'[q][i] = stack[q][i]
    BY <1>5
  <2>3. stack[q] \in Seq(Frames) /\ stack[q][i] \in Frames
    BY <1>1, <2>2, ElementOfSeq, LenProperties DEF TypeOK
  <2>4. cache[stack[q][i].node][stack[q][i].text] = NotCached
    BY <2>2 DEF IInv, NotYetCached
  <2> QED
    BY <1>1, <1>2, <2>1, <2>2, <2>3, <2>4 DEF TypeOK, Frames
<1>14. cache[f.node][f.text] = NotCached
  BY <1>1 DEF IInv, NotYetCached, Top
<1>15. SameMatchesForAll'
  <2> SUFFICES ASSUME NEW n \in Nodes, NEW t \in Texts
               PROVE  given'[n][t] \subseteq {cache'[n][t]}
    BY DEF SameMatchesForAll
  <2>1. given[n][t] \subseteq {cache[n][t]} /\ given[n][t] \subseteq Matches
    BY <1>1 DEF IInv, SameMatchesForAll, TypeOK
  <2>2. CASE n = f.node /\ t = f.text
    <3>1. given[n][t] = {}
      BY <1>14, <2>1, <2>2, NamesAssumption
    <3>2. given'[n][t] = given[n][t] \cup {m} /\ cache'[n][t] = m
      BY <1>1, <1>2, <1>4, <2>2 DEF TypeOK
    <3> QED
      BY <3>1, <3>2
  <2>3. CASE ~(n = f.node /\ t = f.text)
    <3>1. given'[n][t] = given[n][t] /\ cache'[n][t] = cache[n][t]
      BY <1>1, <1>2, <1>4, <2>3 DEF TypeOK
    <3> QED
      BY <2>1, <3>1
  <2> QED
    BY <2>2, <2>3
<1> QED
  BY <1>6, <1>7, <1>8, <1>12, <1>13, <1>15 DEF IInv

\* The calls of the analysis are gone, and the locks they held are left behind.
LEMMA PanicStep ==
  ASSUME IInv, NEW p \in Analyses, Panic(p)
  PROVE  IInv'
<1>1. TypeOK /\ stack' = [stack EXCEPT ![p] = <<>>] /\ UNCHANGED <<writer, cache, given>>
      /\ broken' = broken \cup ComputesIn(p)
  BY DEF IInv, Panic
<1>2. stack' \in [Analyses -> Seq(Frames)] /\ stack'[p] = <<>> /\ DOMAIN stack'[p] = {}
      /\ \A q \in Analyses \ {p} : stack'[q] = stack[q]
  <2>1. <<>> \in Seq(Frames) /\ stack \in [Analyses -> Seq(Frames)]
    BY <1>1 DEF TypeOK
  <2> QED
    BY <1>1, <2>1
<1>3. ComputesIn(p) \subseteq Nodes
  <2>1. \A i \in DOMAIN stack[p] : stack[p][i] \in Frames
    BY <1>1, ElementOfSeq, LenProperties DEF TypeOK
  <2> QED
    BY <2>1 DEF ComputesIn, Frames
<1>4. TypeOK'
  BY <1>1, <1>2, <1>3 DEF TypeOK
<1>5. OuterCompute'
  BY <1>2 DEF IInv, OuterCompute
<1>6. OncePerNode'
  BY <1>2 DEF IInv, OncePerNode, Computes
<1>7. NotYetCached'
  BY <1>1, <1>2 DEF IInv, NotYetCached
<1>8. SameMatchesForAll'
  BY <1>1 DEF IInv, SameMatchesForAll
<1>9. ComputesIn(p)' = {} /\ \A q \in Analyses \ {p} : ComputesIn(q)' = ComputesIn(q)
  BY <1>2 DEF ComputesIn
<1>10. HeldByItsComputation'
  <2>1. \A n \in ComputesIn(p) : writer[n] = p
    BY <1>3 DEF IInv, HeldByItsComputation
  <2>2. \A n \in broken' : writer'[n] # Nobody
    BY <1>1, <2>1, NamesAssumption DEF IInv, HeldByItsComputation
  <2> SUFFICES ASSUME NEW n \in Nodes, NEW q \in Analyses
               PROVE  n \notin broken' /\ writer'[n] = q <=> n \in ComputesIn(q)'
    BY <2>2 DEF HeldByItsComputation
  <2>3. n \notin broken /\ writer[n] = q <=> n \in ComputesIn(q)
    BY DEF IInv, HeldByItsComputation
  <2>4. CASE q = p
    BY <1>1, <1>9, <2>3, <2>4
  <2>5. CASE q # p
    BY <1>1, <1>9, <2>1, <2>3, <2>5
  <2> QED
    BY <2>4, <2>5
<1> QED
  BY <1>4, <1>5, <1>6, <1>7, <1>8, <1>10 DEF IInv

-----------------------------------------------------------------------------
LEMMA InitInvariant == Init => IInv
<1> SUFFICES ASSUME Init PROVE IInv
  OBVIOUS
<1>1. \A p \in Analyses : stack[p] = <<>> /\ DOMAIN stack[p] = {}
  BY DEF Init
<1>2. <<>> \in Seq(Frames)
  OBVIOUS
<1>3. TypeOK
  BY <1>2 DEF Init, TypeOK
<1>4. OuterCompute /\ OncePerNode /\ NotYetCached
  BY <1>1 DEF OuterCompute, OncePerNode, NotYetCached
<1>5. HeldByItsComputation
  BY <1>1, NamesAssumption DEF Init, HeldByItsComputation, ComputesIn
<1>6. SameMatchesForAll
  BY DEF Init, SameMatchesForAll
<1> QED
  BY <1>3, <1>4, <1>5, <1>6 DEF IInv

LEMMA NextInvariant == IInv /\ [Next]_vars => IInv'
<1> SUFFICES ASSUME IInv, [Next]_vars PROVE IInv'
  OBVIOUS
<1>1. CASE \E p \in Analyses, n \in Nodes, t \in Texts : Start(p, n, t)
  BY <1>1, StartStep
<1>2. CASE \E p \in Analyses : Look(p)
  BY <1>2, LookStep
<1>3. CASE \E p \in Analyses : Lock(p)
  BY <1>3, LockStep
<1>4. CASE \E p \in Analyses : Ask(p)
  BY <1>4, AskStep
<1>5. CASE \E p \in Analyses : Keep(p)
  BY <1>5, KeepStep
<1>6. CASE \E p \in Requests : Panic(p)
  BY <1>6, PanicStep, RequestsAssumption
<1>7. CASE UNCHANGED vars
  BY <1>7 DEF vars, IInv, TypeOK, OuterCompute, OncePerNode, Computes, HeldByItsComputation,
              ComputesIn, NotYetCached, SameMatchesForAll
<1> QED
  BY <1>1, <1>2, <1>3, <1>4, <1>5, <1>6, <1>7 DEF Next

\* The invariant holds of every run of the shared nodes.
THEOREM Invariant == Spec => []IInv
BY InitInvariant, NextInvariant, PTL DEF Spec

\* The calls, locks, caches and returned matches have their types.
THEOREM TypeCorrect == Spec => []TypeOK
BY Invariant, PTL DEF IInv

\* The write lock of a node is held by the analysis that computes in it, and by nobody else:
\* no path through CachedNode.Detect returns with the lock, only a panic leaves it.
THEOREM LocksHeld == Spec => []HeldByItsComputation
BY Invariant, PTL DEF IInv

\* However many analyses race for a text, and in whatever order their maps are walked, all
\* get the same matches.
THEOREM OneAnswer == Spec => []SameMatchesForAll
BY Invariant, PTL DEF IInv

\* What is cached for a text is never replaced: the second look under the write lock is what
\* keeps an analysis that lost the race from computing the matches again.
THEOREM ComputedOnce == Spec => NeverRecomputed
<1> DEFINE Stays == \A n \in Nodes, t \in Texts : cache[n][t] # NotCached => cache'[n][t] = cache[n][t]
<1>1. ASSUME IInv, [Next]_vars PROVE [Stays]_vars
  <2>1. CASE UNCHANGED cache
    BY <2>1
  <2>2. ASSUME NEW p \in Analyses, Keep(p) PROVE Stays
    <3> DEFINE f == Top(p)
    <3>1. f.node \in Nodes /\ f.text \in Texts /\ f \in Frames
      BY <1>1, <2>2, TopType DEF IInv, TypeOK, Keep, At
    <3>2. cache[f.node][f.text] = NotCached
      <4>1. stack[p] \in Seq(Frames) /\ stack[p] # <<>> /\ f.pc = "compute"
        BY <1>1, <2>2 DEF IInv, TypeOK, Keep, At
      <4>2. Len(stack[p]) \in DOMAIN stack[p]
        BY <4>1, EmptySeq, LenProperties
      <4> QED
        BY <1>1, <4>1, <4>2 DEF IInv, NotYetCached, Top
    <3>3. PICK m \in Matches : cache' = [cache EXCEPT ![f.node][f.text] = m]
      BY <2>2 DEF Keep
    <3> QED
      BY <1>1, <3>1, <3>2, <3>3 DEF IInv, TypeOK
  <2>3. CASE \A p \in Analyses : ~Keep(p)
    <3>1. UNCHANGED cache
      BY <1>1, <2>3 DEF Next, vars, Start, Look, Lock, Ask, Panic
    <3> QED
      BY <3>1
  <2> QED
    BY <2>2, <2>3
<1> QED
  BY <1>1, Invariant, PTL DEF NeverRecomputed, Spec

=============================================================================
