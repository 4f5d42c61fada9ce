------------------------ MODULE LiveConnectionProofs ------------------------
(***************************************************************************)
(* What a connection guarantees for any capacity of its send buffer and    *)
(* any number of messages.  The argument is one order: the checks that are *)
(* on the wire, in the read pump's hands, in the channel, with the         *)
(* debounce goroutine, analysed, in the send buffer and at the browser are *)
(* each newer than what comes after them.                                  *)
(***************************************************************************)
EXTENDS LiveConnection, SequenceTheorems, TLAPS

IsCheck(i) == i \in DOMAIN inbox /\ inbox[i].kind = "check"
IsResult(i) == i \in DOMAIN send /\ send[i].kind = "check_result"

\* The checks on the wire are newer than any that was read, in the order they were sent.
WireOrder ==
  /\ \A i \in DOMAIN inbox : IsCheck(i) => lastRead < inbox[i].check /\ inbox[i].check <= checks
  /\ \A i, j \in DOMAIN inbox : IsCheck(i) /\ IsCheck(j) /\ i < j => inbox[i].check < inbox[j].check

\* What the read pump holds is the last check it read.
HandOrder ==
  /\ InHand => held = lastRead /\ lastRead > 0
  /\ lastRead <= checks

\* The check in the channel is newer than the debounce goroutine's, and older than what the
\* read pump holds.
ChannelOrder ==
  /\ pending <= lastRead
  /\ InHand => pending < lastRead
  /\ \A i \in DOMAIN checkCh : checkCh[i] > pending /\ checkCh[i] <= lastRead
                               /\ (InHand => checkCh[i] < lastRead)

\* The check the debounce goroutine has not yet run is newer than those it has run, and while
\* one runs the timer is off.
DebounceOrder ==
  /\ analysed <= pending
  /\ Awaiting => analysed < pending
  /\ debouncer = "checking" => timer = "stopped"

\* The results on their way to the browser are in order, and newer than what it has.
ResultOrder ==
  /\ got <= analysed
  /\ writing.kind = "check_result" => got <= writing.check /\ writing.check <= analysed
  /\ \A i \in DOMAIN send : IsResult(i) =>
        /\ got <= send[i].check /\ send[i].check <= analysed
        /\ writing.kind = "check_result" => writing.check <= send[i].check
  /\ \A i, j \in DOMAIN send : IsResult(i) /\ IsResult(j) /\ i < j => send[i].check <= send[j].check

IInv == TypeOK /\ WireOrder /\ HandOrder /\ ChannelOrder /\ DebounceOrder /\ ResultOrder
        /\ LatestKept

-----------------------------------------------------------------------------
\* Queues, and what a step leaves alone

LEMMA Pushed ==
  ASSUME NEW S, NEW s \in Seq(S), NEW x \in S
  PROVE  /\ Append(s, x) \in Seq(S) /\ Len(Append(s, x)) = Len(s) + 1 /\ Len(s) \in Nat
         /\ DOMAIN s = 1 .. Len(s) /\ DOMAIN Append(s, x) = 1 .. Len(s) + 1
         /\ Append(s, x)[Len(s) + 1] = x
         /\ \A i \in DOMAIN s : Append(s, x)[i] = s[i]
BY AppendProperties, LenProperties

LEMMA Popped ==
  ASSUME NEW S, NEW s \in Seq(S), s # << >>
  PROVE  /\ Tail(s) \in Seq(S) /\ Len(Tail(s)) = Len(s) - 1 /\ Len(s) \in Nat \ {0}
         /\ Head(s) = s[1] /\ Head(s) \in S /\ 1 \in DOMAIN s /\ DOMAIN s \subseteq Nat \ {0}
         /\ \A i \in DOMAIN Tail(s) : i + 1 \in DOMAIN s /\ Tail(s)[i] = s[i + 1] /\ i \in Nat \ {0}
<1>1. /\ Tail(s) \in Seq(S) /\ Len(Tail(s)) = Len(s) - 1 /\ Len(s) \in Nat \ {0}
      /\ Head(s) = s[1] /\ Head(s) \in S
      /\ \A i \in 1 .. Len(s) - 1 : Tail(s)[i] = s[i + 1]
  BY EmptySeq, HeadTailProperties, LenProperties
<1>2. DOMAIN s = 1 .. Len(s) /\ DOMAIN Tail(s) = 1 .. Len(s) - 1
  BY <1>1, LenProperties
<1> QED
  BY <1>1, <1>2

LEMMA WireKept == WireOrder /\ UNCHANGED <<inbox, lastRead, checks>> => WireOrder'
BY DEF WireOrder, IsCheck

LEMMA HandKept == HandOrder /\ UNCHANGED <<reader, held, lastRead, checks>> => HandOrder'
BY DEF HandOrder, InHand

LEMMA ChannelKept ==
  ChannelOrder /\ UNCHANGED <<pending, lastRead, reader, checkCh>> => ChannelOrder'
BY DEF ChannelOrder, InHand

LEMMA DebounceKept ==
  DebounceOrder /\ UNCHANGED <<analysed, pending, timer, debouncer>> => DebounceOrder'
BY DEF DebounceOrder, Awaiting

LEMMA ResultKept == ResultOrder /\ UNCHANGED <<got, analysed, writing, send>> => ResultOrder'
BY DEF ResultOrder, IsResult

LEMMA LatestStays ==
  LatestKept /\ UNCHANGED <<lastRead, debouncer, reader, held, checkCh, timer, pending, analysed>>
    => LatestKept'
BY DEF LatestKept, InHand, Queued, Awaiting

\* The checks that the variables hold are numbers.
LEMMA Numbers ==
  ASSUME TypeOK
  PROVE  /\ {sent, checks, got, held, pending, lastRead, analysed, MaxSent} \subseteq Nat
         /\ \A i \in DOMAIN checkCh : checkCh[i] \in Nat
         /\ \A i \in DOMAIN inbox : IsCheck(i) => inbox[i].check \in 1 .. MaxSent
         /\ \A i \in DOMAIN send : IsResult(i) => send[i].check \in 1 .. MaxSent
         /\ writing.kind = "check_result" => writing.check \in 1 .. MaxSent
<1>1. MaxSent \in Nat /\ sent \in Nat /\ checks \in Nat
  BY SentAssumption DEF TypeOK
<1>2. {got, held, pending, lastRead, analysed} \subseteq Nat
  BY <1>1 DEF TypeOK
<1>3. \A i \in DOMAIN checkCh : checkCh[i] \in Nat
  BY <1>1, ElementOfSeq, LenProperties DEF TypeOK
<1>4. \A i \in DOMAIN inbox : IsCheck(i) => inbox[i].check \in 1 .. MaxSent
  BY ElementOfSeq, LenProperties DEF TypeOK, IsCheck, Request
<1>5. \A i \in DOMAIN send : IsResult(i) => send[i].check \in 1 .. MaxSent
  BY ElementOfSeq, LenProperties DEF TypeOK, IsResult, Message
<1>6. writing.kind = "check_result" => writing.check \in 1 .. MaxSent
  BY DEF TypeOK, Message
<1> QED
  BY <1>1, <1>2, <1>3, <1>4, <1>5, <1>6

-----------------------------------------------------------------------------
\* The browser

LEMMA SendsStep ==
  ASSUME IInv, NEW m \in Request, BrowserSends(m),
         m.kind = "check" => m.check = checks + 1,
         checks' = IF m.kind = "check" THEN checks + 1 ELSE checks
  PROVE  IInv'
<1> USE DEF reading, debouncing, lifetime
<1>1. TypeOK /\ inbox \in Seq(Request) /\ inbox' = Append(inbox, m)
  BY DEF IInv, TypeOK, BrowserSends
<1>2. TypeOK'
  <2>1. inbox' \in Seq(Request)
    BY <1>1, Pushed
  <2>2. sent' \in 0 .. MaxSent /\ checks' \in 0 .. sent'
    BY <1>1, SentAssumption DEF TypeOK, BrowserSends
  <2> QED
    BY <1>1, <2>1, <2>2 DEF TypeOK, BrowserSends
<1>3. WireOrder'
  <2>1. /\ DOMAIN inbox' = 1 .. Len(inbox) + 1 /\ DOMAIN inbox = 1 .. Len(inbox) /\ Len(inbox) \in Nat
        /\ inbox'[Len(inbox) + 1] = m /\ \A i \in DOMAIN inbox : inbox'[i] = inbox[i]
    BY <1>1, Pushed
  <2>2. lastRead' = lastRead /\ lastRead <= checks /\ lastRead \in Nat /\ checks \in Nat
    BY <1>1, Numbers DEF BrowserSends, IInv, HandOrder
  <2>3. WireOrder
    BY DEF IInv
  <2>4. \A i \in DOMAIN inbox' : IsCheck(i)' =>
          lastRead' < inbox'[i].check /\ inbox'[i].check <= checks'
    <3> SUFFICES ASSUME NEW i \in DOMAIN inbox', IsCheck(i)'
                 PROVE  lastRead' < inbox'[i].check /\ inbox'[i].check <= checks'
      OBVIOUS
    <3>1. CASE i \in DOMAIN inbox
      <4>1. IsCheck(i) /\ inbox[i].check \in Nat
        BY <1>1, <2>1, <3>1, Numbers DEF IsCheck
      <4> QED
        BY <2>1, <2>2, <2>3, <3>1, <4>1 DEF WireOrder
    <3>2. CASE i = Len(inbox) + 1
      BY <2>1, <2>2, <3>2 DEF IsCheck
    <3> QED
      BY <2>1, <3>1, <3>2
  <2>5. \A i, j \in DOMAIN inbox' : IsCheck(i)' /\ IsCheck(j)' /\ i < j
          => inbox'[i].check < inbox'[j].check
    <3> SUFFICES ASSUME NEW i \in DOMAIN inbox', NEW j \in DOMAIN inbox',
                        IsCheck(i)', IsCheck(j)', i < j
                 PROVE  inbox'[i].check < inbox'[j].check
      OBVIOUS
    <3>1. i \in DOMAIN inbox /\ IsCheck(i) /\ inbox[i].check \in Nat
      BY <1>1, <2>1, Numbers DEF IsCheck
    <3>2. CASE j \in DOMAIN inbox
      BY <2>1, <2>3, <3>1, <3>2 DEF WireOrder, IsCheck
    <3>3. CASE j = Len(inbox) + 1
      <4>1. inbox'[j] = m /\ m.check = checks + 1
        BY <2>1, <3>3 DEF IsCheck
      <4>2. inbox[i].check <= checks /\ inbox'[i] = inbox[i]
        BY <2>1, <2>3, <3>1 DEF WireOrder
      <4> QED
        BY <2>2, <3>1, <4>1, <4>2
    <3> QED
      BY <2>1, <3>2, <3>3
  <2> QED
    BY <2>4, <2>5 DEF WireOrder
<1>4. HandOrder'
  BY <1>1, Numbers DEF IInv, HandOrder, InHand, BrowserSends
<1>5. ChannelOrder' /\ DebounceOrder' /\ ResultOrder' /\ LatestKept'
  BY ChannelKept, DebounceKept, ResultKept, LatestStays DEF IInv, BrowserSends
<1> QED
  BY <1>2, <1>3, <1>4, <1>5 DEF IInv

LEMMA BrowserStep == ASSUME IInv, Browser PROVE IInv'
<1>1. ASSUME BrowserSendsCheck PROVE IInv'
  <2> DEFINE m == [kind |-> "check", check |-> checks + 1]
  <2>1. m \in Request
    BY <1>1, SentAssumption DEF IInv, TypeOK, BrowserSendsCheck, BrowserSends, Request
  <2> QED
    BY <1>1, <2>1, SendsStep DEF BrowserSendsCheck
<1>2. ASSUME BrowserSendsOther PROVE IInv'
  <2>1. PICK k \in {"action", "invalid", "oversized"} : BrowserSends([kind |-> k])
    BY <1>2 DEF BrowserSendsOther
  <2>2. [kind |-> k] \in Request /\ [kind |-> k].kind # "check"
    BY DEF Request
  <2> QED
    BY <1>2, <2>1, <2>2, SendsStep DEF BrowserSendsOther
<1>3. ASSUME BrowserGoes PROVE IInv'
  <2>1. TypeOK'
    BY <1>3 DEF IInv, TypeOK, BrowserGoes, reading, debouncing, lifetime
  <2>2. WireOrder' /\ HandOrder' /\ ChannelOrder'
    BY <1>3, WireKept, HandKept, ChannelKept DEF IInv, BrowserGoes, reading, debouncing
  <2>3. DebounceOrder' /\ ResultOrder' /\ LatestKept'
    BY <1>3, DebounceKept, ResultKept, LatestStays DEF IInv, BrowserGoes, reading, debouncing
  <2> QED
    BY <2>1, <2>2, <2>3 DEF IInv
<1> QED
  BY <1>1, <1>2, <1>3 DEF Browser

-----------------------------------------------------------------------------
\* The read pump

\* The message that was read is off the wire; if it was a check, it is newer than the last.
LEMMA ReadsHead ==
  ASSUME IInv, NEW kind, Reads(kind)
  PROVE  /\ inbox' \in Seq(Request)
         /\ kind = "check" => /\ Head(inbox).check \in 1 .. MaxSent
                              /\ lastRead < Head(inbox).check /\ Head(inbox).check <= checks
         /\ lastRead' = (IF kind = "check" THEN Head(inbox).check ELSE lastRead) => WireOrder'
<1>1. TypeOK /\ inbox \in Seq(Request) /\ inbox # << >> /\ inbox' = Tail(inbox) /\ checks' = checks
      /\ Head(inbox).kind = kind
  BY DEF IInv, TypeOK, Reads
<1>2. /\ inbox' \in Seq(Request) /\ Head(inbox) = inbox[1] /\ 1 \in DOMAIN inbox
      /\ DOMAIN inbox \subseteq Nat \ {0}
      /\ \A i \in DOMAIN inbox' : i + 1 \in DOMAIN inbox /\ inbox'[i] = inbox[i + 1] /\ i \in Nat \ {0}
  BY <1>1, Popped
<1>3. /\ \A i \in DOMAIN inbox : IsCheck(i) => inbox[i].check \in Nat /\ inbox[i].check \in 1 .. MaxSent
      /\ lastRead \in Nat
  BY <1>1, Numbers, SentAssumption
<1>4. WireOrder
  BY DEF IInv
<1>5. kind = "check" => IsCheck(1) /\ Head(inbox).check \in 1 .. MaxSent
                        /\ lastRead < Head(inbox).check /\ Head(inbox).check <= checks
  BY <1>1, <1>2, <1>3, <1>4 DEF WireOrder, IsCheck
<1>6. ASSUME lastRead' = (IF kind = "check" THEN Head(inbox).check ELSE lastRead)
      PROVE  WireOrder'
  <2>1. \A i \in DOMAIN inbox' : IsCheck(i)' => IsCheck(i + 1)
    BY <1>2 DEF IsCheck
  <2>2. \A i \in DOMAIN inbox' : IsCheck(i)' =>
          lastRead' < inbox'[i].check /\ inbox'[i].check <= checks'
    <3> SUFFICES ASSUME NEW i \in DOMAIN inbox', IsCheck(i)'
                 PROVE  lastRead' < inbox'[i].check /\ inbox'[i].check <= checks'
      OBVIOUS
    <3>1. IsCheck(i + 1) /\ i + 1 \in DOMAIN inbox /\ inbox'[i] = inbox[i + 1] /\ 1 < i + 1
      BY <1>2, <2>1
    <3>2. lastRead < inbox[i + 1].check /\ inbox[i + 1].check <= checks
      BY <1>4, <3>1 DEF WireOrder
    <3>3. kind = "check" => inbox[1].check < inbox[i + 1].check
      BY <1>2, <1>4, <1>5, <3>1 DEF WireOrder
    <3> QED
      BY <1>1, <1>2, <1>6, <3>1, <3>2, <3>3
  <2>3. \A i, j \in DOMAIN inbox' : IsCheck(i)' /\ IsCheck(j)' /\ i < j
          => inbox'[i].check < inbox'[j].check
    <3> SUFFICES ASSUME NEW i \in DOMAIN inbox', NEW j \in DOMAIN inbox',
                        IsCheck(i)', IsCheck(j)', i < j
                 PROVE  inbox'[i].check < inbox'[j].check
      OBVIOUS
    <3>1. /\ i + 1 \in DOMAIN inbox /\ j + 1 \in DOMAIN inbox /\ i + 1 < j + 1
          /\ inbox'[i] = inbox[i + 1] /\ inbox'[j] = inbox[j + 1]
          /\ IsCheck(i + 1) /\ IsCheck(j + 1)
      BY <1>2, <2>1
    <3> QED
      BY <1>4, <3>1 DEF WireOrder
  <2> QED
    BY <2>2, <2>3 DEF WireOrder
<1> QED
  BY <1>2, <1>5, <1>6

LEMMA ReadCheckStep == ASSUME IInv, ReadCheck PROVE IInv'
<1> USE DEF lifetime, debouncing, pumping
<1> DEFINE n == Head(inbox).check
<1>1. TypeOK /\ Reads("check") /\ lastRead' = n /\ reader = "reading" /\ ~InHand /\ UNCHANGED send
      /\ UNCHANGED <<sent, checks, browser, lifetime, debouncing, pumping>>
  BY DEF IInv, ReadCheck, Reads, InHand
<1>2. n \in 1 .. MaxSent /\ lastRead < n /\ n <= checks /\ inbox' \in Seq(Request) /\ WireOrder'
  BY <1>1, ReadsHead
<1>3. \/ checkCh = << >> /\ checkCh' = <<n>> /\ UNCHANGED <<reader, held>>
      \/ reader' = "draining" /\ held' = n /\ UNCHANGED checkCh
  BY DEF ReadCheck
<1>4. /\ MaxSent \in Nat /\ lastRead \in Nat /\ pending \in Nat /\ n \in Nat
      /\ \A i \in DOMAIN checkCh : checkCh[i] \in Nat
  BY <1>1, <1>2, Numbers
<1>5. DOMAIN <<n>> = {1} /\ <<n>>[1] = n /\ Len(<<n>>) = 1 /\ <<n>> \in Seq(1 .. MaxSent)
  BY <1>2
<1>6. TypeOK'
  <2>1. reader' \in {"reading", "draining"} /\ {held', lastRead'} \subseteq 0 .. MaxSent
    BY <1>1, <1>2, <1>3, <1>4 DEF TypeOK
  <2>2. CASE checkCh' = <<n>>
    BY <1>1, <1>2, <1>5, <2>1, <2>2 DEF TypeOK
  <2>3. CASE UNCHANGED checkCh
    BY <1>1, <1>2, <2>1, <2>3 DEF TypeOK
  <2> QED
    BY <1>3, <2>2, <2>3
<1>7. HandOrder'
  BY <1>1, <1>2, <1>3, <1>4 DEF HandOrder, InHand
<1>8. ChannelOrder'
  <2>1. ChannelOrder
    BY DEF IInv
  <2>2. pending' = pending /\ pending < n
    BY <1>1, <1>2, <1>4, <2>1 DEF ChannelOrder
  <2>3. CASE checkCh' = <<n>> /\ UNCHANGED reader
    <3>1. ~InHand'
      BY <1>1, <2>3 DEF InHand
    <3> QED
      BY <1>1, <1>4, <1>5, <2>2, <2>3, <3>1 DEF ChannelOrder
  <2>4. CASE UNCHANGED checkCh
    BY <1>1, <1>2, <1>4, <2>1, <2>2, <2>4 DEF ChannelOrder
  <2> QED
    BY <1>3, <2>3, <2>4
<1>9. DebounceOrder' /\ ResultOrder'
  BY <1>1, DebounceKept, ResultKept DEF IInv
<1>10. LatestKept'
  <2>1. CASE checkCh' = <<n>>
    <3>1. Queued(lastRead)'
      BY <1>1, <1>5, <2>1 DEF Queued
    <3> QED
      BY <1>1, <3>1 DEF LatestKept
  <2>2. CASE reader' = "draining" /\ held' = n
    BY <1>1, <2>2 DEF LatestKept, InHand
  <2> QED
    BY <1>3, <2>1, <2>2
<1> QED
  BY <1>2, <1>6, <1>7, <1>8, <1>9, <1>10 DEF IInv

\* Taking the occupant out loses nothing: the read pump holds a newer check.
LEMMA DrainStep == ASSUME IInv, Drain PROVE IInv'
<1> USE DEF network, lifetime, debouncing
<1>1. << >> \in Seq(1 .. MaxSent) /\ Len(<< >>) = 0 /\ DOMAIN << >> = {}
  OBVIOUS
<1>2. TypeOK'
  BY <1>1 DEF IInv, TypeOK, Drain
<1>3. InHand /\ InHand' /\ held' = held /\ lastRead' = lastRead
  BY DEF Drain, InHand
<1>4. HandOrder'
  BY <1>3 DEF IInv, HandOrder, Drain
<1>5. ChannelOrder'
  BY <1>1, <1>3 DEF IInv, ChannelOrder, Drain
<1>6. WireOrder' /\ DebounceOrder' /\ ResultOrder'
  BY WireKept, DebounceKept, ResultKept DEF IInv, Drain
<1>7. LatestKept'
  BY <1>3 DEF IInv, HandOrder, LatestKept
<1> QED
  BY <1>2, <1>4, <1>5, <1>6, <1>7 DEF IInv

LEMMA RefillStep == ASSUME IInv, Refill PROVE IInv'
<1> USE DEF network, lifetime, debouncing
<1>1. TypeOK /\ InHand /\ ~InHand' /\ held = lastRead /\ lastRead > 0 /\ pending < lastRead
      /\ lastRead' = lastRead /\ lastRead <= checks
  BY DEF IInv, Refill, InHand, HandOrder, ChannelOrder
<1>2. held \in 1 .. MaxSent /\ lastRead \in Nat /\ MaxSent \in Nat
  BY <1>1, Numbers DEF TypeOK
<1>3. checkCh' = <<held>> /\ <<held>> \in Seq(1 .. MaxSent) /\ DOMAIN <<held>> = {1}
      /\ <<held>>[1] = held /\ Len(<<held>>) = 1
  BY <1>2 DEF Refill
<1>4. TypeOK'
  BY <1>1, <1>2, <1>3 DEF TypeOK, Refill
<1>5. HandOrder'
  BY <1>1 DEF HandOrder, Refill
<1>6. ChannelOrder'
  <2>1. pending' = pending /\ pending \in Nat
    BY <1>1, Numbers DEF Refill
  <2> QED
    BY <1>1, <1>2, <1>3, <2>1 DEF ChannelOrder
<1>7. WireOrder' /\ DebounceOrder' /\ ResultOrder'
  BY WireKept, DebounceKept, ResultKept DEF IInv, Refill
<1>8. Queued(lastRead)'
  BY <1>1, <1>3 DEF Queued
<1>9. LatestKept'
  BY <1>8 DEF LatestKept
<1> QED
  BY <1>4, <1>5, <1>6, <1>7, <1>9 DEF IInv

LEMMA AckSent == ASSUME IInv, sendJSON(Ack), UNCHANGED <<got, analysed, writing>>
                 PROVE  send' \in Seq(Message) /\ Len(send') <= SendCap /\ ResultOrder'
<1>1. TypeOK /\ ResultOrder /\ send \in Seq(Message) /\ Len(send) <= SendCap
  BY DEF IInv, TypeOK
<1>2. CASE Len(send) < SendCap
  <2>1. Ack \in Message /\ Ack.kind # "check_result" /\ SendCap \in Nat
    BY CapAssumption DEF Ack, Message
  <2>2. send' = Append(send, Ack)
    BY <1>2 DEF sendJSON
  <2>3. /\ send' \in Seq(Message) /\ Len(send') = Len(send) + 1 /\ Len(send) \in Nat
        /\ DOMAIN send = 1 .. Len(send) /\ DOMAIN send' = 1 .. Len(send) + 1
        /\ send'[Len(send) + 1] = Ack /\ \A i \in DOMAIN send : send'[i] = send[i]
    BY <1>1, <2>1, <2>2, Pushed
  <2>4. \A i \in DOMAIN send' : IsResult(i)' => IsResult(i) /\ send'[i] = send[i]
    BY <2>1, <2>3 DEF IsResult
  <2>5. ResultOrder'
    BY <1>1, <2>4 DEF ResultOrder, IsResult
  <2> QED
    BY <1>2, <2>1, <2>3, <2>5
<1>3. CASE ~(Len(send) < SendCap)
  BY <1>1, <1>3, ResultKept DEF sendJSON
<1> QED
  BY <1>2, <1>3

LEMMA ReadPumpStep == ASSUME IInv, ReadPump PROVE IInv'
<1> USE DEF network, reading, debouncing, pumping, lifetime
<1>1. CASE ReadCheck \/ Drain \/ Refill
  BY <1>1, ReadCheckStep, DrainStep, RefillStep
<1>2. CASE ReadAction \/ ReadInvalid
  <2>1. PICK kind \in {"action", "invalid"} : Reads(kind)
    BY <1>2 DEF ReadAction, ReadInvalid
  <2>2. inbox' \in Seq(Request) /\ WireOrder'
    BY <1>2, <2>1, ReadsHead DEF ReadAction, ReadInvalid
  <2>3. send' \in Seq(Message) /\ Len(send') <= SendCap /\ ResultOrder'
    <3>1. CASE ReadAction
      BY <3>1, AckSent DEF ReadAction, Reads
    <3>2. CASE ReadInvalid
      BY <3>2, ResultKept DEF IInv, TypeOK, ReadInvalid, Reads
    <3> QED
      BY <1>2, <3>1, <3>2
  <2>4. TypeOK'
    BY <1>2, <2>1, <2>2, <2>3 DEF IInv, TypeOK, Reads, ReadAction, ReadInvalid
  <2>5. UNCHANGED <<checks, analysed, reader, held, lastRead, checkCh, pending, timer, debouncer>>
    BY <1>2, <2>1 DEF Reads, ReadAction, ReadInvalid
  <2>6. HandOrder' /\ ChannelOrder' /\ DebounceOrder' /\ LatestKept'
    BY <2>5, HandKept, ChannelKept, DebounceKept, LatestStays DEF IInv
  <2> QED
    BY <2>2, <2>3, <2>4, <2>6 DEF IInv
<1>3. CASE ReadFails \/ Unregister
  <2>1. ~InHand /\ ~InHand'
    BY <1>3 DEF InHand, ReadFails, Unregister
  <2>2. UNCHANGED <<network, held, lastRead, checkCh, debouncing, send, writer, writing>>
    BY <1>3 DEF ReadFails, Unregister
  <2>3. TypeOK'
    BY <1>3, <2>2 DEF IInv, TypeOK, ReadFails, Unregister
  <2>4. WireOrder' /\ DebounceOrder' /\ ResultOrder'
    BY <2>2, WireKept, DebounceKept, ResultKept DEF IInv
  <2>5. HandOrder'
    BY <2>1, <2>2 DEF IInv, HandOrder
  <2>6. ChannelOrder'
    BY <2>1, <2>2 DEF IInv, ChannelOrder
  <2>7. LatestKept'
    BY <2>1, <2>2 DEF IInv, LatestKept, Queued, Awaiting
  <2> QED
    BY <2>3, <2>4, <2>5, <2>6, <2>7 DEF IInv
<1> QED
  BY <1>1, <1>2, <1>3 DEF ReadPump

-----------------------------------------------------------------------------
\* The debounce goroutine

LEMMA TakeCheckStep == ASSUME IInv, TakeCheck PROVE IInv'
<1> USE DEF network, reading, lifetime
<1>1. TypeOK /\ checkCh \in Seq(1 .. MaxSent) /\ checkCh # << >> /\ Len(checkCh) <= 1
  BY DEF IInv, TypeOK, TakeCheck
<1>2. /\ Head(checkCh) = checkCh[1] /\ Head(checkCh) \in 1 .. MaxSent /\ 1 \in DOMAIN checkCh
      /\ Len(checkCh) \in Nat \ {0}
  BY <1>1, Popped
<1>3. /\ pending' = checkCh[1] /\ checkCh' = << >> /\ timer' = "running"
      /\ debouncer = "select" /\ debouncer' = debouncer
      /\ UNCHANGED <<analysed, network, lifetime, reading, send, writer, writing>>
  BY <1>2 DEF TakeCheck
<1>4. << >> \in Seq(1 .. MaxSent) /\ Len(<< >>) = 0 /\ DOMAIN << >> = {}
  OBVIOUS
<1>5. checkCh[1] \in Nat /\ pending \in Nat /\ analysed \in Nat /\ lastRead \in Nat /\ MaxSent \in Nat
  BY <1>1, <1>2, Numbers
<1>6. pending < checkCh[1] /\ checkCh[1] <= lastRead /\ (InHand => checkCh[1] < lastRead)
  BY <1>2 DEF IInv, ChannelOrder
<1>7. analysed <= pending
  BY DEF IInv, DebounceOrder
<1>8. TypeOK'
  BY <1>1, <1>2, <1>3, <1>4, <1>5 DEF TypeOK
<1>9. ChannelOrder'
  BY <1>3, <1>4, <1>6 DEF ChannelOrder, InHand
<1>10. DebounceOrder'
  BY <1>3, <1>5, <1>6, <1>7 DEF DebounceOrder
<1>11. WireOrder' /\ HandOrder' /\ ResultOrder'
  BY <1>3, WireKept, HandKept, ResultKept DEF IInv
<1>12. LatestKept'
  <2> SUFFICES ASSUME (lastRead # 0 /\ debouncer # "exited")'
               PROVE  (\/ InHand /\ held = lastRead
                       \/ Awaiting /\ pending = lastRead)'
    BY DEF LatestKept
  <2>1. Awaiting' /\ lastRead' = lastRead /\ lastRead # 0 /\ debouncer # "exited"
    BY <1>3 DEF Awaiting
  <2>2. CASE InHand /\ held = lastRead
    BY <1>3, <2>2 DEF InHand
  <2>3. CASE Queued(lastRead)
    <3>1. checkCh[1] = lastRead
      BY <1>1, <1>2, <2>3 DEF Queued
    <3> QED
      BY <1>3, <2>1, <3>1
  <2>4. ~(Awaiting /\ pending = lastRead) /\ analysed # lastRead
    BY <1>5, <1>6, <1>7
  <2> QED
    BY <2>1, <2>2, <2>3, <2>4 DEF IInv, LatestKept
<1> QED
  BY <1>8, <1>9, <1>10, <1>11, <1>12 DEF IInv

LEMMA ResultSent ==
  ASSUME IInv, debouncer = "checking", analysed' = pending, UNCHANGED <<got, writing, writer>>,
         sendJSON(Result(pending)) \/ UNCHANGED send
  PROVE  send' \in Seq(Message) /\ Len(send') <= SendCap /\ ResultOrder'
<1>1. TypeOK /\ ResultOrder /\ send \in Seq(Message) /\ Len(send) <= SendCap
  BY DEF IInv, TypeOK
<1>2. analysed < pending /\ analysed \in Nat /\ pending \in Nat /\ got \in Nat
      /\ MaxSent \in Nat /\ pending \in 1 .. MaxSent
  <2>1. analysed < pending
    BY DEF IInv, DebounceOrder, Awaiting
  <2> QED
    BY <1>1, <2>1, Numbers DEF TypeOK
<1>3. got <= pending /\ (writing.kind = "check_result" => got <= writing.check /\ writing.check <= pending)
      /\ \A i \in DOMAIN send : IsResult(i) =>
           send[i].check \in Nat /\ got <= send[i].check /\ send[i].check <= pending
           /\ (writing.kind = "check_result" => writing.check <= send[i].check)
  <2>1. /\ \A i \in DOMAIN send : IsResult(i) => send[i].check \in Nat
        /\ writing.kind = "check_result" => writing.check \in Nat
    BY <1>1, <1>2, Numbers
  <2> QED
    BY <1>1, <1>2, <2>1 DEF ResultOrder
<1>4. CASE send' = Append(send, Result(pending)) /\ Len(send) < SendCap
  <2> DEFINE m == Result(pending)
  <2>1. m \in Message /\ m.kind = "check_result" /\ m.check = pending /\ SendCap \in Nat
    BY <1>2, CapAssumption DEF Result, Message
  <2>2. /\ send' \in Seq(Message) /\ Len(send') = Len(send) + 1 /\ Len(send) \in Nat
        /\ DOMAIN send = 1 .. Len(send) /\ DOMAIN send' = 1 .. Len(send) + 1
        /\ send'[Len(send) + 1] = m /\ \A i \in DOMAIN send : send'[i] = send[i]
    BY <1>1, <1>4, <2>1, Pushed
  <2> HIDE DEF m
  <2>3. \A i \in DOMAIN send' : IsResult(i)' =>
          \/ i \in DOMAIN send /\ IsResult(i) /\ send'[i] = send[i]
          \/ i = Len(send) + 1 /\ send'[i] = m
    BY <2>2 DEF IsResult
  <2>4. \A i \in DOMAIN send' : IsResult(i)' =>
          got <= send'[i].check /\ send'[i].check <= pending
          /\ (writing.kind = "check_result" => writing.check <= send'[i].check)
    BY <1>2, <1>3, <2>1, <2>3
  <2>5. \A i, j \in DOMAIN send' : IsResult(i)' /\ IsResult(j)' /\ i < j
          => send'[i].check <= send'[j].check
    <3> SUFFICES ASSUME NEW i \in DOMAIN send', NEW j \in DOMAIN send',
                        IsResult(i)', IsResult(j)', i < j
                 PROVE  send'[i].check <= send'[j].check
      OBVIOUS
    <3>1. i \in DOMAIN send /\ IsResult(i) /\ send'[i] = send[i]
      BY <2>2, <2>3
    <3>2. CASE j \in DOMAIN send /\ IsResult(j) /\ send'[j] = send[j]
      BY <1>1, <3>1, <3>2 DEF ResultOrder
    <3>3. CASE j = Len(send) + 1 /\ send'[j] = m
      BY <1>3, <2>1, <3>1, <3>3
    <3> QED
      BY <2>3, <3>2, <3>3
  <2>6. ResultOrder'
    BY <1>3, <2>4, <2>5 DEF ResultOrder
  <2>7. Len(send') <= SendCap
    <3>1. Len(send) < SendCap
      BY <1>4
    <3>2. Len(send) \in Nat /\ Len(send') = Len(send) + 1 /\ SendCap \in Nat
      BY <2>1, <2>2
    <3> QED
      BY <3>1, <3>2
  <2> QED
    BY <2>2, <2>6, <2>7
<1>5. CASE UNCHANGED send
  BY <1>1, <1>2, <1>3, <1>5 DEF ResultOrder, IsResult
<1> QED
  BY <1>1, <1>4, <1>5 DEF sendJSON

LEMMA EndCheckStep == ASSUME IInv, EndCheck PROVE IInv'
<1> USE DEF network, reading, lifetime
<1>1. /\ debouncer = "checking" /\ debouncer' = "select" /\ analysed' = pending
      /\ timer = "stopped" /\ timer' = timer /\ pending' = pending
      /\ UNCHANGED <<network, lifetime, reading, checkCh, writer, writing>>
  BY DEF IInv, DebounceOrder, EndCheck
<1>2. send' \in Seq(Message) /\ Len(send') <= SendCap /\ ResultOrder'
  BY <1>1, ResultSent DEF EndCheck
<1>3. TypeOK /\ pending \in Nat
  BY Numbers DEF IInv
<1>4. TypeOK'
  BY <1>1, <1>2, <1>3 DEF TypeOK
<1>5. DebounceOrder'
  BY <1>1, <1>3 DEF DebounceOrder, Awaiting
<1>6. WireOrder' /\ HandOrder' /\ ChannelOrder'
  BY <1>1, WireKept, HandKept, ChannelKept DEF IInv
<1>7. LatestKept'
  <2>1. analysed < pending /\ pending <= lastRead /\ analysed \in Nat /\ lastRead \in Nat
    BY <1>1, <1>3, Numbers DEF IInv, DebounceOrder, Awaiting, ChannelOrder
  <2>2. analysed # lastRead
    BY <1>3, <2>1
  <2> QED
    BY <1>1, <2>2 DEF IInv, LatestKept, InHand, Queued, Awaiting
<1> QED
  BY <1>2, <1>4, <1>5, <1>6, <1>7 DEF IInv

LEMMA DebouncerStep == ASSUME IInv, Debouncer \/ TimerExpires PROVE IInv'
<1> USE DEF network, reading, lifetime
<1>1. CASE TakeCheck \/ EndCheck
  BY <1>1, TakeCheckStep, EndCheckStep
<1>2. CASE BeginCheck \/ DebouncerExits \/ TimerExpires
  <2>1. UNCHANGED <<pending, analysed, network, lifetime, reading, checkCh, send, writer, writing>>
    BY <1>2 DEF BeginCheck, DebouncerExits, TimerExpires
  <2>2. TypeOK'
    BY <1>2, <2>1 DEF IInv, TypeOK, BeginCheck, DebouncerExits, TimerExpires
  <2>3. Awaiting' <=> Awaiting
    BY <1>2 DEF IInv, DebounceOrder, Awaiting, BeginCheck, DebouncerExits, TimerExpires
  <2>4. DebounceOrder'
    BY <1>2, <2>1, <2>3 DEF IInv, DebounceOrder, Awaiting, BeginCheck, DebouncerExits, TimerExpires
  <2>5. WireOrder' /\ HandOrder' /\ ChannelOrder' /\ ResultOrder'
    BY <2>1, WireKept, HandKept, ChannelKept, ResultKept DEF IInv
  <2>6. debouncer' # "exited" => debouncer # "exited"
    BY <1>2 DEF BeginCheck, DebouncerExits, TimerExpires
  <2>7. LatestKept'
    BY <2>1, <2>3, <2>6 DEF IInv, LatestKept, InHand, Queued
  <2> QED
    BY <2>2, <2>4, <2>5, <2>7 DEF IInv
<1> QED
  BY <1>1, <1>2 DEF Debouncer

-----------------------------------------------------------------------------
\* The write pump

LEMMA TakeMessageStep == ASSUME IInv, TakeMessage PROVE IInv'
<1> USE DEF network, reading, lifetime, debouncing
<1>1. TypeOK /\ ResultOrder /\ send \in Seq(Message) /\ send # << >> /\ Len(send) <= SendCap
  BY DEF IInv, TypeOK, TakeMessage
<1>2. /\ Tail(send) \in Seq(Message) /\ Len(Tail(send)) = Len(send) - 1 /\ Len(send) \in Nat \ {0}
      /\ Head(send) = send[1] /\ Head(send) \in Message /\ 1 \in DOMAIN send
      /\ \A i \in DOMAIN Tail(send) :
           i + 1 \in DOMAIN send /\ Tail(send)[i] = send[i + 1] /\ i \in Nat \ {0}
  BY <1>1, Popped
<1>3. /\ writing' = send[1] /\ send' = Tail(send) /\ writer' = "writing"
      /\ UNCHANGED <<network, lifetime, reading, checkCh, debouncing>>
  BY <1>2 DEF TakeMessage
<1>4. TypeOK'
  <2>1. Len(send') <= SendCap
    BY <1>1, <1>2, <1>3, CapAssumption
  <2> QED
    BY <1>1, <1>2, <1>3, <2>1 DEF TypeOK
<1>5. \A i \in DOMAIN send' : IsResult(i)' =>
        IsResult(i + 1) /\ i + 1 \in DOMAIN send /\ send'[i] = send[i + 1] /\ 1 < i + 1 /\ i \in Nat
  BY <1>2, <1>3 DEF IsResult
<1>6. writing'.kind = "check_result" => IsResult(1)
  BY <1>2, <1>3 DEF IsResult
<1>7. ResultOrder'
  <2>1. got' <= analysed'
    BY <1>1, <1>3 DEF ResultOrder
  <2>2. writing'.kind = "check_result" => got' <= writing'.check /\ writing'.check <= analysed'
    BY <1>1, <1>2, <1>3, <1>6 DEF ResultOrder
  <2>3. \A i \in DOMAIN send' : IsResult(i)' =>
          /\ got' <= send'[i].check /\ send'[i].check <= analysed'
          /\ writing'.kind = "check_result" => writing'.check <= send'[i].check
    BY <1>1, <1>2, <1>3, <1>5, <1>6 DEF ResultOrder
  <2>4. \A i, j \in DOMAIN send' : IsResult(i)' /\ IsResult(j)' /\ i < j
          => send'[i].check <= send'[j].check
    <3> SUFFICES ASSUME NEW i \in DOMAIN send', NEW j \in DOMAIN send',
                        IsResult(i)', IsResult(j)', i < j
                 PROVE  send'[i].check <= send'[j].check
      OBVIOUS
    <3>1. i + 1 < j + 1
      BY <1>5
    <3> QED
      BY <1>1, <1>5, <3>1 DEF ResultOrder
  <2> QED
    BY <2>1, <2>2, <2>3, <2>4 DEF ResultOrder
<1>8. WireOrder' /\ HandOrder' /\ ChannelOrder' /\ DebounceOrder' /\ LatestKept'
  BY <1>3, WireKept, HandKept, ChannelKept, DebounceKept, LatestStays DEF IInv
<1> QED
  BY <1>4, <1>7, <1>8 DEF IInv

\* The browser has what it had, or the result the pump wrote.
LEMMA WritesGot ==
  ASSUME Writes PROVE got' = got \/ (writing.kind = "check_result" /\ got' = writing.check)
<1>1. CASE browser = "here" /\ writing.kind = "check_result"
  BY <1>1 DEF Writes
<1>2. CASE ~(browser = "here" /\ writing.kind = "check_result")
  BY <1>2 DEF Writes
<1> QED
  BY <1>1, <1>2

LEMMA WritePumpStep == ASSUME IInv, WritePump PROVE IInv'
<1> USE DEF network, reading, lifetime, debouncing
<1>1. CASE TakeMessage
  BY <1>1, TakeMessageStep
<1>2. CASE Writes \/ WriterExits
  <2>1. /\ writing' = Ack /\ Ack \in Message /\ Ack.kind # "check_result"
        /\ UNCHANGED <<inbox, sent, checks, reading, checkCh, debouncing, send>>
    BY <1>2 DEF Writes, WriterExits, Ack, Message
  <2>2. got' = got \/ (writing.kind = "check_result" /\ got' = writing.check)
    <3>1. CASE Writes
      BY <3>1, WritesGot
    <3>2. CASE WriterExits
      BY <3>2 DEF WriterExits
    <3> QED
      BY <1>2, <3>1, <3>2
  <2>3. TypeOK /\ ResultOrder
    BY DEF IInv
  <2>4. writing.kind = "check_result" => writing.check \in 0 .. MaxSent
    BY <2>3, SentAssumption, Numbers
  <2>5. TypeOK'
    BY <1>2, <2>1, <2>2, <2>3, <2>4 DEF TypeOK, Writes, WriterExits
  <2>6. got' <= analysed /\ \A i \in DOMAIN send : IsResult(i) => got' <= send[i].check
    BY <2>2, <2>3 DEF ResultOrder
  <2>7. ResultOrder'
    BY <2>1, <2>3, <2>6 DEF ResultOrder, IsResult
  <2>8. WireOrder' /\ HandOrder' /\ ChannelOrder' /\ DebounceOrder' /\ LatestKept'
    BY <2>1, WireKept, HandKept, ChannelKept, DebounceKept, LatestStays DEF IInv
  <2> QED
    BY <2>5, <2>7, <2>8 DEF IInv
<1> QED
  BY <1>1, <1>2 DEF WritePump

-----------------------------------------------------------------------------
LEMMA InitInvariant == Init => IInv
<1> SUFFICES ASSUME Init PROVE IInv
  OBVIOUS
<1>1. << >> \in Seq(Request) /\ << >> \in Seq(1 .. MaxSent) /\ << >> \in Seq(Message)
      /\ Len(<< >>) = 0 /\ DOMAIN << >> = {}
  OBVIOUS
<1>2. TypeOK
  <2>1. 0 <= SendCap /\ 0 \in 0 .. MaxSent /\ 0 \in 0 .. 0 /\ Ack \in Message
    BY SentAssumption, CapAssumption DEF Message, Ack
  <2>2. /\ sent \in 0 .. MaxSent /\ checks \in 0 .. sent
        /\ {got, held, pending, lastRead, analysed} \subseteq 0 .. MaxSent
    BY <2>1 DEF Init
  <2>3. /\ inbox \in Seq(Request) /\ checkCh \in Seq(1 .. MaxSent) /\ Len(checkCh) <= 1
        /\ send \in Seq(Message) /\ Len(send) <= SendCap
    BY <1>1, <2>1 DEF Init
  <2> QED
    BY <2>1, <2>2, <2>3 DEF Init, TypeOK
<1>3. WireOrder /\ HandOrder /\ ChannelOrder
  BY <1>1 DEF Init, WireOrder, HandOrder, ChannelOrder, InHand
<1>4. DebounceOrder /\ ResultOrder /\ LatestKept
  BY <1>1 DEF Init, DebounceOrder, ResultOrder, LatestKept, Awaiting, Ack
<1> QED
  BY <1>2, <1>3, <1>4 DEF IInv

LEMMA NextInvariant == IInv /\ [Next]_vars => IInv'
<1> SUFFICES ASSUME IInv, [Next]_vars PROVE IInv'
  OBVIOUS
<1>1. CASE UNCHANGED vars
  <2>1. TypeOK'
    BY <1>1 DEF IInv, TypeOK, vars
  <2>2. WireOrder' /\ HandOrder' /\ ChannelOrder' /\ DebounceOrder' /\ ResultOrder' /\ LatestKept'
    BY <1>1, WireKept, HandKept, ChannelKept, DebounceKept, ResultKept, LatestStays DEF IInv, vars
  <2> QED
    BY <2>1, <2>2 DEF IInv
<1>2. CASE Next
  BY <1>2, BrowserStep, ReadPumpStep, DebouncerStep, WritePumpStep DEF Next
<1> QED
  BY <1>1, <1>2

\* The invariant holds of every run of a connection.
THEOREM Invariant == Spec => []IInv
BY InitInvariant, NextInvariant, PTL DEF Spec

\* The channels keep to their capacities and every variable to its type.
THEOREM TypeCorrect == Spec => []TypeOK
BY Invariant, PTL DEF IInv

\* The last check the read pump read is never lost between it, the channel and the debounce
\* goroutine, though an older check is taken out of the channel for it.
THEOREM LastCheckKept == Spec => []LatestKept
BY Invariant, PTL DEF IInv

\* runCheck runs no check twice and none after a later one.
THEOREM CheckOrder == Spec => ChecksInOrder
<1>1. ASSUME IInv, [Next]_vars
      PROVE  [(debouncer' = "checking" /\ debouncer # "checking") => pending > analysed]_vars
  <2> SUFFICES ASSUME debouncer' = "checking", debouncer # "checking" PROVE pending > analysed
    OBVIOUS
  <2>1. BeginCheck
    BY <1>1 DEF Next, vars, Browser, ReadPump, Debouncer, WritePump, BrowserSendsCheck, BrowserSends,
                BrowserSendsOther, BrowserGoes, ReadCheck, Reads, Drain, Refill, ReadAction,
                ReadInvalid, ReadFails, Unregister, TakeCheck, EndCheck, DebouncerExits,
                TimerExpires, TakeMessage, Writes, WriterExits, debouncing
  <2>2. analysed < pending /\ pending' = pending
    BY <1>1, <2>1 DEF IInv, DebounceOrder, Awaiting, BeginCheck
  <2> QED
    BY <1>1, <2>2, Numbers DEF IInv
<1> QED
  BY <1>1, Invariant, PTL DEF Spec, ChecksInOrder

\* The browser never gets the result of an older check after that of a later one.
THEOREM ResultOrderKept == Spec => ResultsInOrder
<1>1. ASSUME IInv, [Next]_vars PROVE [got' >= got]_vars
  <2>1. got' = got \/ (writing.kind = "check_result" /\ got' = writing.check)
    <3>1. CASE Writes
      BY <3>1, WritesGot
    <3>2. CASE ~Writes
      BY <1>1, <3>2 DEF Next, vars, Browser, ReadPump, Debouncer, WritePump, BrowserSendsCheck,
                BrowserSends, BrowserSendsOther, BrowserGoes, ReadCheck, Reads, Drain, Refill,
                ReadAction, ReadInvalid, ReadFails, Unregister, TakeCheck, BeginCheck, EndCheck,
                DebouncerExits, TimerExpires, TakeMessage, WriterExits, network, pumping
    <3> QED
      BY <3>1, <3>2
  <2>2. got \in Nat /\ (writing.kind = "check_result" => got <= writing.check /\ writing.check \in Nat)
    BY <1>1, SentAssumption, Numbers DEF IInv, ResultOrder
  <2> QED
    BY <2>1, <2>2
<1> QED
  BY <1>1, Invariant, PTL DEF Spec, ResultsInOrder
=============================================================================
