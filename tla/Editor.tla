------------------------------- MODULE Editor -------------------------------
(***************************************************************************)
(* The editor page: what the user types, what the server found in some     *)
(* earlier text, the fixes the user takes before the server answers, and   *)
(* the connection that comes and goes (frontend/src/app/page.tsx,          *)
(* lib/store.ts, lib/api.ts, lib/client-engine.ts).                        *)
(*                                                                         *)
(* A text is one paragraph, a sequence of characters without punctuation,  *)
(* and rules flag single characters: a flag's anchor is the character and  *)
(* which copy of it.  A handler and the effects React runs after it are    *)
(* one step.  The server is what the page sees of it: it forgets a check   *)
(* when a newer one comes, and answers in order.                           *)
(***************************************************************************)
EXTENDS Integers, Sequences, SequencesExt, FiniteSets

CONSTANTS Texts,       \* what the user types
          AutoFix,     \* the flagged characters, and what each is fixed to
          ClientWords, \* those of them that client-side rules find too
          MaxAnswers   \* bound: answers on their way

Words == DOMAIN AutoFix

ASSUME WordsAssumption == /\ ClientWords \subseteq Words /\ IsFiniteSet(Words)
                          /\ \A w \in Words : AutoFix[w] \in Seq(Range(AutoFix[w]))

ASSUME TextsAssumption == << >> \in Texts /\ \A t \in Texts : t \in Seq(Range(t))

ASSUME MaxAnswersAssumption == MaxAnswers \in Nat \ {0}

VARIABLES text, flags,        \* the store's
          scored,             \* the flags its scores count
          patched,            \* history: a fix is in the text that no answer has seen yet
          rules,              \* the client rules have been fetched
          due,                \* the 500 ms timer of the next check runs
          page,               \* the page is shown: else the user looks at another
          socket, retry,      \* the socket, and the timer of the next try
          closing,            \* a socket the page has left behind is still closing
          status,             \* connectionStatus
          asked, answers      \* the last check the server got, and texts it has answered

store == <<text, flags, scored, patched, rules, due>>
wire == <<asked, answers>>
connection == <<page, socket, retry, closing, status>>
vars == <<store, wire, connection>>

-----------------------------------------------------------------------------
(* Anchors and flags *)

\* The two engines hash the same anchor in different ways: no flag of one has the
\* identity of a flag of the other.
FlagId(by, word, copy) == [by |-> by, word |-> word, copy |-> copy]

Copies(t, word) == {i \in DOMAIN t : t[i] = word}

\* The anchors of every copy of some characters.
Found(by, words, t) ==
    UNION {{FlagId(by, w, k) : k \in 0 .. Cardinality(Copies(t, w)) - 1} : w \in words}

NoPlace == 0  \* the span {from: 0, to: 0}

\* Where the anchor is in a text now.
anchorToSpan(t, id) ==
    LET at == {i \in Copies(t, id.word) : Cardinality({j \in Copies(t, id.word) : j < i}) = id.copy}
    IN  IF at = {} THEN NoPlace ELSE CHOOSE i \in at : TRUE

\* Flags whose anchor is gone are dropped when the user typed, and kept where they were
\* when a fix was applied.
reresolveFlags(fs, t, strict) ==
    [id \in {i \in DOMAIN fs : strict => anchorToSpan(t, i) # NoPlace} |->
        IF anchorToSpan(t, id) = NoPlace THEN fs[id]
        ELSE [fs[id] EXCEPT !.at = anchorToSpan(t, id)]]

\* Without its rules the client finds nothing.
runAllClientRules(t) == IF rules THEN Found("client", ClientWords, t) ELSE {}

\* What the client's rules find is added unless it is there.
WithTentative(fs, t) ==
    LET ids == runAllClientRules(t)
    IN  [id \in DOMAIN fs \cup ids |->
            IF id \in DOMAIN fs THEN fs[id]
            ELSE [status |-> "tentative", at |-> anchorToSpan(t, id)]]

Active(fs) == {id \in DOMAIN fs : fs[id].status # "rejected"}

\* The flags that are counted, if there are words to set them against.
Counted(fs, t) == IF \E i \in DOMAIN t : t[i] # " " THEN Active(fs) ELSE {}

\* The effects of a new text: the timer starts anew, the client's rules run and are scored.
\* Of an empty text there are none, and the scores stay.
TextEffects(t, fs) ==
    /\ text' = t
    /\ due' = (t # << >>)
    /\ IF t = << >> THEN flags' = fs /\ UNCHANGED scored
       ELSE /\ flags' = WithTentative(fs, t)
            /\ scored' = Counted(flags', t)

-----------------------------------------------------------------------------
(* Fixes *)

\* What is left once a deletion is tidied: no double space, none at either end.
cleanDelete(t) ==
    LET words == {i \in DOMAIN t : t[i] # " "}
        stays == {i \in DOMAIN t :
                    t[i] # " " \/ (i - 1 \in words /\ \E j \in words : i < j)}
    IN  [k \in 1 .. Cardinality(stays) |->
            t[CHOOSE i \in stays : Cardinality({j \in stays : j <= i}) = k]]

Replaced(t, at, fix) == SubSeq(t, 1, at - 1) \o fix \o SubSeq(t, at + 1, Len(t))

Tidy(t, deleted) == IF deleted THEN cleanDelete(t) ELSE t

\* A plausible slip: the first first.
FirstFirst(fs) ==
    {s \in SetToSeqs(Active(fs)) : \A i, j \in DOMAIN s : i < j => fs[s[i]].at <= fs[s[j]].at}

\* applyAllAccepted sorts by position, the last first; of equals any order.
LastFirst(fs) ==
    {s \in SetToSeqs(Active(fs)) : \A i, j \in DOMAIN s : i < j => fs[s[i]].at >= fs[s[j]].at}

\* Each flag in turn, if its span still is within the text.
ApplyInTurn(t, fs, s) ==
    LET after[k \in 0 .. Len(s)] ==
            IF k = 0 THEN [text |-> t, done |-> {}, deleted |-> FALSE]
            ELSE LET r == after[k - 1]
                     fix == AutoFix[s[k].word]
                 IN  IF fs[s[k]].at \notin DOMAIN r.text THEN r
                     ELSE [text |-> Replaced(r.text, fs[s[k]].at, fix),
                           done |-> r.done \cup {s[k]},
                           deleted |-> r.deleted \/ fix = << >>]
    IN  after[Len(s)]

Without(fs, ids) == [id \in DOMAIN fs \ ids |-> fs[id]]

-----------------------------------------------------------------------------
(* The user *)

\* A newer check makes the server forget one it has not begun; nothing is sent unless the
\* socket is open, and nothing is kept to be sent later.
SendCheck(t) == asked' = IF socket = "open" /\ t # << >> THEN t ELSE asked

Type(t) ==
    /\ page /\ t # text
    /\ TextEffects(t, reresolveFlags(flags, t, TRUE))
    /\ patched' = FALSE
    /\ UNCHANGED <<rules, wire, connection>>

\* handleAccept and handleApplyAll: the fixed text is checked at once, and again by the timer.
Patch(t, deleted, done) ==
    LET new == Tidy(t, deleted)
        fs == reresolveFlags(Without(flags, done), new, FALSE)
    IN  /\ IF new = text THEN flags' = fs /\ UNCHANGED <<text, due, scored>>
           ELSE TextEffects(new, fs)
        /\ SendCheck(new)
        /\ patched' = TRUE
        /\ UNCHANGED <<rules, answers, connection>>

\* The buttons of a flag's card, which stay when it has been rejected.
Actionable(id) == page /\ flags[id].status \in {"tentative", "confirmed", "rejected"}

\* Any flag that is shown in the text, and whose fix still fits it.
Accept(id) ==
    /\ Actionable(id) /\ flags[id].at \in DOMAIN text
    /\ Patch(Replaced(text, flags[id].at, AutoFix[id.word]), AutoFix[id.word] = << >>, {id})

ApplyAll ==
    /\ page /\ Active(flags) # {}
    /\ \E s \in LastFirst(flags) :
           LET r == ApplyInTurn(text, flags, s) IN Patch(r.text, r.deleted, r.done)

\* The server is told, and answers nothing the page listens to.
Reject(id) ==
    /\ Actionable(id) /\ id \in Active(flags)
    /\ flags' = [flags EXCEPT ![id].status = "rejected"]
    /\ UNCHANGED <<text, scored, patched, rules, due, wire, connection>>

\* The user goes to another page: the timers stop, the socket is closed, and its onclose is
\* yet to come.  The store stays.  (Bound: one socket closing at a time.)
Leave ==
    /\ page /\ ~closing
    /\ page' = FALSE /\ due' = FALSE
    /\ closing' = (socket # "none")
    /\ socket' = "none" /\ retry' = FALSE /\ status' = "offline"
    /\ asked' = << >> /\ answers' = << >>
    /\ UNCHANGED <<text, flags, scored, patched, rules>>

\* Back on the page: a new connection, and the effects of the text that is there.
Return ==
    /\ ~page
    /\ page' = TRUE /\ socket' = "connecting"
    /\ TextEffects(text, flags)
    /\ UNCHANGED <<patched, rules, wire, retry, closing, status>>

-----------------------------------------------------------------------------
(* Timers, answers and the connection *)

FetchRules ==
    /\ page /\ ~rules
    /\ rules' = TRUE
    /\ UNCHANGED <<text, flags, scored, patched, due, wire, connection>>

\* The timer: the check is sent if the socket is open, and never if it is not.
Fire ==
    /\ due
    /\ due' = FALSE
    /\ SendCheck(text)
    /\ UNCHANGED <<text, flags, scored, patched, rules, answers, connection>>

\* The server has run the check.
Answer ==
    /\ asked # << >> /\ Len(answers) < MaxAnswers
    /\ answers' = Append(answers, asked) /\ asked' = << >>
    /\ UNCHANGED <<store, connection>>

\* A plausible slip: what the user rejected is confirmed like the rest.
MergedAnew(fs, t) ==
    LET ids == Found("server", Words, t)
    IN  [id \in ids \cup {i \in DOMAIN fs : fs[i].status = "rejected"} |->
            IF id \in ids THEN [status |-> "confirmed", at |-> anchorToSpan(t, id)] ELSE fs[id]]

\* A plausible slip: only confirmed flags give way to the answer.
MergedKeepsTentative(fs, t) ==
    LET ids == Found("server", Words, t)
    IN  [id \in ids \cup {i \in DOMAIN fs : fs[i].status # "confirmed"} |->
            IF id \notin ids THEN fs[id]
            ELSE [status |-> IF id \in DOMAIN fs /\ fs[id].status = "rejected"
                             THEN "rejected" ELSE "confirmed",
                  at |-> anchorToSpan(t, id)]]

\* The answer's flags, what the user rejected staying rejected; of the others only the
\* rejected ones are left.
mergeServerFlags(fs, t) ==
    LET ids == Found("server", Words, t)
    IN  [id \in ids \cup {i \in DOMAIN fs : fs[i].status = "rejected"} |->
            IF id \notin ids THEN fs[id]
            ELSE [status |-> IF id \in DOMAIN fs /\ fs[id].status = "rejected"
                             THEN "rejected" ELSE "confirmed",
                  at |-> anchorToSpan(t, id)]]

\* A plausible slip: an answer is taken whatever text it is of.
ReceiveStale ==
    /\ answers # << >>
    /\ answers' = Tail(answers)
    /\ LET t == Head(answers)
       IN  /\ flags' = [id \in DOMAIN mergeServerFlags(flags, t) |->
                          [mergeServerFlags(flags, t)[id] EXCEPT !.at = anchorToSpan(text, id)]]
           /\ scored' = Found("server", Words, t)
           /\ patched' = FALSE
    /\ UNCHANGED <<text, rules, due, asked, connection>>

\* A check_result; that of another text is dropped.
Receive ==
    /\ answers # << >>
    /\ answers' = Tail(answers)
    /\ IF Head(answers) # text THEN UNCHANGED <<flags, scored, patched>>
       ELSE /\ flags' = mergeServerFlags(flags, text)
            /\ scored' = Found("server", Words, text)
            /\ patched' = FALSE
    /\ UNCHANGED <<text, rules, due, asked, connection>>

Open ==
    /\ socket = "connecting"
    /\ socket' = "open" /\ status' = "online"
    /\ UNCHANGED <<store, wire, page, retry, closing>>

\* The socket fails or is closed: what was on its way is lost.
Close ==
    /\ socket # "none"
    /\ socket' = "none" /\ status' = "reconnecting" /\ retry' = TRUE
    /\ asked' = << >> /\ answers' = << >>
    /\ UNCHANGED <<store, page, closing>>

\* A plausible slip: onclose tries again although the page has disconnected.
CloseLateAndRetry ==
    /\ closing
    /\ closing' = FALSE /\ status' = "reconnecting" /\ retry' = TRUE
    /\ UNCHANGED <<store, wire, page, socket>>

\* The onclose of a socket the page has left: it says so, and tries no more.
CloseLate ==
    /\ closing
    /\ closing' = FALSE /\ status' = "reconnecting"
    /\ UNCHANGED <<store, wire, page, socket, retry>>

Reconnect ==
    /\ retry
    /\ retry' = FALSE /\ socket' = "connecting"
    /\ UNCHANGED <<store, wire, page, closing, status>>

-----------------------------------------------------------------------------
Init ==
    /\ text = << >> /\ flags = << >> /\ scored = {} /\ patched = FALSE
    /\ rules = FALSE /\ due = FALSE /\ page = TRUE
    /\ socket = "connecting" /\ retry = FALSE /\ closing = FALSE /\ status = "offline"
    /\ asked = << >> /\ answers = << >>

Next ==
    \/ \E t \in Texts : Type(t)
    \/ \E id \in DOMAIN flags : Accept(id) \/ Reject(id)
    \/ ApplyAll \/ Leave \/ Return
    \/ FetchRules \/ Fire \/ Answer \/ Receive
    \/ Open \/ Close \/ CloseLate \/ Reconnect

\* Timers fire, the server answers what it is asked last, and messages arrive; nobody has to
\* type, and no socket has to open.
Fairness == WF_vars(Fire) /\ WF_vars(Answer) /\ WF_vars(Receive)

Spec == Init /\ [][Next]_vars /\ Fairness

-----------------------------------------------------------------------------
(* Properties *)

\* The store, the connection and the wire have their types.
TypeOK ==
    /\ \A id \in DOMAIN flags :
           /\ id.word \in Words /\ id.copy \in Nat /\ id.by \in {"client", "server"}
           /\ flags[id].status \in {"tentative", "confirmed", "rejected"} /\ flags[id].at \in Nat
           /\ flags[id].status = "tentative" => id.by = "client"
    /\ {rules, due, page, retry, closing, patched} \subseteq BOOLEAN
    /\ socket \in {"none", "connecting", "open"}
    /\ status \in {"offline", "online", "reconnecting"}
    /\ Len(answers) <= MaxAnswers

Marks(id) == flags[id].at \in DOMAIN text /\ text[flags[id].at] = id.word

\* Answers to older texts, edits and reconnections never leave a highlight on other characters
\* than its flag is about: what Accept replaces is what the rule found.  The exception is the
\* time between a fix and the answer to the fixed text.
HighlightsTrue == ~patched => \A id \in Active(flags) : Marks(id)

\* "Keep remaining highlights valid until the next WS check_result" (store.ts:339).
HighlightsStayValid == \A id \in Active(flags) : Marks(id)

\* The text with every fix put where its flag is, all at once.
AllAtOnce ==
    LET on(i) == {id \in Active(flags) : flags[id].at = i}
    IN  FlattenSeq([i \in DOMAIN text |->
            IF on(i) = {} THEN <<text[i]>> ELSE AutoFix[(CHOOSE id \in on(i) : TRUE).word]])

\* "Apply all" puts every fix where its flag is when the button is pressed, although each
\* one makes the text longer or shorter under the spans of the others, and although after
\* earlier fixes some spans may lie outside the text.  Of two flags on one character the
\* code applies both, the second to what the first has put there; see the README.
AllFixedWhereMarked ==
    (\A id, other \in Active(flags) : flags[id].at = flags[other].at => id = other) =>
        \A s \in LastFirst(flags) : ApplyInTurn(text, flags, s).text = AllAtOnce

\* What the user has rejected is not raised again under its identity by any answer, edit,
\* rule or return to the page: it stays rejected as long as the store has it.  (A fix may
\* give the identity to another copy of the character.)
RejectedStay ==
    [][(patched' => text' = text) =>
           \A id \in DOMAIN flags \cap DOMAIN flags' :
               flags[id].status = "rejected" => flags'[id].status = "rejected"]_vars

\* The page is never without a socket and without a timer for the next, and a page the user
\* has left has neither; "online" is shown only over an open socket.
ConnectionTended ==
    /\ page <=> (socket # "none" \/ retry)
    /\ status = "online" => socket = "open"

\* The flags of a text are those the server found, and its scores are theirs.
ShownAsAnswered(t) ==
    /\ text = t
    /\ Found("server", Words, t) \subseteq DOMAIN flags
    /\ \A id \in Active(flags) : id \in Found("server", Words, t) /\ flags[id].status = "confirmed"
    /\ scored = Found("server", Words, t)

\* A text whose timer runs over an open connection is shown as the server sees it, unless the
\* user changes it, or the connection breaks, first: later answers, late answers to earlier
\* texts and the fixes before it do not get in the way.
LastCheckShown ==
    \A t \in Texts : (due /\ socket = "open" /\ text = t)
                        ~> (ShownAsAnswered(t) \/ text # t \/ socket # "open")
=============================================================================
