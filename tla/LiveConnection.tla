--------------------------- MODULE LiveConnection ---------------------------
(***************************************************************************)
(* One WebSocket connection of internal/transport/ws/handler_live.go: the  *)
(* read pump (the handler's own goroutine), the debounce goroutine and the *)
(* write pump, with the channels checkCh, client.send and client.done      *)
(* between them, the debounce timer, and the browser at the other end.     *)
(*                                                                         *)
(* A check is named by its place in the order in which the browser sent    *)
(* the checks: that is all the connection's promises depend on.            *)
(***************************************************************************)
EXTENDS Integers, Sequences

CONSTANTS SendCap,    \* capacity of client.send (64)
          MaxSent     \* bound on the messages the browser sends

ASSUME CapAssumption == SendCap \in Nat \ {0}
ASSUME SentAssumption == MaxSent \in Nat

VARIABLES
  inbox,        \* messages on the wire, not yet read
  sent,         \* how many the browser sent
  checks,       \* how many of them were checks
  browser,      \* "here", or "gone": closed, crashed or unreachable
  got,          \* the check whose result the browser received last
  conn,         \* the server's end: "open", or "closed" by conn.Close()
  registered,   \* the client is in hub.clients
  done,         \* client.done is closed
  reader,       \* where the read pump is
  held,         \* the check in its hands
  checkCh,      \* the debounce channel, of capacity 1
  debouncer,    \* where the debounce goroutine is
  pending, timer, \* its check and its timer
  send,         \* client.send
  writer, writing, \* where the write pump is, and what it writes
  lastRead,     \* ghost: the last check the read pump read
  analysed      \* ghost: the last check runCheck finished

network == <<inbox, sent, checks, browser, got>>
reading == <<reader, held, lastRead>>
debouncing == <<debouncer, pending, timer, analysed>>
pumping == <<writer, writing, got>>
lifetime == <<conn, registered, done>>
vars == <<inbox, sent, checks, browser, got, conn, registered, done, reader,
          held, checkCh, debouncer, pending, timer, send, writer, writing,
          lastRead, analysed>>

Ack == [kind |-> "ack"]
Result(n) == [kind |-> "check_result", check |-> n]
Message == [kind : {"ack"}] \cup [kind : {"check_result"}, check : 1 .. MaxSent]
Request == [kind : {"check"}, check : 1 .. MaxSent]
             \cup [kind : {"action", "invalid", "oversized"}]

\* sendJSON: queue the message, or drop it when the buffer is full.
sendJSON(m) == send' = IF Len(send) < SendCap THEN Append(send, m) ELSE send

-----------------------------------------------------------------------------
\* The browser

BrowserSends(m) ==
  /\ browser = "here" /\ conn = "open" /\ sent < MaxSent
  /\ inbox' = Append(inbox, m)
  /\ sent' = sent + 1
  /\ UNCHANGED <<browser, got, lifetime, reading, checkCh, debouncing, send,
                 writer, writing>>

BrowserSendsCheck ==
  /\ BrowserSends([kind |-> "check", check |-> checks + 1])
  /\ checks' = checks + 1

\* accept, reject and applyAll; something that is none of the messages; or
\* more than the read limit.
BrowserSendsOther ==
  /\ \E k \in {"action", "invalid", "oversized"} : BrowserSends([kind |-> k])
  /\ UNCHANGED checks

BrowserGoes ==
  /\ browser = "here"
  /\ browser' = "gone"
  /\ UNCHANGED <<inbox, sent, checks, got, lifetime, reading, checkCh,
                 debouncing, send, writer, writing>>

-----------------------------------------------------------------------------
\* The read pump

\* ReadMessage returns the next message.
Reads(kind) ==
  /\ reader = "reading" /\ inbox # << >> /\ Head(inbox).kind = kind
  /\ inbox' = Tail(inbox)
  /\ UNCHANGED <<sent, checks, browser, lifetime, debouncing, pumping>>

\* A slip: the new check is dropped, not the one that waits.
ReadCheckIfRoom ==
  /\ Reads("check")
  /\ lastRead' = Head(inbox).check
  /\ checkCh' = IF checkCh = << >> THEN <<Head(inbox).check>> ELSE checkCh
  /\ UNCHANGED <<reader, held, send>>

\* The select of a check: into the channel, or on to taking out its occupant.
ReadCheck ==
  /\ Reads("check")
  /\ lastRead' = Head(inbox).check
  /\ \/ /\ checkCh = << >>
        /\ checkCh' = <<Head(inbox).check>>
        /\ UNCHANGED <<reader, held>>
     \/ /\ checkCh # << >>
        /\ reader' = "draining" /\ held' = Head(inbox).check
        /\ UNCHANGED checkCh
  /\ UNCHANGED send

\* <-checkCh, which waits while the channel is empty.
Drain ==
  /\ reader = "draining" /\ checkCh # << >>
  /\ checkCh' = << >>
  /\ reader' = "refilling"
  /\ UNCHANGED <<held, lastRead, network, lifetime, debouncing, send, writer, writing>>

Refill ==
  /\ reader = "refilling" /\ checkCh = << >>
  /\ checkCh' = <<held>>
  /\ reader' = "reading" /\ held' = 0
  /\ UNCHANGED <<lastRead, network, lifetime, debouncing, send, writer, writing>>

\* handleAccept, handleReject, handleApplyAll: one ack each.
ReadAction ==
  /\ Reads("action")
  /\ sendJSON(Ack)
  /\ UNCHANGED <<reading, checkCh>>

ReadInvalid == Reads("invalid") /\ UNCHANGED <<reading, checkCh, send>>

\* ReadMessage fails: a close frame, a broken connection, the deadline that
\* only pongs extend, the read limit, or the write pump having closed the
\* connection.
NothingToRead ==
  \/ conn = "closed"
  \/ browser = "gone" /\ inbox = << >>
  \/ inbox # << >> /\ Head(inbox).kind = "oversized"

\* A slip: done is never closed.
ReadFailsSilently ==
  /\ reader = "reading" /\ NothingToRead
  /\ reader' = "leaving"
  /\ UNCHANGED <<held, lastRead, network, lifetime, checkCh, debouncing, send,
                 writer, writing>>

ReadFails ==
  /\ reader = "reading" /\ NothingToRead
  /\ done' = TRUE
  /\ reader' = "leaving"
  /\ UNCHANGED <<held, lastRead, network, conn, registered, checkCh,
                 debouncing, send, writer, writing>>

Unregister ==
  /\ reader = "leaving"
  /\ registered' = FALSE /\ conn' = "closed"
  /\ reader' = "returned"
  /\ UNCHANGED <<held, lastRead, network, done, checkCh, debouncing, send,
                 writer, writing>>

-----------------------------------------------------------------------------
\* The debounce goroutine

\* A slip: the timer is not reset.
TakeCheckOnly ==
  /\ debouncer = "select" /\ checkCh # << >>
  /\ pending' = Head(checkCh) /\ checkCh' = << >>
  /\ UNCHANGED <<debouncer, timer, analysed, network, lifetime, reading, send,
                 writer, writing>>

\* case p := <-checkCh.  Reset discards a firing not yet received.
TakeCheck ==
  /\ debouncer = "select" /\ checkCh # << >>
  /\ pending' = Head(checkCh) /\ checkCh' = << >>
  /\ timer' = "running"
  /\ UNCHANGED <<debouncer, analysed, network, lifetime, reading, send, writer, writing>>

TimerExpires ==
  /\ timer = "running" /\ timer' = "expired"
  /\ UNCHANGED <<debouncer, pending, analysed, network, lifetime, reading,
                 checkCh, send, writer, writing>>

\* A slip: the timer's channel stays readable.
BeginCheckAgain ==
  /\ debouncer = "select" /\ timer = "expired"
  /\ debouncer' = "checking"
  /\ UNCHANGED <<timer, pending, analysed, network, lifetime, reading, checkCh,
                 send, writer, writing>>

\* case <-timer.C: runCheck begins, and nothing is received until it ends.
BeginCheck ==
  /\ debouncer = "select" /\ timer = "expired"
  /\ timer' = "stopped" /\ debouncer' = "checking"
  /\ UNCHANGED <<pending, analysed, network, lifetime, reading, checkCh, send,
                 writer, writing>>

\* runCheck ends: with a check_result, or with an error that is only logged.
EndCheck ==
  /\ debouncer = "checking"
  /\ debouncer' = "select" /\ analysed' = pending
  /\ sendJSON(Result(pending)) \/ UNCHANGED send
  /\ UNCHANGED <<pending, timer, network, lifetime, reading, checkCh, writer, writing>>

DebouncerExits ==
  /\ debouncer = "select" /\ done
  /\ debouncer' = "exited"
  /\ UNCHANGED <<pending, timer, analysed, network, lifetime, reading, checkCh,
                 send, writer, writing>>

-----------------------------------------------------------------------------
\* The write pump

\* A slip: the newest message first.
TakeNewest ==
  /\ writer = "select" /\ send # << >>
  /\ writing' = send[Len(send)] /\ send' = SubSeq(send, 1, Len(send) - 1)
  /\ writer' = "writing"
  /\ UNCHANGED <<network, lifetime, reading, checkCh, debouncing>>

TakeMessage ==
  /\ writer = "select" /\ send # << >>
  /\ writing' = Head(send) /\ send' = Tail(send)
  /\ writer' = "writing"
  /\ UNCHANGED <<network, lifetime, reading, checkCh, debouncing>>

\* WriteMessage succeeds; whether the browser is there to receive is another
\* matter.
Writes ==
  /\ writer = "writing" /\ conn = "open"
  /\ writer' = "select" /\ writing' = Ack
  /\ got' = IF browser = "here" /\ writing.kind = "check_result"
            THEN writing.check ELSE got
  /\ UNCHANGED <<inbox, sent, checks, browser, lifetime, reading, checkCh,
                 debouncing, send>>

\* A message or a ping cannot be written, or the connection is done: the pump
\* returns, and its deferred Close closes the connection.
WriterExits ==
  /\ \/ writer = "writing"
     \/ writer = "select" /\ (browser = "gone" \/ conn = "closed" \/ done)
  /\ writer' = "exited" /\ writing' = Ack /\ conn' = "closed"
  /\ UNCHANGED <<network, registered, done, reading, checkCh, debouncing, send>>

-----------------------------------------------------------------------------

Init ==
  /\ inbox = << >> /\ sent = 0 /\ checks = 0 /\ browser = "here" /\ got = 0
  /\ conn = "open" /\ registered = TRUE /\ done = FALSE
  /\ reader = "reading" /\ held = 0 /\ lastRead = 0
  /\ checkCh = << >> /\ send = << >>
  /\ debouncer = "select" /\ pending = 0 /\ timer = "stopped" /\ analysed = 0
  /\ writer = "select" /\ writing = Ack

Browser == BrowserSendsCheck \/ BrowserSendsOther \/ BrowserGoes
ReadPump == ReadCheck \/ Drain \/ Refill \/ ReadAction \/ ReadInvalid
              \/ ReadFails \/ Unregister
Debouncer == TakeCheck \/ BeginCheck \/ EndCheck \/ DebouncerExits
WritePump == TakeMessage \/ Writes \/ WriterExits

Next == Browser \/ ReadPump \/ Debouncer \/ TimerExpires \/ WritePump

Spec == Init /\ [][Next]_vars

\* The Go scheduler runs every goroutine that can run, and a timer expires.
\* Nothing is assumed of the browser.
Fairness == /\ WF_vars(ReadPump) /\ WF_vars(Debouncer) /\ WF_vars(WritePump)
            /\ WF_vars(TimerExpires)

FairSpec == Spec /\ Fairness

-----------------------------------------------------------------------------
\* Every variable holds what its Go declaration allows, and no channel holds
\* more than its capacity.
TypeOK ==
  /\ sent \in 0 .. MaxSent /\ checks \in 0 .. sent
  /\ inbox \in Seq(Request) /\ browser \in {"here", "gone"}
  /\ conn \in {"open", "closed"} /\ registered \in BOOLEAN /\ done \in BOOLEAN
  /\ reader \in {"reading", "draining", "refilling", "leaving", "returned"}
  /\ checkCh \in Seq(1 .. MaxSent) /\ Len(checkCh) <= 1
  /\ debouncer \in {"select", "checking", "exited"}
  /\ timer \in {"stopped", "running", "expired"}
  /\ writer \in {"select", "writing", "exited"} /\ writing \in Message
  /\ send \in Seq(Message) /\ Len(send) <= SendCap
  /\ {got, held, pending, lastRead, analysed} \subseteq 0 .. MaxSent

\* Where a check that was read is kept until runCheck takes it: in the read
\* pump's hands, in the channel, or with the debounce goroutine.
InHand == reader \in {"draining", "refilling"}
Queued(n) == \E i \in 1 .. Len(checkCh) : checkCh[i] = n
Awaiting == timer # "stopped" \/ debouncer = "checking"

\* Of all the checks read, the last is never lost: it is still on its way to
\* runCheck or has been through it, as long as the debounce goroutine lives.
LatestKept ==
  (lastRead # 0 /\ debouncer # "exited") =>
     \/ InHand /\ held = lastRead
     \/ Queued(lastRead)
     \/ Awaiting /\ pending = lastRead
     \/ analysed = lastRead

\* runCheck never goes back: it runs each check at most once and none after
\* a later one, though the channel's occupant is taken out and replaced while
\* the debounce goroutine reads it.
ChecksInOrder ==
  [][(debouncer' = "checking" /\ debouncer # "checking") => pending > analysed]_vars

\* The browser never receives the result of an older check after that of a
\* later one.
ResultsInOrder == [][got' >= got]_vars

\* The read pump took a check because the channel was full and, before it
\* drained the channel, the debounce goroutine did: no one can fill it again.
Wedged == reader = "draining" /\ checkCh = << >>

\* The last check read is run, unless a later one is read or the connection
\* ends; or the read pump wedges.
LatestChecked ==
  \A n \in 1 .. MaxSent :
    lastRead = n ~> (analysed = n \/ lastRead > n \/ done \/ Wedged)

\* When the browser goes away the hub forgets the client and all three
\* goroutines end; or the read pump wedges.
Disconnects ==
  browser = "gone" ~>
    \/ /\ ~registered /\ conn = "closed"
       /\ reader = "returned" /\ debouncer = "exited" /\ writer = "exited"
    \/ Wedged

\* What the protocol document says of a check: "check / analyze" asks for the
\* analysis of a text after a debounce, and "check_result" brings it (SPEC.md,
\* the messages of /ws/live).  The last check sent is analysed, unless the
\* connection ends.
EveryLastCheckRuns ==
  \A n \in 1 .. MaxSent :
    lastRead = n ~> (analysed = n \/ lastRead > n \/ done)
=============================================================================
