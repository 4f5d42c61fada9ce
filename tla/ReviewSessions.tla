--------------------------- MODULE ReviewSessions ---------------------------
(***************************************************************************)
(* The use-cases behind the live connections, on the state they share: the *)
(* analysis cache, the session store and the Flag objects, which both hold *)
(* by pointer.  AnalyzeText runs in a connection's debounce goroutine (and *)
(* for HTTP requests), accept, reject and apply in its read pump; neither  *)
(* takes a lock on a Session, so their steps interleave.                   *)
(*                                                                         *)
(* A connection and its session ID are the same thing here: Register makes *)
(* one ID per connection.  The rules never change, so neither does the     *)
(* configHash, and the cache is keyed by the text.  A span is abstracted   *)
(* to what a fix does with it: see Replace (FixApplier models the spans).  *)
(***************************************************************************)
EXTENDS Integers, FiniteSets

CONSTANTS Client,      \* connections
          Http,        \* POST /api/analyze requests
          Text,
          FlagId,
          Engine,      \* [Text -> SUBSET FlagId]: what the rule engine finds
          Plugin,      \* [Text -> SUBSET FlagId]: what plugins find, if they answer
          MaxRuns      \* bound on the analyses computed

ASSUME FoundAssumption == /\ Engine \in [Text -> SUBSET FlagId]
                          /\ Plugin \in [Text -> SUBSET FlagId]
ASSUME ActorAssumption == Client \cap Http = {}
ASSUME RunsAssumption == MaxRuns \in Nat

Analyser == Client \cup Http

\* A *model.Flag: the run that made it tells it from others of the same ID.
Flag == [id : FlagId, run : 1 .. MaxRuns]
FlagState == {"raised", "accepted", "rejected", "applied"}

VARIABLES
  conn,       \* each connection: "new", "open" or "closed"
  runs,       \* how many analyses were computed
  origin,     \* ghost: who computed each, and for which text
  state,      \* the state of every Flag made so far
  cache,      \* text -> the Flags of its cached Analysis
  sessions,   \* MemoryStore.data: session ID -> [text, flags]
  job,        \* each analyser's AnalyzeText.Execute
  fixing      \* each read pump's ApplyFix.Execute

vars == <<conn, runs, origin, state, cache, sessions, job, fixing>>

Idle == [stage |-> "idle"]

Made == DOMAIN state
FlagsOf(c) == sessions[c].flags
HasFlag(c, id) == c \in DOMAIN sessions /\ \E f \in FlagsOf(c) : f.id = id
FlagNamed(c, id) == CHOOSE f \in FlagsOf(c) : f.id = id

-----------------------------------------------------------------------------
\* Connections

Connect(c) ==
  /\ conn[c] = "new"
  /\ conn' = [conn EXCEPT ![c] = "open"]
  /\ UNCHANGED <<runs, origin, state, cache, sessions, job, fixing>>

\* The read pump returns: done is closed and the client unregistered.
Disconnect(c) ==
  /\ conn[c] = "open" /\ fixing[c] = Idle
  /\ conn' = [conn EXCEPT ![c] = "closed"]
  /\ UNCHANGED <<runs, origin, state, cache, sessions, job, fixing>>

\* The debounce goroutine sees done; until then it may start another check.
DebouncerExits(c) ==
  /\ conn[c] = "closed" /\ job[c] = Idle
  /\ job' = [job EXCEPT ![c] = [stage |-> "exited"]]
  /\ UNCHANGED <<conn, runs, origin, state, cache, sessions, fixing>>

-----------------------------------------------------------------------------
\* AnalyzeText.Execute

Starts(a) == job[a] = Idle /\ (a \in Client => conn[a] # "new")

\* A slip, and a tempting repair: the cached Flags are put into a session too.
CacheHitFillsSession(a, t) ==
  /\ Starts(a) /\ t \in DOMAIN cache
  /\ sessions' = IF a \in Http THEN sessions
                 ELSE [d \in DOMAIN sessions \cup {a} |->
                         IF d = a THEN [text |-> t, flags |-> cache[t]]
                         ELSE sessions[d]]
  /\ UNCHANGED <<conn, runs, origin, state, cache, job, fixing>>

\* A hit returns the shared analysis before any session is looked for, and so leaves
\* no trace here: a connection whose first text is a hit has no session to act on.
CacheHit(a, t) ==
  /\ Starts(a) /\ t \in DOMAIN cache
  /\ UNCHANGED <<conn, runs, origin, state, cache, sessions, job, fixing>>

CacheMiss(a, t) ==
  /\ Starts(a) /\ t \notin DOMAIN cache /\ runs < MaxRuns
  /\ job' = [job EXCEPT ![a] = [stage |-> "detecting", text |-> t]]
  /\ UNCHANGED <<conn, runs, origin, state, cache, sessions, fixing>>

\* A slip: the plugins' flags are assigned to allFlags, not appended.
FoundAssigned(t, more) == IF more = {} THEN Engine[t] ELSE more

Found(t, more) == Engine[t] \cup more

\* The engine's flags and those of the plugins that answered become the
\* cached analysis; then the session is looked up, if there is one to update.
Detect(a) ==
  /\ job[a].stage = "detecting" /\ runs < MaxRuns
  /\ \E more \in SUBSET Plugin[job[a].text] :
       LET t == job[a].text
           new == {[id |-> i, run |-> runs + 1] : i \in Found(t, more)}
       IN /\ runs' = runs + 1
          /\ origin' = [r \in 1 .. runs + 1 |->
                          IF r <= runs THEN origin[r] ELSE [by |-> a, text |-> t]]
          /\ state' = [f \in Made \cup new |-> IF f \in new THEN "raised" ELSE state[f]]
          /\ cache' = [u \in DOMAIN cache \cup {t} |-> IF u = t THEN new ELSE cache[u]]
          /\ job' = [job EXCEPT ![a] =
                       [stage |-> IF a \in Http THEN "replying"
                                  ELSE IF a \in DOMAIN sessions THEN "updating"
                                  ELSE "creating",
                        text |-> t, flags |-> new, left |-> new]]
  /\ UNCHANGED <<conn, sessions, fixing>>

\* NewSession, AddFlag for each, SetScores: nobody sees it before Save.
CreateSession(c) ==
  /\ job[c].stage = "creating"
  /\ sessions' = [d \in DOMAIN sessions \cup {c} |->
                    IF d = c THEN [text |-> job[c].text, flags |-> job[c].flags]
                    ELSE sessions[d]]
  /\ job' = [job EXCEPT ![c] = Idle]
  /\ UNCHANGED <<conn, runs, origin, state, cache, fixing>>

\* One AddFlag into the map of the session others can reach.
AddFlag(c, f) ==
  /\ job[c].stage = "updating" /\ f \in job[c].left
  /\ sessions' = [sessions EXCEPT ![c].flags = {g \in @ : g.id # f.id} \cup {f}]
  /\ job' = [job EXCEPT ![c].left = @ \ {f}]
  /\ UNCHANGED <<conn, runs, origin, state, cache, fixing>>

\* SetScores, Save and the result: the session is already in the store.
FinishUpdate(a) ==
  /\ job[a].stage = "replying" \/ (job[a].stage = "updating" /\ job[a].left = {})
  /\ job' = [job EXCEPT ![a] = Idle]
  /\ UNCHANGED <<conn, runs, origin, state, cache, sessions, fixing>>

\* What the cache may do at any time: see AnalysisCache.
Forget(t) ==
  /\ t \in DOMAIN cache
  /\ cache' = [u \in DOMAIN cache \ {t} |-> cache[u]]
  /\ UNCHANGED <<conn, runs, origin, state, sessions, job, fixing>>

-----------------------------------------------------------------------------
\* AcceptRejectFlag.Execute and ApplyFix.Execute.  Where the session or the
\* flag is missing, or its state forbids the transition, they return an error
\* and change nothing.

\* A slip: a message is handled while the previous one still is.
HandlesAtOnce(c, id) == conn[c] = "open" /\ HasFlag(c, id)

Handles(c, id) == conn[c] = "open" /\ fixing[c] = Idle /\ HasFlag(c, id)

Accept(f) == state[f] = "raised" /\ state' = [state EXCEPT ![f] = "accepted"]

Reject(f) == state[f] = "raised" /\ state' = [state EXCEPT ![f] = "rejected"]

Apply(f) == state[f] \in {"raised", "accepted"}
            /\ state' = [state EXCEPT ![f] = "applied"]

AcceptOrReject(c, id) ==
  /\ Handles(c, id)
  /\ Accept(FlagNamed(c, id)) \/ Reject(FlagNamed(c, id))
  /\ UNCHANGED <<conn, runs, origin, cache, sessions, job, fixing>>

\* session.ApplyFlag
BeginFix(c, id) ==
  /\ Handles(c, id)
  /\ Apply(FlagNamed(c, id))
  /\ fixing' = [fixing EXCEPT ![c] = [stage |-> "applied", id |-> id]]
  /\ UNCHANGED <<conn, runs, origin, cache, sessions, job>>

\* The target is looked for anew, among the flags the session has by now.
PickTarget(c) ==
  /\ fixing[c].stage = "applied"
  /\ fixing' = [fixing EXCEPT ![c] =
                  IF HasFlag(c, fixing[c].id)
                  THEN [stage |-> "targeted", target |-> FlagNamed(c, fixing[c].id)]
                  ELSE Idle]
  /\ UNCHANGED <<conn, runs, origin, state, cache, sessions, job>>

\* The flags are copied for FixApplier.Apply, the target perhaps no longer among them.
CopyFlags(c) ==
  /\ fixing[c].stage = "targeted"
  /\ fixing' = [fixing EXCEPT ![c] =
                  [stage |-> "replacing", target |-> fixing[c].target, seen |-> FlagsOf(c)]]
  /\ UNCHANGED <<conn, runs, origin, state, cache, sessions, job>>

\* What FixApplier.Apply may return: the text and the flags as they were, for
\* a span that does not fit the text; or another text, without the target,
\* the rejected flags and those that overlapped.
Replace(c, text, flags) ==
  \/ text = sessions[c].text /\ flags = fixing[c].seen
  \/ /\ text \in Text
     /\ flags \in SUBSET {f \in fixing[c].seen \ {fixing[c].target} :
                            state[f] # "rejected"}

\* SetText and ReplaceFlags, with the flags copied before; then Save.
EndFix(c) ==
  /\ fixing[c].stage = "replacing"
  /\ \E t \in Text, kept \in SUBSET fixing[c].seen :
       /\ Replace(c, t, kept)
       /\ sessions' = [sessions EXCEPT ![c].text = t, ![c].flags = kept]
  /\ fixing' = [fixing EXCEPT ![c] = Idle]
  /\ UNCHANGED <<conn, runs, origin, state, cache, job>>

-----------------------------------------------------------------------------
\* The map of a session is written by the debounce goroutine while its read
\* pump reads it: the Go runtime may stop the process ("concurrent map read
\* and map write").  Everything was in memory and no connection survives; the
\* process is started again.
MapRace(c) ==
  /\ conn[c] = "open"
  /\ job[c].stage = "updating" /\ job[c].left # {}
  /\ conn' = [d \in Client |-> IF conn[d] = "open" THEN "closed" ELSE conn[d]]
  /\ job' = [a \in Analyser |-> IF a \in Client /\ conn[a] # "new"
                                THEN [stage |-> "exited"] ELSE Idle]
  /\ fixing' = [d \in Client |-> Idle]
  /\ state' = << >> /\ cache' = << >> /\ sessions' = << >>
  /\ UNCHANGED <<runs, origin>>

Init ==
  /\ conn = [c \in Client |-> "new"]
  /\ runs = 0 /\ origin = << >> /\ state = << >>
  /\ cache = << >> /\ sessions = << >>
  /\ job = [a \in Analyser |-> Idle] /\ fixing = [c \in Client |-> Idle]

Next ==
  \/ \E a \in Analyser : \/ \E t \in Text : CacheHit(a, t) \/ CacheMiss(a, t)
                         \/ Detect(a) \/ FinishUpdate(a)
  \/ \E c \in Client : \/ Connect(c) \/ Disconnect(c) \/ DebouncerExits(c)
                       \/ CreateSession(c) \/ \E f \in Flag : AddFlag(c, f)
                       \/ \E id \in FlagId : AcceptOrReject(c, id) \/ BeginFix(c, id)
                       \/ PickTarget(c) \/ CopyFlags(c) \/ EndFix(c) \/ MapRace(c)
  \/ \E t \in Text : Forget(t)

Spec == Init /\ [][Next]_vars

-----------------------------------------------------------------------------
Stages == {"idle", "detecting", "creating", "updating", "replying", "exited"}

\* The variables are well formed, and nothing refers to a Flag never made.
TypeOK ==
  /\ conn \in [Client -> {"new", "open", "closed"}]
  /\ runs \in 0 .. MaxRuns /\ origin \in [1 .. runs -> [by : Analyser, text : Text]]
  /\ state \in [Made -> FlagState] /\ Made \subseteq [id : FlagId, run : 1 .. runs]
  /\ DOMAIN cache \subseteq Text /\ \A t \in DOMAIN cache : cache[t] \subseteq Made
  /\ DOMAIN sessions \subseteq Client
  /\ \A c \in DOMAIN sessions : /\ FlagsOf(c) \subseteq Made
                                /\ sessions[c].text \in Text
  /\ \A a \in Analyser : job[a].stage \in Stages
  /\ \A c \in Client : fixing[c].stage \in {"idle", "applied", "targeted", "replacing"}

\* A session holds only Flags that its own connection's analyses made, though
\* the same objects are in the cache that every connection is served from.
OwnFlags ==
  \A c \in DOMAIN sessions : \A f \in FlagsOf(c) : origin[f.run].by = c

\* The fix that reaches the text is never that of a flag the user rejected,
\* whichever analysis replaces the flag between its transition and the fix.
RejectedNotFixed ==
  \A c \in Client : fixing[c].stage \in {"targeted", "replacing"} =>
                      state[fixing[c].target] \in {"raised", "applied"}

\* Whatever is forgotten and recomputed, and whoever asks: the analysis a text
\* is served from the cache has every flag the engine finds in it, and none
\* that belongs to another text.
CacheIsComplete ==
  \A t \in DOMAIN cache :
    LET ids == {f.id : f \in cache[t]}
    IN /\ Engine[t] \subseteq ids /\ ids \subseteq Engine[t] \cup Plugin[t]
       /\ \A f \in cache[t] : origin[f.run].text = t
=============================================================================
