------------------------ MODULE ReviewSessionsProofs ------------------------
(***************************************************************************)
(* What the use-cases keep for any number of connections, requests, texts  *)
(* and flags, and whatever the rules and the plugins find.                 *)
(***************************************************************************)
EXTENDS ReviewSessions, TLAPS

\* No two of some Flags have one ID: a session's map, and a copy of it, hold one for each.
OnePerId(flags) == \A f, g \in flags : f.id = g.id => f = g

Busy(a) == job[a].stage \in {"creating", "updating", "replying"}

-----------------------------------------------------------------------------
\* The invariant

Jobs == [stage : {"idle", "exited"}]
        \cup [stage : {"detecting"}, text : Text]
        \cup [stage : {"creating", "updating", "replying"}, text : Text,
              flags : SUBSET Flag, left : SUBSET Flag]

Fixes == [stage : {"idle"}]
         \cup [stage : {"applied"}, id : FlagId]
         \cup [stage : {"targeted"}, target : Flag]
         \cup [stage : {"replacing"}, target : Flag, seen : SUBSET Flag]

\* Actors, sessions and Flags have their types, and every Flag is of an analysis made.
Typed ==
  /\ conn \in [Client -> {"new", "open", "closed"}]
  /\ runs \in 0 .. MaxRuns /\ origin \in [1 .. runs -> [by : Analyser, text : Text]]
  /\ state \in [Made -> FlagState] /\ Made \subseteq [id : FlagId, run : 1 .. runs]
  /\ cache \in [DOMAIN cache -> SUBSET Made] /\ DOMAIN cache \subseteq Text
  /\ sessions \in [DOMAIN sessions -> [text : Text, flags : SUBSET Made]]
  /\ DOMAIN sessions \subseteq Client
  /\ job \in [Analyser -> Jobs] /\ fixing \in [Client -> Fixes]

\* An analysis under way holds Flags of its own, of different IDs.
OwnJob ==
  \A a \in Analyser : Busy(a) =>
    /\ job[a].left \subseteq job[a].flags /\ job[a].flags \subseteq Made
    /\ OnePerId(job[a].flags)
    /\ \A f \in job[a].flags : origin[f.run].by = a

\* What an analysis has still to put into the session is as it was raised: nobody
\* who fixes can have it, in the session or in a copy.
NotYetShared ==
  \A c \in Client :
    /\ job[c].stage = "creating" => c \notin DOMAIN sessions
    /\ job[c].stage = "updating" => c \in DOMAIN sessions
    /\ job[c].stage \in {"creating", "updating"} =>
         \A f \in job[c].left :
           /\ state[f] = "raised"
           /\ c \in DOMAIN sessions => f \notin FlagsOf(c)
           /\ fixing[c].stage = "replacing" => f \notin fixing[c].seen

OneInSession == \A c \in DOMAIN sessions : OnePerId(FlagsOf(c))

\* A fix under way: until the target is looked for, the session has no decided flag of
\* the ID but the applied one, whatever analysis has replaced it by.
FixUnderWay ==
  \A c \in Client :
    /\ fixing[c].stage \in {"applied", "targeted", "replacing"} => c \in DOMAIN sessions
    /\ fixing[c].stage = "applied" =>
         \A f \in FlagsOf(c) : f.id = fixing[c].id => state[f] \in {"raised", "applied"}
    /\ fixing[c].stage \in {"targeted", "replacing"} =>
         fixing[c].target \in Made /\ origin[fixing[c].target.run].by = c
    /\ fixing[c].stage = "replacing" =>
         /\ fixing[c].seen \subseteq Made /\ OnePerId(fixing[c].seen)
         /\ \A f \in fixing[c].seen : origin[f.run].by = c

Inv == /\ Typed /\ OwnJob /\ NotYetShared /\ OneInSession /\ FixUnderWay
       /\ OwnFlags /\ RejectedNotFixed /\ CacheIsComplete

-----------------------------------------------------------------------------
\* Flags and sessions

LEMMA Named ==
  ASSUME NEW c, NEW id, HasFlag(c, id)
  PROVE  c \in DOMAIN sessions /\ FlagNamed(c, id) \in FlagsOf(c) /\ FlagNamed(c, id).id = id
BY DEF HasFlag, FlagNamed

\* Every Flag in use is one that was made, by an analysis that is known.
LEMMA MadeByRun ==
  ASSUME Typed, NEW f \in Made
  PROVE  f.run \in 1 .. runs /\ f.id \in FlagId /\ f \in Flag /\ state[f] \in FlagState
<1>1. f \in [id : FlagId, run : 1 .. runs] /\ runs \in Nat /\ runs <= MaxRuns
  BY RunsAssumption DEF Typed
<1> QED
  BY <1>1, RunsAssumption DEF Typed, Flag

LEMMA InitInv == Init => Inv
<1> SUFFICES ASSUME Init PROVE Inv
  OBVIOUS
<1>1. DOMAIN state = {} /\ DOMAIN cache = {} /\ DOMAIN sessions = {} /\ DOMAIN origin = {}
  BY DEF Init
<1>2. Typed
  <2>1. origin \in [1 .. runs -> [by : Analyser, text : Text]] /\ runs \in 0 .. MaxRuns
    BY RunsAssumption DEF Init
  <2>2. state \in [Made -> FlagState] /\ Made \subseteq [id : FlagId, run : 1 .. runs]
    BY <1>1 DEF Init, Made
  <2>3. /\ cache \in [DOMAIN cache -> SUBSET Made]
        /\ sessions \in [DOMAIN sessions -> [text : Text, flags : SUBSET Made]]
    BY <1>1 DEF Init
  <2>4. job \in [Analyser -> Jobs] /\ fixing \in [Client -> Fixes] /\ conn \in [Client -> {"new", "open", "closed"}]
    BY DEF Init, Idle, Jobs, Fixes
  <2> QED
    BY <1>1, <2>1, <2>2, <2>3, <2>4 DEF Typed
<1>3. \A a \in Analyser : job[a].stage = "idle"
  BY DEF Init, Idle
<1>4. \A c \in Client : fixing[c].stage = "idle" /\ c \in Analyser
  BY DEF Init, Idle, Analyser
<1> QED
  BY <1>1, <1>2, <1>3, <1>4 DEF Inv, OwnJob, Busy, NotYetShared, OneInSession, FixUnderWay,
     OwnFlags, RejectedNotFixed, CacheIsComplete

-----------------------------------------------------------------------------
\* The steps

\* A step of a connection, or one that ends an analysis or forgets one.
LEMMA LetGo ==
  ASSUME Inv, UNCHANGED <<runs, origin, state, sessions, fixing>>,
         conn' \in [Client -> {"new", "open", "closed"}], job' \in [Analyser -> Jobs],
         \A a \in Analyser : Busy(a)' => job'[a] = job[a],
         cache' \in [DOMAIN cache' -> SUBSET Made], DOMAIN cache' \subseteq DOMAIN cache,
         \A t \in DOMAIN cache' : cache'[t] = cache[t]
  PROVE  Inv'
<1>1. Typed'
  BY DEF Inv, Typed, Made
<1>2. OwnJob'
  BY DEF Inv, OwnJob, Busy, Made, OnePerId
<1>3. NotYetShared'
  BY DEF Inv, NotYetShared, FlagsOf, Busy, Analyser
<1>4. OneInSession' /\ FixUnderWay'
  BY DEF Inv, OneInSession, FixUnderWay, FlagsOf, Made, OnePerId
<1>5. OwnFlags' /\ RejectedNotFixed'
  BY DEF Inv, OwnFlags, RejectedNotFixed, FlagsOf
<1>6. CacheIsComplete'
  BY DEF Inv, CacheIsComplete
<1> QED
  BY <1>1, <1>2, <1>3, <1>4, <1>5, <1>6 DEF Inv

LEMMA ConnectionInv ==
  ASSUME Inv, NEW c \in Client, Connect(c) \/ Disconnect(c) \/ DebouncerExits(c)
  PROVE  Inv'
<1>1. UNCHANGED <<runs, origin, state, sessions, fixing, cache>>
  BY DEF Connect, Disconnect, DebouncerExits
<1>2. conn' \in [Client -> {"new", "open", "closed"}]
  BY DEF Inv, Typed, Connect, Disconnect, DebouncerExits
<1>3. job' \in [Analyser -> Jobs] /\ \A a \in Analyser : Busy(a)' => job'[a] = job[a]
  BY DEF Inv, Typed, Connect, Disconnect, DebouncerExits, Jobs, Busy, Analyser
<1>4. cache' = cache /\ cache \in [DOMAIN cache -> SUBSET Made]
  BY <1>1 DEF Inv, Typed
<1> QED
  BY <1>1, <1>2, <1>3, <1>4, LetGo

LEMMA AnalyserInv ==
  ASSUME Inv, NEW a \in Analyser, NEW t \in Text, CacheHit(a, t) \/ CacheMiss(a, t) \/ FinishUpdate(a)
  PROVE  Inv'
<1>1. UNCHANGED <<runs, origin, state, sessions, fixing, cache, conn>>
  BY DEF CacheHit, CacheMiss, FinishUpdate
<1>2. conn' \in [Client -> {"new", "open", "closed"}]
  BY <1>1 DEF Inv, Typed
<1>3. job' \in [Analyser -> Jobs] /\ \A b \in Analyser : Busy(b)' => job'[b] = job[b]
  BY DEF Inv, Typed, CacheHit, CacheMiss, FinishUpdate, Jobs, Busy, Idle
<1>4. cache' = cache /\ cache \in [DOMAIN cache -> SUBSET Made]
  BY <1>1 DEF Inv, Typed
<1> QED
  BY <1>1, <1>2, <1>3, <1>4, LetGo

LEMMA ForgetInv ==
  ASSUME Inv, NEW t \in Text, Forget(t)
  PROVE  Inv'
<1>1. UNCHANGED <<runs, origin, state, sessions, fixing, conn, job>>
  BY DEF Forget
<1>2. /\ conn' \in [Client -> {"new", "open", "closed"}] /\ job' \in [Analyser -> Jobs]
      /\ \A a \in Analyser : job'[a] = job[a]
  BY <1>1 DEF Inv, Typed
<1>3. /\ DOMAIN cache' \subseteq DOMAIN cache /\ \A u \in DOMAIN cache' : cache'[u] = cache[u]
      /\ cache' \in [DOMAIN cache' -> SUBSET Made]
  BY DEF Inv, Typed, Forget
<1> QED
  BY <1>1, <1>2, <1>3, LetGo

LEMMA DetectInv ==
  ASSUME Inv, NEW a \in Analyser, Detect(a)
  PROVE  Inv'
<1> DEFINE t == job[a].text
           next == runs + 1
<1>1. PICK more \in SUBSET Plugin[t] :
        LET new == {[id |-> i, run |-> next] : i \in Found(t, more)}
        IN /\ runs' = next
           /\ origin' = [r \in 1 .. next |-> IF r <= runs THEN origin[r] ELSE [by |-> a, text |-> t]]
           /\ state' = [f \in Made \cup new |-> IF f \in new THEN "raised" ELSE state[f]]
           /\ cache' = [u \in DOMAIN cache \cup {t} |-> IF u = t THEN new ELSE cache[u]]
           /\ job' = [job EXCEPT ![a] =
                        [stage |-> IF a \in Http THEN "replying"
                                   ELSE IF a \in DOMAIN sessions THEN "updating" ELSE "creating",
                         text |-> t, flags |-> new, left |-> new]]
  BY DEF Detect
<1> DEFINE new == {[id |-> i, run |-> next] : i \in Found(t, more)}
<1>2. /\ job[a].stage = "detecting" /\ runs < MaxRuns /\ conn' = conn /\ sessions' = sessions
      /\ fixing' = fixing
  BY DEF Detect
<1>3. t \in Text
  BY <1>2 DEF Inv, Typed, Jobs
<1>4. /\ runs \in Nat /\ next \in Nat /\ next \in 1 .. MaxRuns /\ next \in 1 .. next /\ ~(next <= runs)
      /\ 1 .. runs \subseteq 1 .. next
      /\ \A r \in 1 .. runs : r <= runs
  BY <1>2, RunsAssumption DEF Inv, Typed
<1>5. /\ Found(t, more) \subseteq FlagId /\ Engine[t] \subseteq Found(t, more)
      /\ Found(t, more) \subseteq Engine[t] \cup Plugin[t]
  BY <1>3, FoundAssumption DEF Found
<1>6. \A f \in new : f.run = next /\ f.id \in Found(t, more) /\ f \in Flag /\ f \in [id : FlagId, run : 1 .. next]
  BY <1>4, <1>5 DEF Flag
<1>7. \A i \in Found(t, more) : \E f \in new : f.id = i
  <2> SUFFICES ASSUME NEW i \in Found(t, more) PROVE \E f \in new : f.id = i
    OBVIOUS
  <2>1. [id |-> i, run |-> next] \in new
    OBVIOUS
  <2> QED
    BY <2>1
<1>8. OnePerId(new)
  BY DEF OnePerId
<1> HIDE DEF new
<1>9. /\ runs' = next
      /\ origin' = [r \in 1 .. next |-> IF r <= runs THEN origin[r] ELSE [by |-> a, text |-> t]]
      /\ state' = [f \in Made \cup new |-> IF f \in new THEN "raised" ELSE state[f]]
      /\ cache' = [u \in DOMAIN cache \cup {t} |-> IF u = t THEN new ELSE cache[u]]
      /\ job' = [job EXCEPT ![a] =
                   [stage |-> IF a \in Http THEN "replying"
                              ELSE IF a \in DOMAIN sessions THEN "updating" ELSE "creating",
                    text |-> t, flags |-> new, left |-> new]]
  BY <1>1 DEF new
<1> HIDE DEF t, next
<1>10. \A f \in Made : f.run \in 1 .. runs /\ f.run # next
  BY <1>4, MadeByRun DEF Inv
<1>11. Made' = Made \cup new /\ new \cap Made = {}
  BY <1>6, <1>9, <1>10 DEF Made
<1>12. /\ \A f \in Made : state'[f] = state[f] /\ origin'[f.run] = origin[f.run]
       /\ \A f \in new : state'[f] = "raised" /\ origin'[f.run] = [by |-> a, text |-> t]
  <2>1. \A f \in Made : state'[f] = state[f]
    BY <1>9, <1>11
  <2>2. \A f \in Made : origin'[f.run] = origin[f.run]
    BY <1>4, <1>9, <1>10
  <2>3. \A f \in new : state'[f] = "raised"
    BY <1>9
  <2>4. origin'[next] = [by |-> a, text |-> t]
    BY <1>4, <1>9
  <2> QED
    BY <1>6, <2>1, <2>2, <2>3, <2>4
<1>13. /\ \A b \in Analyser : b # a => job'[b] = job[b]
       /\ job'[a].flags = new /\ job'[a].left = new
       /\ a \in Http => job'[a].stage = "replying"
       /\ a \notin Http => job'[a].stage = IF a \in DOMAIN sessions THEN "updating" ELSE "creating"
  BY <1>9 DEF Inv, Typed
<1>14. Typed'
  <2>1. runs' \in 0 .. MaxRuns
    BY <1>4, <1>9
  <2>2. origin' \in [1 .. runs' -> [by : Analyser, text : Text]]
    BY <1>3, <1>4, <1>9 DEF Inv, Typed
  <2>3. state' \in [Made' -> FlagState]
    BY <1>9, <1>11 DEF Inv, Typed, FlagState
  <2>4. Made' \subseteq [id : FlagId, run : 1 .. runs']
    BY <1>4, <1>6, <1>9, <1>11 DEF Inv, Typed
  <2>5. cache' \in [DOMAIN cache' -> SUBSET Made'] /\ DOMAIN cache' \subseteq Text
    BY <1>3, <1>9, <1>11 DEF Inv, Typed
  <2>6. job' \in [Analyser -> Jobs]
    <3>1. new \in SUBSET Flag
      BY <1>6
    <3>2. [stage |-> IF a \in Http THEN "replying"
                     ELSE IF a \in DOMAIN sessions THEN "updating" ELSE "creating",
           text |-> t, flags |-> new, left |-> new] \in Jobs
      BY <1>3, <3>1 DEF Jobs
    <3> QED
      BY <1>9, <3>2 DEF Inv, Typed
  <2>7. sessions' \in [DOMAIN sessions' -> [text : Text, flags : SUBSET Made']]
    BY <1>2, <1>11 DEF Inv, Typed
  <2>8. /\ conn' \in [Client -> {"new", "open", "closed"}] /\ fixing' \in [Client -> Fixes]
        /\ DOMAIN sessions' \subseteq Client
    BY <1>2 DEF Inv, Typed
  <2> QED
    BY <2>1, <2>2, <2>3, <2>4, <2>5, <2>6, <2>7, <2>8 DEF Typed
<1>15. OwnJob'
  <2> SUFFICES ASSUME NEW b \in Analyser, Busy(b)'
               PROVE  /\ job'[b].left \subseteq job'[b].flags /\ job'[b].flags \subseteq Made'
                      /\ OnePerId(job'[b].flags)
                      /\ \A f \in job'[b].flags : origin'[f.run].by = b
    BY DEF OwnJob
  <2>1. CASE b = a
    BY <1>8, <1>11, <1>12, <1>13, <2>1
  <2>2. CASE b # a
    <3>1. Busy(b) /\ job'[b] = job[b]
      BY <1>13, <2>2 DEF Busy
    <3>2. /\ job[b].left \subseteq job[b].flags /\ job[b].flags \subseteq Made
          /\ OnePerId(job[b].flags)
          /\ \A f \in job[b].flags : origin[f.run].by = b
      BY <3>1 DEF Inv, OwnJob
    <3> QED
      BY <1>11, <1>12, <3>1, <3>2
  <2> QED
    BY <2>1, <2>2
<1>16. \A c \in DOMAIN sessions : FlagsOf(c)' = FlagsOf(c) /\ FlagsOf(c) \subseteq Made
  BY <1>2 DEF Inv, Typed, FlagsOf
<1>17. NotYetShared'
  <2> SUFFICES ASSUME NEW c \in Client
               PROVE  /\ job'[c].stage = "creating" => c \notin DOMAIN sessions
                      /\ job'[c].stage = "updating" => c \in DOMAIN sessions
                      /\ job'[c].stage \in {"creating", "updating"} =>
                           \A f \in job'[c].left :
                             /\ state'[f] = "raised"
                             /\ c \in DOMAIN sessions => f \notin FlagsOf(c)'
                             /\ fixing[c].stage = "replacing" => f \notin fixing[c].seen
    BY <1>2 DEF NotYetShared
  <2>1. c \in Analyser
    BY DEF Analyser
  <2>2. CASE c = a
    <3>1. c \notin Http
      BY <2>2, ActorAssumption
    <3>2. fixing[c].stage = "replacing" => fixing[c].seen \subseteq Made
      BY DEF Inv, FixUnderWay
    <3> QED
      BY <1>11, <1>12, <1>13, <1>16, <2>2, <3>1, <3>2
  <2>3. CASE c # a
    <3>1. job'[c] = job[c]
      BY <1>13, <2>1, <2>3
    <3>2. /\ job[c].stage = "creating" => c \notin DOMAIN sessions
          /\ job[c].stage = "updating" => c \in DOMAIN sessions
          /\ job[c].stage \in {"creating", "updating"} =>
               \A f \in job[c].left :
                 /\ state[f] = "raised"
                 /\ c \in DOMAIN sessions => f \notin FlagsOf(c)
                 /\ fixing[c].stage = "replacing" => f \notin fixing[c].seen
      BY DEF Inv, NotYetShared
    <3>3. job[c].stage \in {"creating", "updating"} => job[c].left \subseteq Made
      BY <2>1 DEF Inv, OwnJob, Busy
    <3> QED
      BY <1>12, <1>16, <3>1, <3>2, <3>3
  <2> QED
    BY <2>2, <2>3
<1>18. OneInSession' /\ OwnFlags'
  BY <1>2, <1>12, <1>16 DEF Inv, OneInSession, OwnFlags
<1>19. FixUnderWay'
  <2> SUFFICES ASSUME NEW c \in Client
               PROVE  /\ fixing[c].stage \in {"applied", "targeted", "replacing"} => c \in DOMAIN sessions
                      /\ fixing[c].stage = "applied" =>
                           \A f \in FlagsOf(c)' : f.id = fixing[c].id => state'[f] \in {"raised", "applied"}
                      /\ fixing[c].stage \in {"targeted", "replacing"} =>
                           fixing[c].target \in Made' /\ origin'[fixing[c].target.run].by = c
                      /\ fixing[c].stage = "replacing" =>
                           /\ fixing[c].seen \subseteq Made' /\ OnePerId(fixing[c].seen)
                           /\ \A f \in fixing[c].seen : origin'[f.run].by = c
    BY <1>2 DEF FixUnderWay
  <2>1. /\ fixing[c].stage \in {"applied", "targeted", "replacing"} => c \in DOMAIN sessions
        /\ fixing[c].stage = "applied" =>
             \A f \in FlagsOf(c) : f.id = fixing[c].id => state[f] \in {"raised", "applied"}
        /\ fixing[c].stage \in {"targeted", "replacing"} =>
             fixing[c].target \in Made /\ origin[fixing[c].target.run].by = c
        /\ fixing[c].stage = "replacing" =>
             /\ fixing[c].seen \subseteq Made /\ OnePerId(fixing[c].seen)
             /\ \A f \in fixing[c].seen : origin[f.run].by = c
    BY DEF Inv, FixUnderWay
  <2> QED
    BY <1>11, <1>12, <1>16, <2>1
<1>20. RejectedNotFixed'
  <2> SUFFICES ASSUME NEW c \in Client, fixing[c].stage \in {"targeted", "replacing"}
               PROVE  state'[fixing[c].target] \in {"raised", "applied"}
    BY <1>2 DEF RejectedNotFixed
  <2>1. fixing[c].target \in Made /\ state[fixing[c].target] \in {"raised", "applied"}
    BY DEF Inv, FixUnderWay, RejectedNotFixed
  <2> QED
    BY <1>12, <2>1
<1>21. CacheIsComplete'
  <2> SUFFICES ASSUME NEW u \in DOMAIN cache'
               PROVE  LET ids == {f.id : f \in cache'[u]}
                      IN  /\ Engine[u] \subseteq ids /\ ids \subseteq Engine[u] \cup Plugin[u]
                          /\ \A f \in cache'[u] : origin'[f.run].text = u
    BY DEF CacheIsComplete
  <2>1. CASE u = t
    <3>1. cache'[u] = new
      BY <1>9, <2>1
    <3> QED
      BY <1>5, <1>6, <1>7, <1>12, <2>1, <3>1
  <2>2. CASE u # t
    <3>1. u \in DOMAIN cache /\ cache'[u] = cache[u] /\ cache[u] \subseteq Made
      BY <1>9, <2>2 DEF Inv, Typed
    <3> QED
      BY <1>12, <3>1 DEF Inv, CacheIsComplete
  <2> QED
    BY <2>1, <2>2
<1> QED
  BY <1>14, <1>15, <1>17, <1>18, <1>19, <1>20, <1>21 DEF Inv

LEMMA CreateSessionInv ==
  ASSUME Inv, NEW c \in Client, CreateSession(c)
  PROVE  Inv'
<1>1. /\ job[c].stage = "creating" /\ UNCHANGED <<conn, runs, origin, state, cache, fixing>>
      /\ sessions' = [d \in DOMAIN sessions \cup {c} |->
                        IF d = c THEN [text |-> job[c].text, flags |-> job[c].flags] ELSE sessions[d]]
      /\ job' = [job EXCEPT ![c] = Idle]
  BY DEF CreateSession
<1>2. c \in Analyser /\ Busy(c) /\ c \notin DOMAIN sessions
  BY <1>1 DEF Analyser, Busy, Inv, NotYetShared
<1>3. /\ job[c].flags \subseteq Made /\ OnePerId(job[c].flags)
      /\ \A f \in job[c].flags : origin[f.run].by = c
  BY <1>2 DEF Inv, OwnJob
<1>4. job[c].text \in Text
  BY <1>1, <1>2 DEF Inv, Typed, Jobs
<1>5. /\ DOMAIN sessions' = DOMAIN sessions \cup {c} /\ sessions'[c].flags = job[c].flags
      /\ \A d \in DOMAIN sessions : sessions'[d] = sessions[d]
  BY <1>1, <1>2
<1>6. job'[c].stage = "idle" /\ \A a \in Analyser : a # c => job'[a] = job[a]
  BY <1>1, <1>2 DEF Inv, Typed, Idle
<1>7. Typed'
  <2>1. sessions' \in [DOMAIN sessions' -> [text : Text, flags : SUBSET Made]]
    BY <1>1, <1>3, <1>4 DEF Inv, Typed
  <2>2. job' \in [Analyser -> Jobs]
    BY <1>1 DEF Inv, Typed, Jobs, Idle
  <2>3. DOMAIN sessions' \subseteq Client /\ Made' = Made
    BY <1>1, <1>5 DEF Inv, Typed, Made
  <2> QED
    BY <1>1, <2>1, <2>2, <2>3 DEF Inv, Typed
<1>8. OwnJob'
  BY <1>1, <1>6 DEF Inv, OwnJob, Busy, Made, OnePerId
<1>9. NotYetShared'
  <2> SUFFICES ASSUME NEW d \in Client, d # c
               PROVE  /\ job[d].stage = "creating" => d \notin DOMAIN sessions'
                      /\ job[d].stage = "updating" => d \in DOMAIN sessions'
                      /\ job[d].stage \in {"creating", "updating"} =>
                           \A f \in job[d].left :
                             /\ state[f] = "raised"
                             /\ d \in DOMAIN sessions' => f \notin sessions'[d].flags
                             /\ fixing[d].stage = "replacing" => f \notin fixing[d].seen
    BY <1>1, <1>6 DEF NotYetShared, FlagsOf, Analyser
  <2> QED
    BY <1>5 DEF Inv, NotYetShared, FlagsOf
<1>10. OneInSession' /\ OwnFlags'
  <2>1. \A d \in DOMAIN sessions' : OnePerId(sessions'[d].flags)
    BY <1>3, <1>5 DEF Inv, OneInSession, FlagsOf
  <2>2. \A d \in DOMAIN sessions' : \A f \in sessions'[d].flags : origin[f.run].by = d
    BY <1>3, <1>5 DEF Inv, OwnFlags, FlagsOf
  <2> QED
    BY <1>1, <2>1, <2>2 DEF OneInSession, OwnFlags, FlagsOf, OnePerId
<1>11. FixUnderWay'
  <2> SUFFICES ASSUME NEW d \in Client
               PROVE  /\ fixing[d].stage \in {"applied", "targeted", "replacing"} => d \in DOMAIN sessions'
                      /\ fixing[d].stage = "applied" =>
                           \A f \in sessions'[d].flags : f.id = fixing[d].id => state[f] \in {"raised", "applied"}
                      /\ fixing[d].stage \in {"targeted", "replacing"} =>
                           fixing[d].target \in Made /\ origin[fixing[d].target.run].by = d
                      /\ fixing[d].stage = "replacing" =>
                           /\ fixing[d].seen \subseteq Made /\ OnePerId(fixing[d].seen)
                           /\ \A f \in fixing[d].seen : origin[f.run].by = d
    BY <1>1 DEF FixUnderWay, FlagsOf, Made, OnePerId
  <2> QED
    BY <1>2, <1>5 DEF Inv, FixUnderWay, FlagsOf
<1>12. RejectedNotFixed' /\ CacheIsComplete'
  BY <1>1 DEF Inv, RejectedNotFixed, CacheIsComplete
<1> QED
  BY <1>7, <1>8, <1>9, <1>10, <1>11, <1>12 DEF Inv

\* The flag put in replaces that of its ID, if there is one, and is as it was raised.
LEMMA AddFlagInv ==
  ASSUME Inv, NEW c \in Client, NEW f \in Flag, AddFlag(c, f)
  PROVE  Inv'
<1> DEFINE with == {g \in FlagsOf(c) : g.id # f.id} \cup {f}
<1>1. /\ job[c].stage = "updating" /\ f \in job[c].left
      /\ UNCHANGED <<conn, runs, origin, state, cache, fixing>>
      /\ sessions' = [sessions EXCEPT ![c].flags = with]
      /\ job' = [job EXCEPT ![c].left = @ \ {f}]
  BY DEF AddFlag, FlagsOf
<1>2. c \in Analyser /\ Busy(c) /\ c \in DOMAIN sessions
  BY <1>1 DEF Analyser, Busy, Inv, NotYetShared
<1>3. /\ job[c].left \subseteq job[c].flags /\ job[c].flags \subseteq Made /\ OnePerId(job[c].flags)
      /\ \A g \in job[c].flags : origin[g.run].by = c
  BY <1>2 DEF Inv, OwnJob
<1>4. f \in Made /\ state[f] = "raised" /\ origin[f.run].by = c
  BY <1>1, <1>3 DEF Inv, NotYetShared
<1>5. with \subseteq FlagsOf(c) \cup {f} /\ OnePerId(with)
  BY <1>2 DEF Inv, OneInSession, OnePerId
<1> HIDE DEF with
<1>6. /\ DOMAIN sessions' = DOMAIN sessions /\ sessions'[c].flags = with
      /\ \A d \in DOMAIN sessions : d # c => sessions'[d] = sessions[d]
  BY <1>1, <1>2 DEF Inv, Typed
<1>7. /\ job'[c].stage = "updating" /\ job'[c].flags = job[c].flags /\ job'[c].left = job[c].left \ {f}
      /\ \A a \in Analyser : a # c => job'[a] = job[a]
  BY <1>1, <1>2 DEF Inv, Typed, Jobs
<1>8. Typed'
  <2>1. with \subseteq Made
    BY <1>2, <1>4, <1>5 DEF Inv, Typed, FlagsOf
  <2>2. sessions' \in [DOMAIN sessions' -> [text : Text, flags : SUBSET Made]]
    BY <1>1, <2>1 DEF Inv, Typed
  <2>3. job' \in [Analyser -> Jobs]
    <3>1. /\ job[c] \in [stage : {"creating", "updating", "replying"}, text : Text,
                         flags : SUBSET Flag, left : SUBSET Flag]
      BY <1>1, <1>2 DEF Inv, Typed, Jobs
    <3>2. [job[c] EXCEPT !.left = @ \ {f}] \in Jobs
      BY <3>1 DEF Jobs
    <3> QED
      BY <1>1, <3>2 DEF Inv, Typed
  <2>4. DOMAIN sessions' \subseteq Client /\ Made' = Made
    BY <1>1, <1>6 DEF Inv, Typed, Made
  <2> QED
    BY <1>1, <2>2, <2>3, <2>4 DEF Inv, Typed
<1>9. OwnJob'
  BY <1>1, <1>3, <1>7 DEF Inv, OwnJob, Busy, Made, OnePerId
<1>10. NotYetShared'
  <2> SUFFICES ASSUME NEW d \in Client
               PROVE  /\ job'[d].stage = "creating" => d \notin DOMAIN sessions'
                      /\ job'[d].stage = "updating" => d \in DOMAIN sessions'
                      /\ job'[d].stage \in {"creating", "updating"} =>
                           \A g \in job'[d].left :
                             /\ state[g] = "raised"
                             /\ d \in DOMAIN sessions' => g \notin sessions'[d].flags
                             /\ fixing[d].stage = "replacing" => g \notin fixing[d].seen
    BY <1>1 DEF NotYetShared, FlagsOf
  <2>1. d \in Analyser
    BY DEF Analyser
  <2>2. /\ job[d].stage = "creating" => d \notin DOMAIN sessions
        /\ job[d].stage = "updating" => d \in DOMAIN sessions
        /\ job[d].stage \in {"creating", "updating"} =>
             \A g \in job[d].left :
               /\ state[g] = "raised"
               /\ d \in DOMAIN sessions => g \notin FlagsOf(d)
               /\ fixing[d].stage = "replacing" => g \notin fixing[d].seen
    BY DEF Inv, NotYetShared
  <2> QED
    BY <1>1, <1>2, <1>5, <1>6, <1>7, <2>1, <2>2 DEF FlagsOf
<1>11. OneInSession' /\ OwnFlags'
  <2>1. \A d \in DOMAIN sessions' : OnePerId(sessions'[d].flags)
    BY <1>5, <1>6 DEF Inv, OneInSession, FlagsOf
  <2>2. \A d \in DOMAIN sessions' : \A g \in sessions'[d].flags : origin[g.run].by = d
    BY <1>2, <1>4, <1>5, <1>6 DEF Inv, OwnFlags, FlagsOf
  <2> QED
    BY <1>1, <2>1, <2>2 DEF OneInSession, OwnFlags, FlagsOf, OnePerId
<1>12. FixUnderWay'
  <2> SUFFICES ASSUME NEW d \in Client
               PROVE  /\ fixing[d].stage \in {"applied", "targeted", "replacing"} => d \in DOMAIN sessions'
                      /\ fixing[d].stage = "applied" =>
                           \A g \in sessions'[d].flags : g.id = fixing[d].id => state[g] \in {"raised", "applied"}
                      /\ fixing[d].stage \in {"targeted", "replacing"} =>
                           fixing[d].target \in Made /\ origin[fixing[d].target.run].by = d
                      /\ fixing[d].stage = "replacing" =>
                           /\ fixing[d].seen \subseteq Made /\ OnePerId(fixing[d].seen)
                           /\ \A g \in fixing[d].seen : origin[g.run].by = d
    BY <1>1 DEF FixUnderWay, FlagsOf, Made, OnePerId
  <2>1. /\ fixing[d].stage \in {"applied", "targeted", "replacing"} => d \in DOMAIN sessions
        /\ fixing[d].stage = "applied" =>
             \A g \in FlagsOf(d) : g.id = fixing[d].id => state[g] \in {"raised", "applied"}
        /\ fixing[d].stage \in {"targeted", "replacing"} =>
             fixing[d].target \in Made /\ origin[fixing[d].target.run].by = d
        /\ fixing[d].stage = "replacing" =>
             /\ fixing[d].seen \subseteq Made /\ OnePerId(fixing[d].seen)
             /\ \A g \in fixing[d].seen : origin[g.run].by = d
    BY DEF Inv, FixUnderWay
  <2> QED
    BY <1>4, <1>5, <1>6, <2>1 DEF FlagsOf
<1>13. RejectedNotFixed' /\ CacheIsComplete'
  BY <1>1 DEF Inv, RejectedNotFixed, CacheIsComplete
<1> QED
  BY <1>8, <1>9, <1>10, <1>11, <1>12, <1>13 DEF Inv

\* A decision changes one Flag, of the connection's own session: none that another
\* connection holds, and none that the analysis under way has still to put in.
LEMMA DecideInv ==
  ASSUME Inv, NEW c \in Client, NEW id \in FlagId, AcceptOrReject(c, id) \/ BeginFix(c, id)
  PROVE  Inv'
<1> DEFINE f == FlagNamed(c, id)
<1>1. /\ fixing[c] = Idle /\ c \in DOMAIN sessions /\ f \in FlagsOf(c) /\ f.id = id
  BY Named DEF AcceptOrReject, BeginFix, Handles
<1>2. UNCHANGED <<conn, runs, origin, cache, sessions, job>>
  BY DEF AcceptOrReject, BeginFix
<1>3. PICK s \in {"accepted", "rejected", "applied"} : state' = [state EXCEPT ![f] = s]
  BY DEF AcceptOrReject, BeginFix, Accept, Reject, Apply
<1>4. \/ fixing' = fixing
      \/ /\ state' = [state EXCEPT ![f] = "applied"]
         /\ fixing' = [fixing EXCEPT ![c] = [stage |-> "applied", id |-> id]]
  BY DEF AcceptOrReject, BeginFix, Apply
<1> HIDE DEF f
<1>5. fixing[c].stage = "idle" /\ c \in Analyser
  BY <1>1 DEF Idle, Analyser
<1>6. f \in Made /\ origin[f.run].by = c
  BY <1>1 DEF Inv, Typed, OwnFlags, FlagsOf
<1>7. /\ Made' = Made /\ state' \in [Made -> FlagState]
      /\ \A g \in Made : g # f => state'[g] = state[g]
  BY <1>3, <1>6 DEF Inv, Typed, Made, FlagState
<1>8. \A d \in Client : d # c => fixing'[d] = fixing[d]
  BY <1>4 DEF Inv, Typed
<1>9. fixing'[c].stage = "idle" \/ (fixing'[c].stage = "applied" /\ fixing'[c].id = id /\ state'[f] = "applied")
  BY <1>4, <1>5, <1>6 DEF Inv, Typed
<1>10. Typed'
  <2>1. fixing' \in [Client -> Fixes]
    BY <1>4 DEF Inv, Typed, Fixes
  <2> QED
    BY <1>2, <1>7, <2>1 DEF Inv, Typed
<1>11. OwnJob'
  BY <1>2, <1>7 DEF Inv, OwnJob, Busy, OnePerId
<1>12. NotYetShared'
  <2> SUFFICES ASSUME NEW d \in Client
               PROVE  /\ job[d].stage = "creating" => d \notin DOMAIN sessions
                      /\ job[d].stage = "updating" => d \in DOMAIN sessions
                      /\ job[d].stage \in {"creating", "updating"} =>
                           \A g \in job[d].left :
                             /\ state'[g] = "raised"
                             /\ d \in DOMAIN sessions => g \notin FlagsOf(d)
                             /\ fixing'[d].stage = "replacing" => g \notin fixing'[d].seen
    BY <1>2 DEF NotYetShared, FlagsOf
  <2>1. /\ job[d].stage = "creating" => d \notin DOMAIN sessions
        /\ job[d].stage = "updating" => d \in DOMAIN sessions
        /\ job[d].stage \in {"creating", "updating"} =>
             \A g \in job[d].left :
               /\ state[g] = "raised"
               /\ d \in DOMAIN sessions => g \notin FlagsOf(d)
               /\ fixing[d].stage = "replacing" => g \notin fixing[d].seen
    BY DEF Inv, NotYetShared
  <2>2. job[d].stage \in {"creating", "updating"} =>
          \A g \in job[d].left : g \in Made /\ origin[g.run].by = d
    BY DEF Inv, OwnJob, Busy, Analyser
  <2>3. job[d].stage \in {"creating", "updating"} => f \notin job[d].left
    BY <1>1, <1>6, <2>1, <2>2
  <2> QED
    BY <1>7, <1>8, <1>9, <2>1, <2>2, <2>3
<1>13. OneInSession' /\ OwnFlags'
  BY <1>2 DEF Inv, OneInSession, OwnFlags, FlagsOf, OnePerId
<1>14. FixUnderWay'
  <2> SUFFICES ASSUME NEW d \in Client
               PROVE  /\ fixing'[d].stage \in {"applied", "targeted", "replacing"} => d \in DOMAIN sessions
                      /\ fixing'[d].stage = "applied" =>
                           \A g \in FlagsOf(d) : g.id = fixing'[d].id => state'[g] \in {"raised", "applied"}
                      /\ fixing'[d].stage \in {"targeted", "replacing"} =>
                           fixing'[d].target \in Made /\ origin[fixing'[d].target.run].by = d
                      /\ fixing'[d].stage = "replacing" =>
                           /\ fixing'[d].seen \subseteq Made /\ OnePerId(fixing'[d].seen)
                           /\ \A g \in fixing'[d].seen : origin[g.run].by = d
    BY <1>2, <1>7 DEF FixUnderWay, FlagsOf, OnePerId
  <2>1. CASE d = c
    <3>1. \A g \in FlagsOf(c) : g.id = id => g = f
      BY <1>1 DEF Inv, OneInSession, OnePerId, f
    <3> QED
      BY <1>1, <1>9, <2>1, <3>1
  <2>2. CASE d # c
    <3>1. /\ fixing[d].stage \in {"applied", "targeted", "replacing"} => d \in DOMAIN sessions
          /\ fixing[d].stage = "applied" =>
               \A g \in FlagsOf(d) : g.id = fixing[d].id => state[g] \in {"raised", "applied"}
          /\ fixing[d].stage \in {"targeted", "replacing"} =>
               fixing[d].target \in Made /\ origin[fixing[d].target.run].by = d
          /\ fixing[d].stage = "replacing" =>
               /\ fixing[d].seen \subseteq Made /\ OnePerId(fixing[d].seen)
               /\ \A g \in fixing[d].seen : origin[g.run].by = d
      BY DEF Inv, FixUnderWay
    <3>2. d \in DOMAIN sessions => \A g \in FlagsOf(d) : g \in Made /\ g # f
      BY <1>6, <2>2 DEF Inv, Typed, OwnFlags, FlagsOf
    <3> QED
      BY <1>7, <1>8, <2>2, <3>1, <3>2
  <2> QED
    BY <2>1, <2>2
<1>15. RejectedNotFixed'
  <2> SUFFICES ASSUME NEW d \in Client, fixing'[d].stage \in {"targeted", "replacing"}
               PROVE  state'[fixing'[d].target] \in {"raised", "applied"}
    BY DEF RejectedNotFixed
  <2>1. d # c /\ fixing'[d] = fixing[d]
    BY <1>8, <1>9
  <2>2. /\ fixing[d].target \in Made /\ origin[fixing[d].target.run].by = d
        /\ state[fixing[d].target] \in {"raised", "applied"}
    BY <2>1 DEF Inv, FixUnderWay, RejectedNotFixed
  <2> QED
    BY <1>6, <1>7, <2>1, <2>2
<1>16. CacheIsComplete'
  BY <1>2 DEF Inv, CacheIsComplete
<1> QED
  BY <1>10, <1>11, <1>12, <1>13, <1>14, <1>15, <1>16 DEF Inv

LEMMA PickTargetInv ==
  ASSUME Inv, NEW c \in Client, PickTarget(c)
  PROVE  Inv'
<1> DEFINE f == FlagNamed(c, fixing[c].id)
<1>1. /\ fixing[c].stage = "applied" /\ UNCHANGED <<conn, runs, origin, state, cache, sessions, job>>
      /\ fixing' = [fixing EXCEPT ![c] =
                      IF HasFlag(c, fixing[c].id) THEN [stage |-> "targeted", target |-> f] ELSE Idle]
  BY DEF PickTarget
<1>2. HasFlag(c, fixing[c].id) => c \in DOMAIN sessions /\ f \in FlagsOf(c) /\ f.id = fixing[c].id
  BY Named
<1> HIDE DEF f
<1>3. \A d \in Client : d # c => fixing'[d] = fixing[d]
  BY <1>1 DEF Inv, Typed
<1>4. \/ fixing'[c].stage = "idle"
      \/ HasFlag(c, fixing[c].id) /\ fixing'[c].stage = "targeted" /\ fixing'[c].target = f
  BY <1>1 DEF Inv, Typed, Idle
<1>5. c \in DOMAIN sessions
  BY <1>1 DEF Inv, FixUnderWay
<1>6. HasFlag(c, fixing[c].id) =>
        f \in Made /\ f \in Flag /\ origin[f.run].by = c /\ state[f] \in {"raised", "applied"}
  <2> SUFFICES ASSUME HasFlag(c, fixing[c].id)
               PROVE  f \in Made /\ f \in Flag /\ origin[f.run].by = c /\ state[f] \in {"raised", "applied"}
    OBVIOUS
  <2>1. f \in FlagsOf(c) /\ f.id = fixing[c].id
    BY <1>2
  <2>2. f \in Made
    BY <1>5, <2>1 DEF Inv, Typed, FlagsOf
  <2> QED
    BY <1>1, <1>5, <2>1, <2>2, MadeByRun DEF Inv, OwnFlags, FixUnderWay
<1>7. Typed'
  <2>1. fixing' \in [Client -> Fixes]
    <3>1. CASE HasFlag(c, fixing[c].id)
      <4>1. [stage |-> "targeted", target |-> f] \in Fixes
        BY <1>6, <3>1 DEF Fixes
      <4> QED
        BY <1>1, <3>1, <4>1 DEF Inv, Typed
    <3>2. CASE ~HasFlag(c, fixing[c].id)
      BY <1>1, <3>2 DEF Inv, Typed, Idle, Fixes
    <3> QED
      BY <3>1, <3>2
  <2> QED
    BY <1>1, <2>1 DEF Inv, Typed, Made
<1>8. OwnJob' /\ OneInSession' /\ OwnFlags' /\ CacheIsComplete'
  <2>1. OwnJob'
    BY <1>1 DEF Inv, OwnJob, Busy, Made, OnePerId
  <2> QED
    BY <1>1, <2>1 DEF Inv, OneInSession, OwnFlags, CacheIsComplete, FlagsOf, OnePerId
<1>9. NotYetShared'
  <2>1. \A d \in Client : fixing'[d].stage = "replacing" => fixing'[d] = fixing[d]
    BY <1>3, <1>4
  <2> QED
    BY <1>1, <2>1 DEF Inv, NotYetShared, FlagsOf
<1>10. FixUnderWay'
  <2> SUFFICES ASSUME NEW d \in Client
               PROVE  /\ fixing'[d].stage \in {"applied", "targeted", "replacing"} => d \in DOMAIN sessions
                      /\ fixing'[d].stage = "applied" =>
                           \A g \in FlagsOf(d) : g.id = fixing'[d].id => state'[g] \in {"raised", "applied"}
                      /\ fixing'[d].stage \in {"targeted", "replacing"} =>
                           fixing'[d].target \in Made /\ origin[fixing'[d].target.run].by = d
                      /\ fixing'[d].stage = "replacing" =>
                           /\ fixing'[d].seen \subseteq Made /\ OnePerId(fixing'[d].seen)
                           /\ \A g \in fixing'[d].seen : origin[g.run].by = d
    BY <1>1 DEF FixUnderWay, FlagsOf, Made, OnePerId
  <2>1. CASE d = c
    BY <1>4, <1>5, <1>6, <2>1
  <2>2. CASE d # c
    BY <1>1, <1>3, <2>2 DEF Inv, FixUnderWay
  <2> QED
    BY <2>1, <2>2
<1>11. RejectedNotFixed'
  BY <1>1, <1>3, <1>4, <1>6 DEF Inv, RejectedNotFixed
<1> QED
  BY <1>7, <1>8, <1>9, <1>10, <1>11 DEF Inv

\* The copy is of the session as an analysis may have changed it since the target was found.
LEMMA CopyFlagsInv ==
  ASSUME Inv, NEW c \in Client, CopyFlags(c)
  PROVE  Inv'
<1>1. /\ fixing[c].stage = "targeted" /\ UNCHANGED <<conn, runs, origin, state, cache, sessions, job>>
      /\ fixing' = [fixing EXCEPT ![c] =
                      [stage |-> "replacing", target |-> fixing[c].target, seen |-> FlagsOf(c)]]
  BY DEF CopyFlags
<1>2. /\ \A d \in Client : d # c => fixing'[d] = fixing[d]
      /\ fixing'[c].stage = "replacing" /\ fixing'[c].target = fixing[c].target
      /\ fixing'[c].seen = FlagsOf(c)
  BY <1>1 DEF Inv, Typed
<1>3. /\ c \in DOMAIN sessions /\ fixing[c].target \in Made /\ fixing[c].target \in Flag
      /\ origin[fixing[c].target.run].by = c
  BY <1>1, MadeByRun DEF Inv, FixUnderWay
<1>4. /\ FlagsOf(c) \subseteq Made /\ OnePerId(FlagsOf(c))
      /\ \A g \in FlagsOf(c) : g \in Flag /\ origin[g.run].by = c
  <2>1. FlagsOf(c) \subseteq Made
    BY <1>3 DEF Inv, Typed, FlagsOf
  <2> QED
    BY <1>3, <2>1, MadeByRun DEF Inv, OneInSession, OwnFlags
<1>5. Typed'
  <2>1. [stage |-> "replacing", target |-> fixing[c].target, seen |-> FlagsOf(c)] \in Fixes
    BY <1>3, <1>4 DEF Fixes
  <2>2. fixing' \in [Client -> Fixes]
    BY <1>1, <2>1 DEF Inv, Typed
  <2> QED
    BY <1>1, <2>2 DEF Inv, Typed, Made
<1>6. OwnJob' /\ OneInSession' /\ OwnFlags' /\ CacheIsComplete'
  <2>1. OwnJob'
    BY <1>1 DEF Inv, OwnJob, Busy, Made, OnePerId
  <2> QED
    BY <1>1, <2>1 DEF Inv, OneInSession, OwnFlags, CacheIsComplete, FlagsOf, OnePerId
<1>7. NotYetShared'
  <2> SUFFICES ASSUME NEW d \in Client
               PROVE  /\ job[d].stage = "creating" => d \notin DOMAIN sessions
                      /\ job[d].stage = "updating" => d \in DOMAIN sessions
                      /\ job[d].stage \in {"creating", "updating"} =>
                           \A g \in job[d].left :
                             /\ state[g] = "raised"
                             /\ d \in DOMAIN sessions => g \notin FlagsOf(d)
                             /\ fixing'[d].stage = "replacing" => g \notin fixing'[d].seen
    BY <1>1 DEF NotYetShared, FlagsOf
  <2> QED
    BY <1>2, <1>3 DEF Inv, NotYetShared
<1>8. FixUnderWay'
  <2> SUFFICES ASSUME NEW d \in Client
               PROVE  /\ fixing'[d].stage \in {"applied", "targeted", "replacing"} => d \in DOMAIN sessions
                      /\ fixing'[d].stage = "applied" =>
                           \A g \in FlagsOf(d) : g.id = fixing'[d].id => state'[g] \in {"raised", "applied"}
                      /\ fixing'[d].stage \in {"targeted", "replacing"} =>
                           fixing'[d].target \in Made /\ origin[fixing'[d].target.run].by = d
                      /\ fixing'[d].stage = "replacing" =>
                           /\ fixing'[d].seen \subseteq Made /\ OnePerId(fixing'[d].seen)
                           /\ \A g \in fixing'[d].seen : origin[g.run].by = d
    BY <1>1 DEF FixUnderWay, FlagsOf, Made, OnePerId
  <2>1. CASE d = c
    BY <1>2, <1>3, <1>4, <2>1
  <2>2. CASE d # c
    BY <1>1, <1>2, <2>2 DEF Inv, FixUnderWay
  <2> QED
    BY <2>1, <2>2
<1>9. RejectedNotFixed'
  BY <1>1, <1>2 DEF Inv, RejectedNotFixed
<1> QED
  BY <1>5, <1>6, <1>7, <1>8, <1>9 DEF Inv

\* What is written back is of the copy, whatever the session came to hold meanwhile.
LEMMA EndFixInv ==
  ASSUME Inv, NEW c \in Client, EndFix(c)
  PROVE  Inv'
<1>1. PICK t \in Text, kept \in SUBSET fixing[c].seen :
        sessions' = [sessions EXCEPT ![c].text = t, ![c].flags = kept]
  BY DEF EndFix
<1>2. /\ fixing[c].stage = "replacing" /\ UNCHANGED <<conn, runs, origin, state, cache, job>>
      /\ fixing' = [fixing EXCEPT ![c] = Idle]
  BY DEF EndFix
<1>3. /\ c \in DOMAIN sessions /\ kept \subseteq Made /\ OnePerId(kept)
      /\ \A f \in kept : f \in fixing[c].seen /\ origin[f.run].by = c
  BY <1>2 DEF Inv, FixUnderWay, OnePerId
<1>4. /\ DOMAIN sessions' = DOMAIN sessions /\ sessions'[c].flags = kept
      /\ \A d \in DOMAIN sessions : d # c => sessions'[d] = sessions[d]
  BY <1>1, <1>3 DEF Inv, Typed
<1>5. fixing'[c].stage = "idle" /\ \A d \in Client : d # c => fixing'[d] = fixing[d]
  BY <1>2 DEF Inv, Typed, Idle
<1>6. Typed'
  <2>1. sessions' \in [DOMAIN sessions' -> [text : Text, flags : SUBSET Made]]
    BY <1>1, <1>3 DEF Inv, Typed
  <2>2. fixing' \in [Client -> Fixes]
    BY <1>2 DEF Inv, Typed, Fixes, Idle
  <2>3. DOMAIN sessions' \subseteq Client /\ Made' = Made
    BY <1>2, <1>4 DEF Inv, Typed, Made
  <2> QED
    BY <1>2, <2>1, <2>2, <2>3 DEF Inv, Typed
<1>7. OwnJob' /\ CacheIsComplete'
  <2>1. OwnJob'
    BY <1>2 DEF Inv, OwnJob, Busy, Made, OnePerId
  <2> QED
    BY <1>2, <2>1 DEF Inv, CacheIsComplete
<1>8. NotYetShared'
  <2> SUFFICES ASSUME NEW d \in Client
               PROVE  /\ job[d].stage = "creating" => d \notin DOMAIN sessions'
                      /\ job[d].stage = "updating" => d \in DOMAIN sessions'
                      /\ job[d].stage \in {"creating", "updating"} =>
                           \A g \in job[d].left :
                             /\ state[g] = "raised"
                             /\ d \in DOMAIN sessions' => g \notin sessions'[d].flags
                             /\ fixing'[d].stage = "replacing" => g \notin fixing'[d].seen
    BY <1>2 DEF NotYetShared, FlagsOf
  <2> QED
    BY <1>2, <1>3, <1>4, <1>5 DEF Inv, NotYetShared, FlagsOf
<1>9. OneInSession' /\ OwnFlags'
  <2>1. \A d \in DOMAIN sessions' : OnePerId(sessions'[d].flags)
    BY <1>3, <1>4 DEF Inv, OneInSession, FlagsOf
  <2>2. \A d \in DOMAIN sessions' : \A f \in sessions'[d].flags : origin[f.run].by = d
    BY <1>3, <1>4 DEF Inv, OwnFlags, FlagsOf
  <2> QED
    BY <1>2, <2>1, <2>2 DEF OneInSession, OwnFlags, FlagsOf, OnePerId
<1>10. FixUnderWay'
  <2> SUFFICES ASSUME NEW d \in Client, d # c
               PROVE  /\ fixing[d].stage \in {"applied", "targeted", "replacing"} => d \in DOMAIN sessions'
                      /\ fixing[d].stage = "applied" =>
                           \A g \in sessions'[d].flags : g.id = fixing[d].id => state[g] \in {"raised", "applied"}
                      /\ fixing[d].stage \in {"targeted", "replacing"} =>
                           fixing[d].target \in Made /\ origin[fixing[d].target.run].by = d
                      /\ fixing[d].stage = "replacing" =>
                           /\ fixing[d].seen \subseteq Made /\ OnePerId(fixing[d].seen)
                           /\ \A g \in fixing[d].seen : origin[g.run].by = d
    BY <1>2, <1>5 DEF FixUnderWay, FlagsOf, Made, OnePerId
  <2> QED
    BY <1>4 DEF Inv, FixUnderWay, FlagsOf
<1>11. RejectedNotFixed'
  BY <1>2, <1>5 DEF Inv, RejectedNotFixed
<1> QED
  BY <1>6, <1>7, <1>8, <1>9, <1>10, <1>11 DEF Inv

\* The process stops: nothing of it is left but the analyses that were made.
LEMMA MapRaceInv ==
  ASSUME Inv, NEW c \in Client, MapRace(c)
  PROVE  Inv'
<1>1. /\ UNCHANGED <<runs, origin>>
      /\ DOMAIN state' = {} /\ DOMAIN cache' = {} /\ DOMAIN sessions' = {}
  BY DEF MapRace
<1>2. /\ \A d \in Client : fixing'[d].stage = "idle" /\ d \in Analyser
      /\ \A a \in Analyser : job'[a].stage \in {"idle", "exited"}
  BY DEF MapRace, Idle, Analyser
<1>3. Typed'
  <2>1. conn' \in [Client -> {"new", "open", "closed"}]
    BY DEF Inv, Typed, MapRace
  <2>2. job' \in [Analyser -> Jobs] /\ fixing' \in [Client -> Fixes]
    BY DEF MapRace, Jobs, Fixes, Idle
  <2>3. /\ state' \in [Made' -> FlagState] /\ Made' = {}
        /\ cache' \in [DOMAIN cache' -> SUBSET Made']
        /\ sessions' \in [DOMAIN sessions' -> [text : Text, flags : SUBSET Made']]
    BY <1>1 DEF MapRace, Made
  <2> QED
    BY <1>1, <2>1, <2>2, <2>3 DEF Inv, Typed
<1> QED
  BY <1>1, <1>2, <1>3 DEF Inv, OwnJob, Busy, NotYetShared, OneInSession, FixUnderWay,
     OwnFlags, RejectedNotFixed, CacheIsComplete

LEMMA NextInv == Inv /\ [Next]_vars => Inv'
<1> SUFFICES ASSUME Inv, [Next]_vars PROVE Inv'
  OBVIOUS
<1>1. CASE UNCHANGED vars
  <2>1. /\ UNCHANGED <<runs, origin, state, sessions, fixing, conn, job, cache>>
    BY <1>1 DEF vars
  <2>2. /\ conn' \in [Client -> {"new", "open", "closed"}] /\ job' \in [Analyser -> Jobs]
        /\ cache' \in [DOMAIN cache' -> SUBSET Made]
    BY <2>1 DEF Inv, Typed
  <2> QED
    BY <2>1, <2>2, LetGo
<1>2. CASE \E a \in Analyser : \/ \E t \in Text : CacheHit(a, t) \/ CacheMiss(a, t)
                               \/ Detect(a) \/ FinishUpdate(a)
  <2> PICK a \in Analyser : \/ \E t \in Text : CacheHit(a, t) \/ CacheMiss(a, t)
                            \/ Detect(a) \/ FinishUpdate(a)
    BY <1>2
  <2>1. CASE Detect(a)
    BY <2>1, DetectInv
  <2>2. CASE FinishUpdate(a)
    <3>1. job[a].text \in Text
      BY <2>2 DEF FinishUpdate, Inv, Typed, Jobs
    <3> QED
      BY <2>2, <3>1, AnalyserInv
  <2>3. CASE \E t \in Text : CacheHit(a, t) \/ CacheMiss(a, t)
    BY <2>3, AnalyserInv
  <2> QED
    BY <2>1, <2>2, <2>3
<1>3. CASE \E c \in Client : \/ Connect(c) \/ Disconnect(c) \/ DebouncerExits(c)
                             \/ CreateSession(c) \/ \E f \in Flag : AddFlag(c, f)
                             \/ \E id \in FlagId : AcceptOrReject(c, id) \/ BeginFix(c, id)
                             \/ PickTarget(c) \/ CopyFlags(c) \/ EndFix(c) \/ MapRace(c)
  BY <1>3, ConnectionInv, CreateSessionInv, AddFlagInv, DecideInv, PickTargetInv, CopyFlagsInv, EndFixInv, MapRaceInv
<1>4. CASE \E t \in Text : Forget(t)
  BY <1>4, ForgetInv
<1> QED
  BY <1>1, <1>2, <1>3, <1>4 DEF Next

LEMMA Invariant == Spec => []Inv
BY InitInv, NextInv, PTL DEF Spec

-----------------------------------------------------------------------------
\* The variables are well formed and nothing refers to a Flag that was never made: not
\* the cache, not a session, whichever of AnalyzeText and ApplyFix wrote it last.
THEOREM TypeCorrect == Spec => []TypeOK
<1>1. Inv => TypeOK
  <2> SUFFICES ASSUME Inv PROVE TypeOK
    OBVIOUS
  <2>1. \A t \in DOMAIN cache : cache[t] \subseteq Made
    BY DEF Inv, Typed
  <2>2. \A c \in DOMAIN sessions : FlagsOf(c) \subseteq Made /\ sessions[c].text \in Text
    BY DEF Inv, Typed, FlagsOf
  <2>3. /\ \A a \in Analyser : job[a].stage \in Stages
        /\ \A c \in Client : fixing[c].stage \in {"idle", "applied", "targeted", "replacing"}
    BY DEF Inv, Typed, Jobs, Fixes, Stages
  <2> QED
    BY <2>1, <2>2, <2>3 DEF TypeOK, Inv, Typed
<1> QED
  BY <1>1, Invariant, PTL

\* A session holds only Flags of its own connection's analyses, however many
\* connections share the cached objects, and whatever interleaving of analyses, fixes
\* and stops led there (AnalyzeText returns a hit before it looks for a session).
THEOREM SessionsKeepTheirOwn == Spec => []OwnFlags
<1>1. Inv => OwnFlags
  BY DEF Inv
<1> QED
  BY <1>1, Invariant, PTL

\* ApplyFix never replaces text for a flag the user rejected, though it looks for the
\* target in the session a second time, after the transition.
THEOREM NoRejectedTarget == Spec => []RejectedNotFixed
<1>1. Inv => RejectedNotFixed
  BY DEF Inv
<1> QED
  BY <1>1, Invariant, PTL

\* The flags a text is served with from the cache are the engine's for that text, all
\* of them, and at most the plugins' besides, whoever made the analysis.
THEOREM ServedFlagsAreComplete == Spec => []CacheIsComplete
<1>1. Inv => CacheIsComplete
  BY DEF Inv
<1> QED
  BY <1>1, Invariant, PTL
=============================================================================
