# redpolitika: models, checks and proofs

redpolitika is a text editor for editorial rules. The server (Go) finds what a
set of YAML rules flags in a text, alone or with the help of plugins, and
answers over a WebSocket; the page (Next.js) shows the flags, runs some of the
rules itself and puts their fixes into the text.

This directory models what can go wrong between the parts of that system: TLA+
modules of its components, TLC configurations that check them on small
instances, and theorems that TLAPS proves for every instance. The code is the
reference. Paths below are relative to `src/`; `backend/internal/` is left out
where a Go path starts with `domain`, `usecase`, `infra` or `transport`.

1. [The system](#1-the-system)
2. [What is modelled where](#2-what-is-modelled-where)
3. [Runs](#3-runs)
4. [Proofs](#4-proofs)
5. [Where code and documents disagree](#5-where-code-and-documents-disagree)
6. [What is not modelled](#6-what-is-not-modelled)
7. [Plan](#7-plan)

## 1. The system

### Components, their state and their operations

| Component | Code | State | Operations |
|---|---|---|---|
| Analysis cache | `infra/cache/lru_cache.go` | a map of hash pairs, a list in order of use, an expiry per entry | Get, Set, Invalidate, a sweeper |
| Live connection | `transport/ws/handler_live.go`, `hub.go` | three goroutines, `checkCh` (1), `client.send` (64), `client.done`, a debounce timer | read, debounce, analyse, write, leave |
| Use-cases | `usecase/*.go` | none of their own; sessions, flags and the cache | AnalyzeText, AcceptRejectFlag, ApplyFix |
| Sessions and flags | `domain/model/session.go`, `flag.go`, `infra/session/memory_store.go` | a map of sessions; of each its text, its flags and scores; each flag's state | AddFlag, ReplaceFlags, AcceptFlag, RejectFlag, ApplyFlag |
| Fix applier | `domain/service/fix_applier.go` | none: text and flags in, text and flags out | Apply, ApplyAll |
| Detection | `domain/detect/detect.go`, `domain/model/rule.go`, `domain/service/rule_engine.go` | none: a tree of nodes and a text give ranges, ranges give flags | Detect of some 25 kinds of nodes |
| Rule parser | `infra/rules/parser.go`, the builders in `domain/detect`, `domain/fix` | the registries of methods | a YAML node to a detect or a fix tree |
| Shared detection | `domain/detect/cached.go`, `ref.go` | per rule a map of texts to matches, under an RWMutex | Detect, which calls Detect of other rules |
| Rule loading | `infra/rules/*.go`, `domain/model/ruleset.go` | the rule set, loaded once | read three layers, parse, merge, resolve references |
| Plugin host | `infra/plugin/*.go` | plugin processes, clients by name, the registry, the method registries | ScanDir, StopAll, Detect and Fix calls |
| Server lifecycle | `backend/cmd/api/main.go`, `transport/http/server.go` | fx's start and stop hooks | start, signal, stop, exit |
| HTTP | `transport/http/*.go` | none | analyze, client rules, rules, pages, health |
| Editor store | `frontend/src/lib/store.ts`, `app/page.tsx`, `components/FlagCard.tsx` | the text, the flags with their status and span, the scores | setText, applyFlagFix, applyAllAccepted, rejectFlag, merges |
| Editor connection | `frontend/src/lib/api.ts` | a socket, a reconnect timer, a status | connect, send, reconnect, disconnect |
| Client engine | `frontend/src/lib/client-engine.ts` | none | run client rules, find an anchor in a text |
| Scores, fix trees | `domain/service/score_calculator.go`, `domain/fix/fix.go` | none | pure functions |
| Around it | database, LLM batcher, pages plugin, configuration, deployment | | |

### How they interact

    editor  --check, accept, reject, applyAll-->  read pump --checkCh--> debounce goroutine
      ^                                               |                        |
      |                                        accept, reject,            AnalyzeText
      |                                          ApplyFix                      |
      |                                               |       +----------------+-----------------+
      +---- check_result, ack ---- write pump         v       v                v                 v
                 ^                                sessions, flags         rule set         engine, plugins
                 +------------- client.send <-------- by pointer ----> analysis cache

* The read pump and the debounce goroutine of a connection call the use-cases
  at the same time. Nothing locks a session, and the flags of a session are the
  objects of the cached analysis.
* All analyses of the process share one rule set, the caches of its trees, the
  analysis cache and the plugins. HTTP requests analyse without a session.
* The page names each flag by its anchor (paragraph, matched text, which copy)
  and finds the anchor again in whatever its text has become; answers to other
  texts are thrown away by their hash.

### What is hard here

* **Interleavings.** Two goroutines on one channel of capacity 1; two
  goroutines on one session; analyses that wait for each other's locks through
  references between rules; requests that parse rules while plugins register
  their methods.
* **Ordering.** Answers to texts that have changed, client rules before server
  rules, fixes before the answer to the fix before, close events of sockets
  that have a successor.
* **Failure.** A plugin that does not start, crashes, hangs or answers with an
  error; a rule file that does not parse; a process that the Go runtime aborts
  because two goroutines touch a map; a start that takes too long.
* **Arithmetic on positions.** Spans that shift under fixes, windows that cut
  words, copies that overlap, three pieces of code that split paragraphs and
  count copies each in its own way.

What makes each part correct is the list of properties in section 3. The
places in the code where these things bite, one by one, are the hazards in
`PROJECT.json`, with the properties that watch each.

## 2. What is modelled where

`PROJECT.json` maps each definition to the lines it stands for. Definitions
that begin with "A (plausible) slip" are wrong variants of the definition after
them, used to see that a property notices; no specification reaches them.

**AnalysisCache, LruCache.** `AnalysisCache` is the port
(`domain/ports/ports.go`) as its one user may rely on it: an abstract cache
that may forget anything but never serves what it should not. `LruCache` is
the code: every operation holds the mutex throughout and is one action. The
list is the set of its elements with the relation "stands in front of"; the
clock counts minutes and cannot pass a tick of the sweeper. `KeepsPromise` is
the refinement, with the map `items` standing for what is stored.

**LiveConnection.** One connection with its three goroutines as program
counters. Between two channel operations nothing is visible to the others, so
each action is one channel operation, one call to `runCheck` (two: it takes
time) or one write. `Drain` and `Refill` are the two statements after the
`default` of handler_live.go:161. A check is its number in the order of sending.
Go's timer is "stopped", "running" or "expired" with its tick still in the
channel. The browser may leave at any moment, closing or just silent.

**ReviewSessions.** What these goroutines do to shared state: one step per
access to the store, the cache or the map of a session. A `Flag` is an ID and
the analysis that made it, so that two objects of one ID differ. `MapRace` is
the runtime's abort when AddFlag meets a reader; the process starts again empty.
A fix takes its target (`PickTarget`), copies the flags (`CopyFlags`) and puts them
back (`EndFix`) in three steps, between which an analysis may add a flag.
`CacheHit` changes nothing: a cached analysis is answered without a session.
What a fix does to spans is `FixApplier`'s matter; here it may keep any subset
the code can keep.

**FixApplier, TextReview.** `FixApplier` has the operators of the service on
a text, byte ranges and suggestions. Like the service it splits the text into
paragraphs for every fix and puts them together again: `Paragraphs` reads the text
character by character and takes the second newline in a row for a break, as
`strings.Split` does from the left. `TextReview` runs the operators on the text of a
session, with flags on any characters and whatever the rules may suggest
(`Suggestions`, newlines and deletions included). `intact` is not in the code: it counts the
paragraphs before the first in which a fix made or moved a paragraph break.

**RuleTrees, TextScan, DetectNodes, FixTrees, Scores, RuleFlags, RuleDetection.** All that
computes, from a rule file to a score. `RuleTrees` takes a rule from its YAML
nodes through every shape `parser.go` accepts to what the builders make of it: a
detect tree, a fix tree, the references, or an error. `TextScan` has the
scanners, `DetectNodes` every built-in node as a function over trees, `FixTrees`
every node of a fix with the expansion of groups, `Scores` the formulas of the
server and of the editor. `RuleFlags` runs rules on a text as
`Rule.Detect` and the engine do, with the anchor and the ID of every flag, the
plugin adapter's way from offsets in the whole text to anchors, the
editor's `anchorToSpan` and both scores; what a rule matches and what its fix puts there
are constants of it (`Matches`, `AutoFix`). `RuleDetection` gives them their meaning: it
reads the files, links the references and has the trees evaluated, and says
what kinds of nodes promise. One character is one byte, and a regular expression is a
sequence of character sets with groups over it. The order of a Go map matters to
nodes that keep the first match of each start; it is a choice of the run
(`MapOrders`, which `RuleDetection` makes `Orders`). A match carries its groups in
the code; here a tree finds them again from the range of the match (`GroupsOf`). That is the
same because no tree makes two matches of one range with different groups: those of one
expression do not overlap, a union drops the groups, and the nodes that keep them only
choose among the matches of one child.

**RuleLoading.** Requests take the repository's mutex, read the three layers
one after the other (somebody may edit one in between), merge them a rule at a
time, resolve and keep the set, or fail. Merging is private to the load; it has a
step per rule so that what it has done so far can be stated and proved about. The rules a directory holds are those `ruleFromYAML` of
`RuleTrees` makes of its file: the MC module writes files and parses them.

**SharedDetection.** A stack of Detect calls per analysis, the write lock of
every node, its cache. What a tree matches and which references it asks is a
choice, so the result holds for all trees. Readers hold the lock for a look-up
and nothing else, so their lock needs no variable. A tree may panic (`Panic`; positions from
a lower-cased text used in the original can do it, detect.go:335) and no `defer` unlocks the
nodes above it: when the analysis came over HTTP, echo's Recover (server.go:43) lets the
process live on with these locks held (`broken`). A panic in a live check ends the process.

**PluginHost.** fx's hooks, the scan of the plugin directory step by step,
plugins that crash and hang at any moment, and analyses that load the rules
and call plugins in every stage of the server's life.

**Editor.** The page: store, debounce timer, socket and server as seen from
the page. A handler and the effects React runs after it are one step. Rules flag
single characters of a one-paragraph text; a fix deletes or replaces.

**MC modules** give the constants their values for TLC; **Proofs modules**
hold the theorems.

The modules meet where the code does: AnalysisCache is the cache as
ReviewSessions uses it (`Forget`, and nothing stale), FixApplier's results are
what ReviewSessions lets a fix do, RuleLoading establishes what SharedDetection
and RuleDetection assume of rules (no ring of references: `RefsLeadSomewhere`
there, `RefsAssumption` here), and LiveConnection establishes that a client's
checks come to ReviewSessions one at a time and in order.

## 3. Runs

State counts are distinct states.

| Run | States | Instance | What it shows |
|---|---|---|---|
| LruCache | 321k | 2 x 2 keys, capacity 2, lifetime 2, 5 minutes, 4 calls | `MapListAgree`, `RecencyOrder`, `SweptWithinTtl`, `EvictsLeastRecent`, and that the cache implements `AnalysisCache` (`KeepsPromise`) |
| LiveConnection | 207k | send buffer of 2, 5 messages | the last check is never lost (`LatestKept`), never run twice or after a later one (`ChecksInOrder`), results arrive in order (`ResultsInOrder`); the last check is run (`LatestChecked`) and all goroutines end (`Disconnects`) unless the read pump wedges |
| LiveWedge | | send buffer of 1, 3 messages | the wedge: violates `EveryLastCheckRuns` |
| ReviewSessions | 2.1M | 2 connections, 1 HTTP request, 2 texts, 2 flag IDs, 2 analyses | a session has only flags its own connection's analyses made (`OwnFlags`), the fix of a rejected flag never reaches the text (`RejectedNotFixed`), the cached analysis of a text is of that text and has all the engine finds (`CacheIsComplete`) |
| TextReview | 1.0M | every text of up to 4 characters over 3, newlines wherever they may stand, 3 flags, a deletion and a suggestion with a newline | flags keep marking the characters they were raised for, before the first paragraph that a fix has split or joined (`SpansStayTrue`), and fixes do not make flags overlap (`NoNewOverlap`) |
| RuleDetection | 113k | every text of up to 6 characters over 6, 22 rules, `Norm` = 2 | the editor finds each flag where it was found (`AnchorsResolve`), no two share an ID (`FlagIDsDistinct`), each kind of node means what it says (`WordsFoundWhole`, `CombinedAsWritten`, `ThresholdReached`, `WindowMatchesAreMatches`, `NearInOneSentence`), a fix gets the groups of its match (`GroupsOfTheMatch`), a rule has nothing to flag in what its fix puts in, but for two kinds of rule that always have (`FixSettles`), and the editor's score of the flags of an answer follows from the server's (`ScoresAgree`) |
| RuleLoading | 165k | 8 contents in each of 3 layers, 1 edit, 2 requests | references are sound (`RefsLeadSomewhere`), the last layer decides (`LastLayerDecides`), one rule set for all (`OneRuleSet`), everyone is answered (`EveryoneAnswered`) |
| ClientRules | | the same, no edit | no loaded rule is served to the browser: violates `ClientRulesServed` |
| SharedDetection | 991k | 2 analyses, one of them over HTTP, a chain of 3 rules, a paragraph and a window | locks are held by computations or left by panics (`HeldByItsComputation`), all get the same matches (`SameMatchesForAll`), every Detect returns unless it waits, itself or behind another, for a lock that a panic left (`EveryDetectEnds`) |
| Editor | 471k | 3 texts of up to 3 characters, a deletion and a longer replacement, 1 answer on its way | highlights are where they should be (`HighlightsTrue`), "apply all" puts each fix where its flag is (`AllFixedWhereMarked`), rejected flags stay rejected (`RejectedStay`), the connection is tended (`ConnectionTended`), the answer to the last check is shown (`LastCheckShown`) |
| EditorHighlights | | the same, no client rules | after a fix they are not: violates `HighlightsStayValid` |
| PluginHost | 63k | 3 binaries of 2 names, 2 methods of which one is offered twice, 2 analyses | no live plugin is out of reach of StopAll (`EveryProcessHeld`), loaded rules have their plugins (`LoadedRulesServed`), an analysis ends unless the plugin it calls hangs for good or the server exits (`AnalysesEnd`) |

### Bounds, and why they are enough

* *LruCache*: two entries and a third key force an eviction, two configurations
  an invalidation that spares a key, five minutes two ticks of the sweeper.
  `MaxNow` and `MaxUses` bound the clock and the calls; the proofs need neither.
* *LiveConnection*: three checks fill hand, channel and debounce goroutine;
  five messages and a buffer of two leave room for acks, a full buffer and a
  drop. `MaxSent` bounds the messages; the safety proofs do not depend on it.
* *ReviewSessions*: an analysis needs a second one that replaces its flags
  (`MaxRuns` = 2), from another connection or the same; the texts share a flag
  ID because an ID does not name its text, and a plugin adds a second.
* *TextReview*: two fixes in a row that move a third flag; four characters give
  two paragraphs with text on both sides of the break, and newlines alone, in pairs
  and in threes. Suggestions are a deletion and a newline with a character, so that fixes
  make, move and take away breaks; the proofs need no bound.
* *RuleDetection*: six characters hold two paragraphs with two copies of a
  letter in each, three words in a row for the windows, or two sentences with a
  match on both sides of the stop. The rules use every kind of node, most of
  them inside another, and every kind of fix; among them are the guide's rules for
  lower case, for capitals and for a word after a colon.
  `Norm` stands for the 100 words of the code: with 2 there are texts on both
  sides of the server's floor.
* *RuleLoading*: eight contents have every shape of an override: a reference
  each way (hence a cycle across layers), disabled, switched off, and two files
  that do not load, one for its rule and one for its tree.
* *SharedDetection*: two analyses entering a chain at any two of its three
  rules; the proofs cover any number.
* *Editor*: two copies of a character and another behind them make a
  fix renumber and shift; one answer on its way (`MaxAnswers`) can be to an
  older text while the next is being typed.
* *PluginHost*: two plugins that offer one method, one that is there twice.

Symmetry is used in LruCache (hashes, values), ReviewSessions (connections) and
TextReview (flags), none of which checks liveness. Deadlock is not checked
where the system may stop: a connection ends, a review runs out of flags,
bounded histories end, and once a panic has left a lock all analyses may wait for it. That
they never wait for each other otherwise is `EveryDetectEnds`.

### Fairness, and why the code justifies it

* *LiveConnection*: each goroutine that can run does (the Go scheduler), and a
  timer expires. `runCheck` is taken to end: a plugin that never answers is
  PluginHost's matter, and there the analysis indeed does not end. Nothing
  is assumed of the browser.
* *SharedDetection, RuleLoading*: strong fairness per goroutine, since Go's
  mutexes hand over to a waiter after a millisecond and starve nobody.
* *PluginHost*: the scan goes on (connecting takes at most 30 s, capabilities
  5 s), fx goes on with its hooks, a call to a live plugin returns. Crashes,
  hangs, signals and time-outs may happen or not.
* *Editor*: timers fire, the server answers the last check, messages arrive.
  Sockets need not open and users need not type.

## 4. Proofs

Eight modules have proofs for every value of their constants. Each follows the
same plan: an invariant (`Inv` or `IInv`), a lemma per action that the action keeps
it, the lemmas joined by `Next`, and a last temporal step. The theorems rest on
the named assumptions of the modules about their constants and on nothing else.

**LruCacheProofs**, for any hashes, size and lifetime (from
`OptionsAssumption`, `BoundsAssumption` and `AnalysisAssumption`): type
correctness, `MapListAgree`, `SizeBound`, `RecencyOrder`, `SweptWithinTtl`, the
action property `EvictsLeastRecent` and the refinement `KeepsPromise`. The
properties are not inductive alone. To keep the list in order of use the
uses must differ (`DistinctUses`); that nothing outlives its expiry by more
than a lifetime needs to know when the sweeper comes next (`SweepDue`); that
Set finds somebody to evict (`BackExists`) needs a least element of a finite
set of stamps, which is where well-foundedness of < on Nat comes in; and the
size bound needs `IsFiniteSet`, since Cardinality says nothing otherwise. The
refinement then has one lemma per abstract action.

**LiveConnectionProofs**, for any buffer and any number of messages: type
correctness, `LatestKept`, `ChecksInOrder`, `ResultsInOrder`. The argument is one
order. The checks on the wire are newer than the last one read (`WireOrder`),
which is the one in the read pump's hands (`HandOrder`), which is newer
than the one in the channel, newer than the debounce goroutine's
(`ChannelOrder`), newer than those analysed while it waits (`DebounceOrder`),
whose results are in order in the buffer, with the write pump and at the
browser (`ResultOrder`). Reading, draining and refilling move a check along
this chain and never past another. `LatestKept` is part of the invariant: when a
check is replaced, the one that replaces it is the last read.

**SharedDetectionProofs**, for any number of analyses, rules, texts, windows
and depth of references: type correctness, `HeldByItsComputation`,
`SameMatchesForAll`, and that what is cached is never replaced
(`ComputedOnce`), panics and the locks they leave included. All calls of a stack but the last are computing
(`OuterCompute`), an analysis computes at no node twice (`OncePerNode`),
and what is being computed is not yet cached (`NotYetCached`): with the lock
held by its computation only, nobody else can have stored it meanwhile.

**ReviewSessionsProofs**, for any number of connections, requests, texts, flag
IDs and analyses: type correctness, `OwnFlags`, `RejectedNotFixed`,
`CacheIsComplete`. An analysis under way holds flags of its own (`OwnJob`), and
those it has still to put into the session are as they were raised and in nobody's
copy (`NotYetShared`); so a decision, which changes the one flag of its ID
(`OneInSession`) of the decider's own session, changes none of them, nor a flag
of any other connection. `FixUnderWay` is what makes `RejectedNotFixed`
inductive: between the transition and the second look for the target, the only flags
of that ID which can have come into the session are new ones. Since the
read pump handles one message at a time, nobody rejects one of these meanwhile.

**RuleProofs** has two parts. The first, on RuleLoading, for any layers, files, edits
and requests: type correctness, `OneRuleSet`, `RefsLeadSomewhere`, `LastLayerDecides`. Who loads
has the mutex, and nobody loads once there is a set (`LockIsLoad`); what is merged
comes from the layers read (`FromLayers`); and of every rule that no layer has twice the
merged set has in use what the last layer merged so far has (`MergedSoFar`), which is why
the model merges a rule per step. That a rule has a last place wherever it has one is
a least element again. That the references named in a file are those of its tree
(`ContentsAssumption`) is what `parser.go` does; TLC evaluates it on the files
the run parses.

The second part, on RuleFlags, holds for any characters, texts of any length, rules,
matches of their trees, orders of a Go map and words of plugins: `AnchorsResolve`,
`FlagIDsDistinct`, `ScoresAgree` (for any severities and lengths). The inductive invariant is short (`FlagsInv`: the flags
are none, or what one check finds in the text as it stands); the work is in
what a check finds. It rests on `NormAssumption` and `RulesAssumption`: finitely many
rules that differ in their ids, severities that are natural numbers, and plugins whose
words are not empty and have no newline. A plugin that reports a match across a paragraph
break is outside of it: detect_adapter.go:113 cuts such a match at the end of its
paragraph. The argument:

* *Counted copies lead back* (`CountLeadsBack`). The server counts the copies of the
  matched text before the match, the editor looks for copies one after the other. Both
  jump from a copy to behind its end, and both are recursive functions over offsets, so
  their existence and what they compute are inductions from the end of the text
  backwards (`OnwardsExists`, `OnwardsInduction`). If copies cannot overlap, a jump from a
  copy never passes the start of another (`CopiesApart`), so the one the server was
  counting for is the one the editor ends at (`CopiesReach`).
* *Paragraphs are alike* (`SplitAlike`). The server splits at every blank line, the
  editor drops what is empty at the end; both are chains of places with breaks between
  them that begin with the same paragraphs, and no flag is in an empty one.
* *A plugin's offset is in the paragraph the adapter says* (`ParagraphFound`): it adds up
  lengths, and each sum is where a paragraph starts (`Starts`). A word without a newline
  does not leave its paragraph (`WordInside`), so what the adapter cuts out is the word.
* *One anchor, one place* (`OnePlace`) follows, as the number of copies reaches one offset
  only. A match is determined by its place and its text, hence a flag by its ID.
* *Two scores*: with distinct IDs the editor, which keeps one flag of each, has the
  flags of the server (`Shown` is `flags`). The sum of severities is a fold over a finite
  set whose value is a natural number by an induction over cardinality
  (`SumsExist`, `PenaltyIsNat`), and what is left is arithmetic: the server rounds what the
  editor leaves a fraction (`LongText`), or divides by `Norm` where the editor divides by the
  words (`ShortText`).

The condition `CopiesCannotOverlap` is the code's, not the proof's: of "aaa" a rule for
"aa" may match the second copy, which neither side counts.

**PluginHostProofs**, for any binaries, methods and analyses: `EveryProcessHeld`
and `LoadedRulesServed`. The name a launched plugin is to have is still free
(`NameIsFree`), so storing its client loses no other; nothing is left on offer when the
scan goes on (`OfferInHand`); a method that has a builder has a plugin, or the one the
scan is just registering offers it (`BuildersServed`); and rules are only loaded once
all their methods have builders (`LoadedHasBuilders`).

**EditorProofs**, for any texts, fixes and rules: `ConnectionTended`, from the
fact that a reconnect timer runs only while there is no socket (`OneWayIn`), and the
action property `RejectedStay`. Its hard case is typing: a rejected flag whose anchor is
lost is dropped, and the page's rules run in the same step. They cannot bring it
back, because every anchor a rule makes leads to a place in the text
(`FoundIsThere`): of n copies of a character, each number below n is
the number of copies before one of them, since counting those before is an injection
into n numbers, hence onto them (`NthPlace`).
The same module proves `HighlightsTrue` (`HighlightsStayTrue`). Its invariant
(`HighlightInv`) says that every highlight marks its character unless a fix is in the
text that no answer has seen, that the text is one over the characters of all texts
and fixes, and that the flags are of the rules' characters and finitely many, so that
there is an order to put them in. An answer is merged only into the text it is of, so
no invariant about those on their way is needed. The text after "apply all" is a fold over the flags; that it is still a text
is an induction over how many of them are done (`InTurnKeepsAlphabet`).

**TextReviewProofs**, for any characters, texts, number of flags and suggestions
(`TextsAssumption` says only what is a text and that there are finitely many flags): type
correctness, `SpansStayTrue`, `NoNewOverlap`, and which fixes leave all paragraphs whole
(`TameFixResplitsNothing`: those without a newline, unless they delete from a paragraph that
has single ones). A span counts from the beginning of its paragraph, but between
two fixes there is only the text, so the proof goes by way of the paragraphs a text
falls into. These are `Clean`: no break begins in any of them, and none but the last
ends with a newline. Splitting makes clean paragraphs (`SplitIsClean`), and clean
paragraphs, put together, are split into the very same (`Split`). A tame fix leaves
paragraphs clean (`FixKeepsClean`). Any other may not, but what stands before its paragraph
is split as before (`EarlierStay`), because reading a text from the left looks ahead
nowhere (`ReadKeepsBeginning`). So the flags of the next fix count, up to `intact`, in the
paragraphs the last one left; there each flag that is not in conflict with the fix marks
what it marked (`FixCarriesOver`), even one right behind it, and two that did not
overlap do not (`FixKeepsApart`). `AdjustSpan` never finds a span that would begin
before its paragraph: the branch that leaves such a span alone is not reached.
The invariant (`Inv`) is type correctness with `SpansStayTrue`. ApplyAll leaves no flag
behind (`NoneLeft`), so there is nothing it could make untrue.

Its inductions are over numbers: a step that keeps a set of numbers closed
under "+ 1" (`CountUp`, from the least element outside), for a recursive function whose
existence is such an induction itself (`ReadingExists` and the like).

Only model-checked are all other properties. Liveness (`LatestChecked`,
`Disconnects`, `EveryDetectEnds`, `EveryoneAnswered`, `AnalysesEnd`,
`LastCheckShown`) is out of the prover's reach. So are the properties RuleDetection
adds to RuleFlags, those that say what a kind of node or of fix means (`WordsFoundWhole`
to `FixSettles`): its trees are evaluated by RECURSIVE operators, for which the
provers have no theory, and what these compute is an induction over trees.

## 5. Where code and documents disagree

Shown by a run (details under "findings" in `PROJECT.json`):

* **LiveWedge.** handler_live.go:162 can wait on `checkCh` for ever.
* **ClientRules.** parser.go:804 wraps every tree in a `CachedNode` before
  `IsNodeSync` is asked (it says no), so no rule from a file is client-side.
* **EditorHighlights.** store.ts:187 keeps spans that a fix has made wrong.

Met while modelling, told here and under "hazards"; the model follows the code:

* A connection that is served from the cache has no session
  (analyze_text.go:96): reject and applyAll fail, though docs/SPEC.md:463 gives
  the answer a session. Sessions outlive their connections (SPEC.md:194).
* A session keeps the text of its first check, and `RecomputeScore` of
  SPEC.md:193 does not exist: scores do not follow decisions.
* Scores: the server counts a text as 100 words at least and rounds
  (score_calculator.go:33), the editor and SPEC.md:343 do neither. The difference shows
  when the page is entered again, or a text typed back, and the editor scores the flags of the
  last answer itself. A decided
  flag no longer counts (SPEC.md:344), until the next check finds it again.
  `calculateTentativeScores` of client-engine.ts has no caller.
* ApplyAll of fix_applier.go:112 against its own comment at :94: with two flags
  in a paragraph the second is neither moved nor skipped. Nothing calls it: the server
  takes an "applyAll" flag by flag (handler_live.go:273), the editor in its own way.
* Of two flags on the same characters, a tentative one and the server's of the same word,
  the editor's "apply all" (store.ts:349) applies both: the second replaces what
  the first has put there, or more than that when that is shorter. By SPEC.md:591 the more severe one wins.
  `AllFixedWhereMarked` speaks of texts without such pairs.
* A fix can make or move a paragraph break. The text is split anew for every fix
  (fix_applier.go:27, text.go:36) and the spans of the other flags count in their
  paragraph. Where single newlines stand in a paragraph, as the editor allows, a deletion
  of what is between two of them ("a" in "\na\n") leaves a blank line, and a suggestion
  with newlines may do the same: from then on the paragraphs of the flags behind it have other
  numbers and contents, and their fixes replace something else, or nothing, though the flag
  then counts as applied. `SpansStayTrue` ends where this begins, at `intact`.
* A panic in a detect tree, over HTTP, leaves the locks of its rule and of all that refer to
  it (cached.go:41): every later analysis that needs one of them waits for ever, in silence.
* A rule can be switched off by `id` and `enabled: false` (SPEC.md:356), but
  without a category such an entry fails the whole load.
* The identity of a flag is computed differently by the server (flag.go:9) and
  the editor (client-engine.ts:177), though SPEC.md:569 has one formula; a flag
  both find is there twice until the answer comes.
* Plugins: the flag of a plugin has a span in the whole text
  (detect_adapter.go:76) that fixes take as one in its paragraph; there is no
  health check (SPEC.md:497); "currently running plugins" (manager.go:156) are
  those once started.
* Shutdown (SPEC.md:498: in-flight calls are cancelled, 5 s): `e.Start` returns
  at once and server.go:58 ends the process with exit code 1.
* `GET /api/client-rules` with no client rule answers `null`, which the
  editor's parser refuses (handler_client_rules.go:48, client-engine.ts:318).
* Rule files. Of what guide-rules.md shows, these do not load: a scalar for `eq`,
  `prefix` or `suffix` (:100, "value is required"), a rule without a category
  (or with one that is neither cleanliness nor readability), `not: {ref: "x"}`, `replace: {with: ""}` (though `autofix: ""`
  does). These load and mean less than written: a rule without a severity weighs nothing; `- sentence_start: {}` inside
  `and` (:398) matches nothing; a second method in one node, a list under `detect`, and
  in the flat form the subtrees, are dropped; the child of `surrounded_by` is
  not asked; the groups promised at :436 are lost in `or`, `before`, `after`,
  `length` and `case`. A position `from: 0` counts as not given.
* Some fixes never settle. Word lists and regular expressions do not tell capitals from
  small letters unless told to, so a rule that finds words by one and fixes their case finds
  what it has fixed: the guide's `lowercase` rule (guide-rules.md:586) offers its
  fix for ever. A `when` in a fix leaves the matches it is not meant for as they are.
  `FixSettles` says of each rule which it is.
* Inline suppressions (rule.go:136, `<!-- rp:disable -->`) are in no code.
* Fixes: `case` with `all_caps` or `all_lower` also flags words without letters,
  which no fix changes; a `regex_replace` with groups of the detection drops what an
  `and` has done before it; references in the condition of `when` are never
  resolved. What is put into the text is the suggestion (fix_applier.go:48).
* The caches of the rule trees keep every text they saw (cached.go:42), for the
  life of the process. Rules that are loaded while plugins register read the
  method registries without a lock (detect.go:58; `RegistryRace` of PluginHost).
* First paragraph, by guide-rules.md:217, is the first of the text; the node
  looks inside each paragraph it is given (rule.go:155).
* A check that comes due without an open socket is never sent (page.tsx:106).

## 6. What is not modelled

* Regular expressions beyond sequences of character sets with groups: the
  matches of the rest are RE2's. `expr` is parsed and has no builder.
* Bytes of a character: case pairs of different length (detect.go:335) are out
  of the model, and so is what makes a tree panic: it may do so at any time.
* Plugin methods inside other methods.
* `StopCleanup` is an action of LruCache, but nothing calls it; `Invalidate`
  likewise; `Delete` of the session store and `Watch` of the rules have no
  caller and are not steps.
* Database, pages, LLM batcher (constructed nowhere), dynamic plugin
  registration, configuration, routes, rendering, deployment: I/O,
  conversions, or code no step of this program reaches. `PROJECT.json` lists
  each with its reason.

## 7. Plan

Order: what several actors share first, then what computes, then the rest.

1. *Done:* AnalysisCache, LruCache with proofs; LiveConnection with proofs;
   ReviewSessions with proofs; FixApplier and TextReview with proofs; RuleTrees, TextScan,
   DetectNodes, FixTrees, Scores, RuleFlags with proofs and RuleDetection; RuleLoading
   with proofs;
   SharedDetection with proofs; PluginHost with proofs; Editor with proofs.
2. *Models next:*
   * LiveConnection refining an abstract connection ("the last check is
     answered, older ones may be") as an INSTANCE.
   * ReviewSessions over the spans of FixApplier, with two flags and short
     texts, so that a session's text and its flags are checked together.
3. *Proofs next:* the scanners of TextScan (words, runs, boundaries of sentences), which
   are not recursive, as lemmas for what single nodes match; the refinement of
   LiveConnection, once its abstract connection is stated.
