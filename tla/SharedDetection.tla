-------------------------- MODULE SharedDetection --------------------------
(***************************************************************************)
(* The detection tree of each rule is wrapped in a CachedNode              *)
(* (domain/detect/cached.go), and a RefNode (ref.go) of another rule's     *)
(* tree leads to that wrapper.  Concurrent analyses share the wrappers:    *)
(* one computes the matches of a text under the write lock of the node,    *)
(* which it still holds while it asks the nodes its tree refers to.        *)
(*                                                                         *)
(* The lock is given back by a statement and not by a defer.  A panic in a *)
(* tree therefore leaves the locks of all nodes the analysis computes in,  *)
(* and the server lives on when the analysis came over HTTP: echo's        *)
(* Recover ends the request only.  (A panic in a live check ends the       *)
(* process, and with it all that is modelled here.)                        *)
(*                                                                         *)
(* What a tree matches is abstract: computing it gives one of Matches.  It *)
(* is a choice and not a function of the text because a union of matches   *)
(* comes out of a Go map in any order.                                     *)
(***************************************************************************)
EXTENDS Integers, Sequences, FiniteSets

CONSTANTS Analyses,   \* goroutines that run the rule engine
          Requests,   \* those of HTTP requests; the others are live checks
          Nodes,      \* the wrapped trees, one per rule
          Refs,       \* the nodes each tree refers to
          Texts,      \* paragraphs, and windows into them
          Windows,    \* the texts a tree may ask about when it runs on a text
          Matches,    \* what a tree may match
          NotCached,  \* no entry in the map
          Nobody      \* no holder of a lock

ASSUME RequestsAssumption == Requests \subseteq Analyses

\* Loading has resolved every reference, and has refused a ring of them.
ASSUME RefsAssumption ==
    /\ Refs \in [Nodes -> SUBSET Nodes]
    /\ \A ring \in SUBSET Nodes : ring # {} => \E n \in ring : Refs[n] \cap ring = {}

ASSUME WindowsAssumption == Windows \in [Texts -> SUBSET Texts]

ASSUME NamesAssumption == NotCached \notin Matches /\ Nobody \notin Analyses

VARIABLES stack,   \* the Detect calls each analysis is in, the innermost last
          writer,  \* who holds the write lock of each node
          cache,   \* CachedNode.cache of each node
          given,   \* history: all that Detect of a node has returned for a text
          broken   \* history: the nodes whose lock a panic has left behind

vars == <<stack, writer, cache, given, broken>>

\* A call is about to look under the read lock, waits for the write lock, or computes;
\* computing, it has some references left to ask about some texts.
Frames == [node : Nodes, text : Texts, pc : {"look", "lock", "compute"},
           todo : SUBSET (Nodes \X Texts)]

Frame(n, t) == [node |-> n, text |-> t, pc |-> "look", todo |-> {}]

Top(p) == stack[p][Len(stack[p])]

At(p, pc) == stack[p] # <<>> /\ Top(p).pc = pc

SetTop(p, frame) == stack' = [stack EXCEPT ![p] = [@ EXCEPT ![Len(@)] = frame]]

\* The tree runs.  Which references it asks, and about which windows into its text, depends
\* on the tree and on what matches: a conjunction may stop early, a threshold asks often.
Compute(p) == \E asks \in SUBSET (Refs[Top(p).node] \X Windows[Top(p).text]) :
                  SetTop(p, [Top(p) EXCEPT !.pc = "compute", !.todo = asks])

\* The call returns these matches.
Return(p, matches) ==
    /\ stack' = [stack EXCEPT ![p] = SubSeq(@, 1, Len(@) - 1)]
    /\ given' = [given EXCEPT ![Top(p).node][Top(p).text] = @ \cup {matches}]

-----------------------------------------------------------------------------
Init ==
    /\ stack = [p \in Analyses |-> <<>>]
    /\ writer = [n \in Nodes |-> Nobody]
    /\ cache = [n \in Nodes |-> [t \in Texts |-> NotCached]]
    /\ given = [n \in Nodes |-> [t \in Texts |-> {}]]
    /\ broken = {}

\* The engine runs a rule over a paragraph.
Start(p, n, t) ==
    /\ stack[p] = <<>>
    /\ stack' = [stack EXCEPT ![p] = <<Frame(n, t)>>]
    /\ UNCHANGED <<writer, cache, given, broken>>

\* The first look, under the read lock: nobody may be writing.
Look(p) ==
    /\ At(p, "look")
    /\ LET f == Top(p)
       IN  /\ writer[f.node] = Nobody
           /\ IF cache[f.node][f.text] # NotCached
              THEN Return(p, cache[f.node][f.text])
              ELSE SetTop(p, [f EXCEPT !.pc = "lock"]) /\ UNCHANGED given
    /\ UNCHANGED <<writer, cache, broken>>

\* A plausible slip: no second look, another analysis may have been faster.
LockWithoutLook(p) ==
    /\ At(p, "lock")
    /\ LET f == Top(p)
       IN  /\ writer[f.node] = Nobody
           /\ Compute(p)
           /\ writer' = [writer EXCEPT ![f.node] = p]
    /\ UNCHANGED <<cache, given, broken>>

\* A plausible slip: the second look returns without unlocking.
LockKeptOnHit(p) ==
    /\ At(p, "lock")
    /\ LET f == Top(p)
       IN  /\ writer[f.node] = Nobody
           /\ writer' = [writer EXCEPT ![f.node] = p]
           /\ IF cache[f.node][f.text] # NotCached
              THEN Return(p, cache[f.node][f.text])
              ELSE Compute(p)
                   /\ UNCHANGED given
    /\ UNCHANGED <<cache, broken>>

\* The write lock, and the second look under it.
Lock(p) ==
    /\ At(p, "lock")
    /\ LET f == Top(p)
       IN  /\ writer[f.node] = Nobody
           /\ IF cache[f.node][f.text] # NotCached
              THEN Return(p, cache[f.node][f.text]) /\ UNCHANGED writer
              ELSE /\ Compute(p)
                   /\ writer' = [writer EXCEPT ![f.node] = p]
                   /\ UNCHANGED given
    /\ UNCHANGED <<cache, broken>>

\* A plausible slip: the window does not move on.
AskAgain(p) ==
    /\ At(p, "compute")
    /\ \E ask \in Top(p).todo :
           stack' = [stack EXCEPT ![p] = Append(@, Frame(ask[1], ask[2]))]
    /\ UNCHANGED <<writer, cache, given, broken>>

\* The tree asks a node it refers to.
Ask(p) ==
    /\ At(p, "compute")
    /\ \E ask \in Top(p).todo :
           LET f == [Top(p) EXCEPT !.todo = @ \ {ask}]
           IN  stack' = [stack EXCEPT ![p] =
                            Append([@ EXCEPT ![Len(@)] = f], Frame(ask[1], ask[2]))]
    /\ UNCHANGED <<writer, cache, given, broken>>

\* The tree is done: the matches are kept and the lock is free again.
Keep(p) ==
    /\ At(p, "compute")
    /\ LET f == Top(p)
       IN  /\ f.todo = {}
           /\ \E matches \in Matches :
                  /\ cache' = [cache EXCEPT ![f.node][f.text] = matches]
                  /\ Return(p, matches)
           /\ writer' = [writer EXCEPT ![f.node] = Nobody]
    /\ UNCHANGED broken

\* The nodes whose matches an analysis computes: it holds their locks.
ComputesIn(p) ==
    {stack[p][i].node : i \in {j \in DOMAIN stack[p] : stack[p][j].pc = "compute"}}

\* A tree panics and Recover ends the request: no statement behind the call gives a lock back.
Panic(p) ==
    /\ At(p, "compute")
    /\ stack' = [stack EXCEPT ![p] = <<>>]
    /\ broken' = broken \cup ComputesIn(p)
    /\ UNCHANGED <<writer, cache, given>>

Step(p) == Look(p) \/ Lock(p) \/ Ask(p) \/ Keep(p)

Next ==
    \/ \E p \in Analyses, n \in Nodes, t \in Texts : Start(p, n, t)
    \/ \E p \in Analyses : Look(p)
    \/ \E p \in Analyses : Lock(p)
    \/ \E p \in Analyses : Ask(p)
    \/ \E p \in Analyses : Keep(p)
    \/ \E p \in Requests : Panic(p)

\* The Go scheduler runs every goroutine, and sync.RWMutex starves nobody.
Fairness == \A p \in Analyses : SF_vars(Step(p))

Spec == Init /\ [][Next]_vars /\ Fairness

-----------------------------------------------------------------------------
(* Properties *)

\* The analyses, locks, caches and what was returned have their types.
TypeOK ==
    /\ stack \in [Analyses -> Seq(Frames)]
    /\ writer \in [Nodes -> Analyses \cup {Nobody}]
    /\ cache \in [Nodes -> [Texts -> Matches \cup {NotCached}]]
    /\ given \in [Nodes -> [Texts -> SUBSET Matches]]
    /\ broken \in SUBSET Nodes

\* Unless a panic has left it, the write lock of a node is held exactly by the analysis that
\* computes its matches: no return leaves it behind, and no nested call of the same analysis
\* takes it away.  What a panic has left stays locked, and nobody computes there any more.
HeldByItsComputation ==
    /\ \A n \in Nodes, p \in Analyses :
           n \notin broken /\ writer[n] = p <=> n \in ComputesIn(p)
    /\ \A n \in broken : writer[n] # Nobody

\* All analyses see the same matches of a rule in a text, whoever computed them first and
\* however its maps were ordered.
SameMatchesForAll ==
    \A n \in Nodes, t \in Texts : given[n][t] \subseteq {cache[n][t]}

\* The matches of a text are computed once: what is cached is never replaced.
NeverRecomputed ==
    [][\A n \in Nodes, t \in Texts : cache[n][t] # NotCached => cache'[n][t] = cache[n][t]]_vars

\* An analysis waits for a lock that a panic has left, or for one held by an analysis that
\* is stuck itself: the least set of analyses closed under this.
Stuck(p) ==
    \A stuck \in SUBSET Analyses :
        (\A q \in Analyses :
            /\ At(q, "look") \/ At(q, "lock")
            /\ Top(q).node \in broken \/ writer[Top(q).node] \in stuck
            => q \in stuck)
        => p \in stuck

\* Every Detect returns, or ends in front of a lock that a panic has left: analyses that
\* hold the locks of some nodes and wait for others never wait in a ring, because
\* references do not form one.
EveryDetectEnds == \A p \in Analyses : stack[p] # <<>> ~> stack[p] = <<>> \/ Stuck(p)
=============================================================================
