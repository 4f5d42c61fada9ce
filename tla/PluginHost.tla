----------------------------- MODULE PluginHost -----------------------------
(***************************************************************************)
(* The life of the server: fx runs the start hooks, one of which scans the *)
(* plugin directory, starts every binary and registers its methods, and on *)
(* a signal the stop hooks, one of which kills the plugins.  The HTTP hook *)
(* only launches a listener, and fx invokes what the transport module asks *)
(* for before what main does, so requests arrive while the scan still      *)
(* runs.  They load the rules, which need the methods, and call plugins.   *)
(*                                                                         *)
(* A binary is its place in the order of the scan; Found gives its base    *)
(* name, which two binaries in different subdirectories may share.  The    *)
(* database hook is left out.  RuleLoading models the load of the rules,   *)
(* ReviewSessions what an analysis does with the flags.                    *)
(***************************************************************************)
EXTENDS Integers, Sequences, FiniteSets, Functions, SequencesExt

CONSTANTS Found,     \* the base names of the binaries, in the order of the scan
          Method,
          Offers,    \* what GetCapabilities of each binary answers
          Rules,     \* the rules in the rule files: sequence of detect and fix methods
          Request    \* analyses

ASSUME OffersAssumption == Offers \in [DOMAIN Found -> SUBSET Method]
ASSUME RulesAssumption ==
    \A k \in DOMAIN Rules : Rules[k].detect \in Method /\ Rules[k].fix \subseteq Method

VARIABLES
  stage,    \* of the server: "starting", "running", "stopping", "shutting", "exited"
  at,       \* ScanDir: the binary it is at
  hand,     \* and how far it is with it
  offered,  \* and the methods of it still to register
  process,  \* what each binary's process does
  clients,  \* Manager.clients: name -> binary
  infos,    \* Registry.infoMap: name -> [methods, conn]
  builders, \* the methods in the registries of detect, fix and the parser
  loaded,   \* whether Repository.cached is set
  req       \* each analysis

vars == <<stage, at, hand, offered, process, clients, infos, builders, loaded, req>>
scan == <<at, hand, offered>>
host == <<stage, process, clients, infos, builders>>

Binary == DOMAIN Found
Live == {b \in Binary : process[b] \in {"running", "hung"}}
NotAsked == [at |-> "idle"]

Init ==
    /\ stage = "starting"
    /\ at = 1
    /\ hand = "next"
    /\ offered = {}
    /\ process = [b \in Binary |-> "none"]
    /\ clients = <<>>
    /\ infos = <<>>
    /\ builders = {}
    /\ loaded = FALSE
    /\ req = [r \in Request |-> NotAsked]

-----------------------------------------------------------------------------
(* ScanDir *)

\* An entry of a Go map, put there or replaced.
With(map, key, value) ==
    [k \in DOMAIN map \cup {key} |-> IF k = key THEN value ELSE map[k]]

Kill(b) == process' = [process EXCEPT ![b] = "dead"]

NextBinary ==
    /\ at' = at + 1
    /\ hand' = "next"
    /\ offered' = {}

Scanning(step) == stage = "starting" /\ at \in Binary /\ hand = step

\* A plausible slip: a binary is only skipped when it is itself registered.
LaunchSameName ==
    /\ Scanning("next")
    /\ process' = [process EXCEPT ![at] = "running"]
    /\ hand' = "launched"
    /\ UNCHANGED <<stage, at, offered, clients, infos, builders, loaded, req>>

\* The base name is taken.
SkipSameName ==
    /\ Scanning("next")
    /\ Found[at] \in DOMAIN clients
    /\ NextBinary
    /\ UNCHANGED <<host, loaded, req>>

Launch ==
    /\ Scanning("next")
    /\ Found[at] \notin DOMAIN clients
    /\ process' = [process EXCEPT ![at] = "running"]
    /\ hand' = "launched"
    /\ UNCHANGED <<stage, at, offered, clients, infos, builders, loaded, req>>

Connected ==
    /\ Scanning("launched")
    /\ process[at] = "running"
    /\ hand' = "connected"
    /\ UNCHANGED <<host, at, offered, loaded, req>>

\* No handshake within StartTimeout, or nothing to dispense.
ConnectFails ==
    /\ Scanning("launched")
    /\ Kill(at)
    /\ NextBinary
    /\ UNCHANGED <<stage, clients, infos, builders, loaded, req>>

Capable ==
    /\ Scanning("connected")
    /\ process[at] = "running"
    /\ offered' = Offers[at]
    /\ hand' = "registering"
    /\ UNCHANGED <<host, at, loaded, req>>

\* GetCapabilities fails, or 5 seconds pass: the plugin stays, without methods.
NotCapable ==
    /\ Scanning("connected")
    /\ hand' = "stored"
    /\ UNCHANGED <<host, at, offered, loaded, req>>

\* detect.Register, fix.Register and RegisterKnownMethod write maps without a lock.
RegisterMethod ==
    /\ Scanning("registering")
    /\ \E m \in offered \ builders : builders' = builders \cup {m}
    /\ UNCHANGED <<stage, scan, process, clients, infos, loaded, req>>

MethodsRegistered ==
    /\ Scanning("registering")
    /\ offered \subseteq builders
    /\ hand' = "stored"
    /\ UNCHANGED <<host, at, offered, loaded, req>>

StoreClient ==
    /\ Scanning("stored")
    /\ clients' = With(clients, Found[at], at)
    /\ hand' = "known"
    /\ UNCHANGED <<stage, at, offered, process, infos, builders, loaded, req>>

\* A plausible slip: the capabilities are not handed on to the registry.
RegisterBareName ==
    /\ Scanning("known")
    /\ infos' = With(infos, Found[at], [methods |-> {}, conn |-> at])
    /\ NextBinary
    /\ UNCHANGED <<stage, process, clients, builders, loaded, req>>

RegisterPlugin ==
    /\ Scanning("known")
    /\ infos' = With(infos, Found[at], [methods |-> offered, conn |-> at])
    /\ NextBinary
    /\ UNCHANGED <<stage, process, clients, builders, loaded, req>>

ScanDir == \/ SkipSameName \/ Launch \/ Connected \/ ConnectFails \/ Capable \/ NotCapable
           \/ RegisterMethod \/ MethodsRegistered \/ StoreClient \/ RegisterPlugin

-----------------------------------------------------------------------------
(* fx: start, signal, stop; and the ways the process ends before that *)

Started ==
    /\ stage = "starting"
    /\ at \notin Binary
    /\ stage' = "running"
    /\ UNCHANGED <<scan, process, clients, infos, builders, loaded, req>>

Exit == stage' = "exited" /\ UNCHANGED <<scan, process, clients, infos, builders, loaded, req>>

\* fx gives all hooks 15 seconds, half of what ScanDir gives one plugin to connect,
\* and does not wait for the hook it gives up.
StartTimesOut == stage = "starting" /\ Exit

\* Go aborts a program that it sees reading a map while another goroutine writes it.
RegistryRace ==
    /\ Scanning("registering")
    /\ offered # {}
    /\ ~loaded
    /\ \E r \in Request : req[r].at = "loading"
    /\ Exit

Signal ==
    /\ stage = "running"
    /\ stage' = "stopping"
    /\ UNCHANGED <<scan, process, clients, infos, builders, loaded, req>>

StopAll ==
    /\ stage = "stopping"
    /\ \E name \in DOMAIN clients :
         /\ Kill(clients[name])
         /\ clients' = Restrict(clients, DOMAIN clients \ {name})
    /\ UNCHANGED <<stage, scan, infos, builders, loaded, req>>

Shutdown ==
    /\ stage = "stopping"
    /\ DOMAIN clients = {}
    /\ stage' = "shutting"
    /\ UNCHANGED <<scan, process, clients, infos, builders, loaded, req>>

\* The closed listener makes e.Start return, and logger.Fatal ends the process at
\* once; only when main is faster do the requests under way end first.
ServerFatal == stage = "shutting" /\ Exit

Fx == Started \/ Shutdown \/ StopAll \/ ServerFatal

-----------------------------------------------------------------------------
(* A plugin's process *)

Crash(b) ==
    /\ stage # "exited"
    /\ b \in Live
    /\ Kill(b)
    /\ UNCHANGED <<stage, scan, clients, infos, builders, loaded, req>>

Hang(b) ==
    /\ stage # "exited"
    /\ process[b] = "running"
    /\ process' = [process EXCEPT ![b] = "hung"]
    /\ UNCHANGED <<stage, scan, clients, infos, builders, loaded, req>>

-----------------------------------------------------------------------------
(* An analysis: the rules, then a call for every rule with an external method *)

Serves == stage # "exited"
Goes(r, to) == req' = [req EXCEPT ![r] = to]
Asking(calls) == [at |-> "asking", calls |-> calls]

\* Over HTTP until the listener closes, over a connection that is open until the end.
Arrive(r) ==
    /\ Serves
    /\ req[r].at = "idle"
    /\ Goes(r, [at |-> "loading"])
    /\ UNCHANGED <<host, scan, loaded>>

Needed == UNION {{Rules[k].detect} \cup Rules[k].fix : k \in DOMAIN Rules}

\* One unknown method fails the whole load, and nothing is cached.
Load(r) ==
    /\ Serves
    /\ req[r].at = "loading"
    /\ IF loaded \/ Needed \subseteq builders
       THEN /\ loaded' = TRUE
            /\ Goes(r, Asking([k \in DOMAIN Rules |-> [kind |-> "detect", rule |-> k]]))
       ELSE /\ Goes(r, [at |-> "failed"])
            /\ UNCHANGED loaded
    /\ UNCHANGED <<host, scan>>

MethodOf(call) ==
    IF call.kind = "detect" THEN Rules[call.rule].detect
    ELSE CHOOSE m \in Rules[call.rule].fix : TRUE

\* Any of the plugins that have the method: the order of a map.
LookupMethod(m) == {name \in DOMAIN infos : m \in infos[name].methods}

Call(r) ==
    /\ Serves
    /\ req[r].at = "asking"
    /\ req[r].calls # <<>>
    /\ \E name \in LookupMethod(MethodOf(Head(req[r].calls))) :
         Goes(r, [at |-> "waiting", calls |-> req[r].calls, conn |-> infos[name].conn])
    /\ UNCHANGED <<host, scan, loaded>>

\* No plugin has the method: the error is logged, and the next rule tried.
CallFails(r) ==
    /\ Serves
    /\ req[r].at = "asking"
    /\ req[r].calls # <<>>
    /\ LookupMethod(MethodOf(Head(req[r].calls))) = {}
    /\ Goes(r, Asking(Tail(req[r].calls)))
    /\ UNCHANGED <<host, scan, loaded>>

\* A flag found by a rule with an external fix is taken to that fix.
Returns(r) ==
    /\ Serves
    /\ req[r].at = "waiting"
    /\ process[req[r].conn] = "running"
    /\ LET call == Head(req[r].calls)
           rest == Tail(req[r].calls)
       IN  \/ Goes(r, Asking(rest))
           \/ /\ call.kind = "detect"
              /\ Rules[call.rule].fix # {}
              /\ Goes(r, Asking(<<[call EXCEPT !.kind = "fix"]>> \o rest))
    /\ UNCHANGED <<host, scan, loaded>>

\* A plausible slip: a call to a dead plugin is retried.
BrokenAgain(r) ==
    /\ Serves
    /\ req[r].at = "waiting"
    /\ process[req[r].conn] = "dead"
    /\ Goes(r, Asking(req[r].calls))
    /\ UNCHANGED <<host, scan, loaded>>

Broken(r) ==
    /\ Serves
    /\ req[r].at = "waiting"
    /\ process[req[r].conn] = "dead"
    /\ Goes(r, Asking(Tail(req[r].calls)))
    /\ UNCHANGED <<host, scan, loaded>>

Answer(r) ==
    /\ Serves
    /\ req[r].at = "asking"
    /\ req[r].calls = <<>>
    /\ Goes(r, [at |-> "answered"])
    /\ UNCHANGED <<host, scan, loaded>>

Analyse(r) == Load(r) \/ Call(r) \/ CallFails(r) \/ Returns(r) \/ Broken(r) \/ Answer(r)

-----------------------------------------------------------------------------
Next == \/ ScanDir \/ Fx \/ StartTimesOut \/ RegistryRace \/ Signal
        \/ \E b \in Binary : Crash(b) \/ Hang(b)
        \/ \E r \in Request : Arrive(r) \/ Analyse(r)

\* The scan has its time-outs and calls to a live plugin return; nothing makes a
\* plugin crash or hang, a signal arrive, or the start take 15 seconds.
Fairness == /\ WF_vars(ScanDir)
            /\ WF_vars(Fx)
            /\ \A r \in Request : WF_vars(Analyse(r))

Spec == Init /\ [][Next]_vars /\ Fairness

-----------------------------------------------------------------------------
(* Properties *)

\* While the server is alive every live plugin process is one that StopAll would
\* kill, or the one ScanDir has in its hands.
EveryProcessHeld ==
    stage # "exited" =>
        \A b \in Live : \/ b \in Range(clients)
                        \/ stage = "starting" /\ b = at /\ hand # "next"

\* Once rules with external methods are loaded, each of these methods finds a plugin,
\* but for those of the plugin that ScanDir is registering at that moment.
LoadedRulesServed ==
    loaded => \A m \in Needed : LookupMethod(m) # {} \/ m \in offered

WaitsForHung(r) == req[r].at = "waiting" /\ process[req[r].conn] = "hung"

\* An analysis ends, unless the server exits or the very plugin it calls hangs for good: it
\* is not held up by a plugin that hangs elsewhere, by the analyses waiting for that one, or
\* by a plugin that is killed.
AnalysesEnd ==
    \A r \in Request : req[r].at = "loading" ~>
        \/ req[r].at \in {"answered", "failed"}
        \/ stage = "exited"
        \/ []WaitsForHung(r)
=============================================================================
