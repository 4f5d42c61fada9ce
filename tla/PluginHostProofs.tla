-------------------------- MODULE PluginHostProofs --------------------------
(***************************************************************************)
(* What the life of the server keeps for any directory of plugins,         *)
(* whatever they offer, any rules and any number of analyses.              *)
(***************************************************************************)
EXTENDS PluginHost, TLAPS

Processes == [Binary -> {"none", "running", "hung", "dead"}]

\* Processes are there for binaries only, and clients are binaries.
Typed ==
    /\ process \in Processes
    /\ Range(clients) \subseteq Binary

\* While the scan goes on, the binary in its hands has a name of its own: nothing is
\* stored under it before the last two steps, and then the client is this binary.
NameIsFree ==
    stage = "starting" =>
        /\ DOMAIN infos \subseteq DOMAIN clients
        /\ hand \in {"launched", "connected", "registering", "stored"} =>
               Found[at] \notin DOMAIN clients
        /\ hand = "known" => /\ Found[at] \in DOMAIN clients /\ clients[Found[at]] = at
                             /\ Found[at] \notin DOMAIN infos

\* No methods are left on offer when the scan turns to the next binary.
OfferInHand == hand \in {"next", "launched", "connected"} => offered = {}

\* A method with a builder has a plugin, or the one in ScanDir's hands offers it.
BuildersServed == \A m \in builders : LookupMethod(m) # {} \/ m \in offered

\* Rules are only loaded once all their methods have builders, and builders stay.
LoadedHasBuilders == loaded => Needed \subseteq builders

Inv == /\ Typed /\ NameIsFree /\ OfferInHand /\ BuildersServed /\ LoadedHasBuilders
       /\ EveryProcessHeld

-----------------------------------------------------------------------------
\* The maps

LEMMA RangeGrows ==
    ASSUME NEW map, NEW key, NEW value, key \notin DOMAIN map,
           NEW new, new = With(map, key, value)
    PROVE  Range(new) = Range(map) \cup {value}
<1>1. /\ \A k \in DOMAIN map : new[k] = map[k] /\ k \in DOMAIN new
      /\ key \in DOMAIN new /\ new[key] = value /\ DOMAIN new = DOMAIN map \cup {key}
  BY DEF With
<1>2. Range(new) \subseteq Range(map) \cup {value}
  BY <1>1 DEF Range
<1>3. Range(map) \cup {value} \subseteq Range(new)
  BY <1>1 DEF Range
<1> QED
  BY <1>2, <1>3

\* A plugin that is registered under a name of its own takes no method from others.
LEMMA RegisteredServes ==
    ASSUME NEW name, name \notin DOMAIN infos, NEW methods, NEW conn,
           infos' = With(infos, name, [methods |-> methods, conn |-> conn])
    PROVE  \A m : /\ LookupMethod(m) # {} => LookupMethod(m)' # {}
                  /\ m \in methods => LookupMethod(m)' # {}
<1> DEFINE entry == [methods |-> methods, conn |-> conn]
<1>1. /\ \A n \in DOMAIN infos : n \in DOMAIN infos' /\ infos'[n] = infos[n]
      /\ name \in DOMAIN infos' /\ infos'[name] = entry
  <2> HIDE DEF entry
  <2>1. infos' = With(infos, name, entry)
    BY DEF entry
  <2> QED
    BY <2>1 DEF With
<1>2. infos'[name].methods = methods
  BY <1>1
<1> TAKE m
<1>3. LookupMethod(m) \subseteq LookupMethod(m)'
  BY <1>1 DEF LookupMethod
<1>4. m \in methods => name \in LookupMethod(m)'
  BY <1>1, <1>2 DEF LookupMethod
<1> QED
  BY <1>3, <1>4

-----------------------------------------------------------------------------
\* The invariant is inductive: the scan

LEMMA InitInv == Init => Inv
<1> SUFFICES ASSUME Init PROVE Inv
  OBVIOUS
<1>1. Range(clients) = {} /\ DOMAIN infos = {} /\ DOMAIN clients = {}
  BY DEF Init, Range
<1>2. Live = {}
  BY DEF Init, Live
<1> QED
  BY <1>1, <1>2 DEF Init, Inv, Typed, NameIsFree, OfferInHand, BuildersServed,
     LoadedHasBuilders, EveryProcessHeld, Processes

\* A step that leaves the plugins alone and whose only change of the methods is
\* that the binary in hand offers some.
LEMMA HandStep ==
    ASSUME Inv, stage = "starting", UNCHANGED <<stage, at, process, clients, infos, builders, loaded>>,
           \/ hand = "launched" /\ hand' = "connected" /\ offered' = offered
           \/ hand = "connected" /\ hand' = "registering"
           \/ hand \in {"connected", "registering"} /\ hand' = "stored" /\ offered' = offered
    PROVE  Inv'
<1>1. Typed' /\ LoadedHasBuilders'
  BY DEF Inv, Typed, LoadedHasBuilders, Needed, Binary, Processes
<1>2. NameIsFree' /\ OfferInHand'
  BY DEF Inv, NameIsFree, OfferInHand
<1>3. BuildersServed'
  BY DEF Inv, OfferInHand, BuildersServed, LookupMethod
<1>4. EveryProcessHeld'
  BY DEF Inv, EveryProcessHeld, Live, Binary, Range, Processes
<1> QED
  BY <1>1, <1>2, <1>3, <1>4 DEF Inv

\* A step to the next binary.
LEMMA NextStep ==
    ASSUME Inv, stage = "starting", NextBinary, UNCHANGED <<stage, builders, loaded>>,
           process' \in Processes,
           clients' = clients,
           DOMAIN infos' \subseteq DOMAIN clients,
           \A m : LookupMethod(m) # {} \/ m \in offered => LookupMethod(m)' # {},
           \A b \in Live' : b \in Live /\ (hand = "next" \/ b # at \/ b \in Range(clients))
    PROVE  Inv'
<1>1. hand' = "next" /\ offered' = {}
  BY DEF NextBinary
<1>2. Typed' /\ LoadedHasBuilders'
  BY DEF Inv, Typed, LoadedHasBuilders, Needed, Binary, Range, Processes
<1>3. NameIsFree' /\ OfferInHand'
  BY <1>1 DEF Inv, NameIsFree, OfferInHand
<1>4. BuildersServed'
  BY DEF Inv, BuildersServed
<1>5. EveryProcessHeld'
  BY DEF Inv, EveryProcessHeld, Range
<1> QED
  BY <1>2, <1>3, <1>4, <1>5 DEF Inv

LEMMA LaunchInv == Inv /\ Launch => Inv'
<1> SUFFICES ASSUME Inv, Launch PROVE Inv'
  OBVIOUS
<1>1. at \in Binary /\ stage = "starting" /\ hand = "next"
  BY DEF Launch, Scanning
<1>2. Typed' /\ LoadedHasBuilders'
  BY <1>1 DEF Inv, Typed, LoadedHasBuilders, Launch, Needed, Binary, Range, Processes
<1>3. NameIsFree' /\ OfferInHand'
  BY <1>1 DEF Inv, NameIsFree, OfferInHand, Launch
<1>4. BuildersServed'
  BY DEF Inv, BuildersServed, LookupMethod, Launch
<1>5. EveryProcessHeld'
  BY <1>1 DEF Inv, Typed, EveryProcessHeld, Live, Binary, Range, Processes, Launch
<1> QED
  BY <1>2, <1>3, <1>4, <1>5 DEF Inv

LEMMA RegisterMethodInv == Inv /\ RegisterMethod => Inv'
<1> SUFFICES ASSUME Inv, RegisterMethod PROVE Inv'
  OBVIOUS
<1>1. PICK m \in offered : builders' = builders \cup {m}
  BY DEF RegisterMethod
<1>2. Typed' /\ LoadedHasBuilders'
  BY <1>1 DEF Inv, Typed, LoadedHasBuilders, RegisterMethod, Needed, Binary, Range, Processes
<1>3. NameIsFree' /\ OfferInHand' /\ EveryProcessHeld'
  BY DEF Inv, NameIsFree, OfferInHand, RegisterMethod, scan, EveryProcessHeld, Live, Binary, Range, Processes
<1>4. BuildersServed'
  BY <1>1 DEF Inv, BuildersServed, LookupMethod, RegisterMethod, scan
<1> QED
  BY <1>2, <1>3, <1>4 DEF Inv

LEMMA StoreClientInv == Inv /\ StoreClient => Inv'
<1> SUFFICES ASSUME Inv, StoreClient PROVE Inv'
  OBVIOUS
<1>1. at \in Binary /\ stage = "starting" /\ hand = "stored" /\ hand' = "known"
  BY DEF StoreClient, Scanning
<1>2. Found[at] \notin DOMAIN clients /\ Found[at] \notin DOMAIN infos
  BY <1>1 DEF Inv, NameIsFree
<1>3. /\ Range(clients') = Range(clients) \cup {at}
      /\ DOMAIN clients' = DOMAIN clients \cup {Found[at]} /\ clients'[Found[at]] = at
  <2>1. clients' = With(clients, Found[at], at)
    BY DEF StoreClient
  <2>2. Range(clients') = Range(clients) \cup {at}
    BY <1>2, <2>1, RangeGrows
  <2> QED
    BY <2>1, <2>2 DEF With
<1>4. Typed' /\ LoadedHasBuilders'
  BY <1>1, <1>3 DEF Inv, Typed, LoadedHasBuilders, StoreClient, Needed, Binary, Processes
<1>5. NameIsFree' /\ OfferInHand'
  BY <1>1, <1>2, <1>3 DEF Inv, NameIsFree, OfferInHand, StoreClient
<1>6. BuildersServed'
  BY DEF Inv, BuildersServed, LookupMethod, StoreClient
<1>7. EveryProcessHeld'
  BY <1>1, <1>3 DEF Inv, EveryProcessHeld, Live, Binary, StoreClient
<1> QED
  BY <1>4, <1>5, <1>6, <1>7 DEF Inv

LEMMA RegisterPluginInv == Inv /\ RegisterPlugin => Inv'
<1> SUFFICES ASSUME Inv, RegisterPlugin PROVE Inv'
  OBVIOUS
<1>1. stage = "starting" /\ hand = "known"
  BY DEF RegisterPlugin, Scanning
<1>2. /\ Found[at] \notin DOMAIN infos /\ Found[at] \in DOMAIN clients
      /\ clients[Found[at]] = at /\ DOMAIN infos \subseteq DOMAIN clients
  BY <1>1 DEF Inv, NameIsFree
<1>3. infos' = With(infos, Found[at], [methods |-> offered, conn |-> at])
  BY DEF RegisterPlugin
<1>4. \A m : LookupMethod(m) # {} \/ m \in offered => LookupMethod(m)' # {}
  BY <1>2, <1>3, RegisteredServes
<1>5. DOMAIN infos' \subseteq DOMAIN clients
  BY <1>2, <1>3 DEF With
<1>6. at \in Range(clients)
  BY <1>2 DEF Range
<1>7. process' = process /\ Live' = Live /\ process' \in Processes
  BY DEF Inv, Typed, RegisterPlugin, Live, Binary, Processes
<1>8. NextBinary /\ UNCHANGED <<stage, builders, loaded>> /\ clients' = clients
  BY DEF RegisterPlugin
<1> QED
  BY <1>1, <1>4, <1>5, <1>6, <1>7, <1>8, NextStep

LEMMA ScanInv == Inv /\ ScanDir => Inv'
<1> SUFFICES ASSUME Inv, ScanDir PROVE Inv'
  OBVIOUS
<1>1. CASE SkipSameName
  <2>1. /\ stage = "starting" /\ hand = "next" /\ NextBinary
        /\ UNCHANGED <<stage, builders, loaded, process, clients, infos>>
    BY <1>1 DEF SkipSameName, Scanning, host
  <2>2. Live' = Live /\ process' \in Processes
    BY <2>1 DEF Inv, Typed, Live, Binary, Processes
  <2>3. \A m : LookupMethod(m) # {} \/ m \in offered => LookupMethod(m)' # {}
    BY <2>1 DEF Inv, OfferInHand, LookupMethod
  <2>4. DOMAIN infos' \subseteq DOMAIN clients
    BY <2>1 DEF Inv, NameIsFree
  <2> QED
    BY <2>1, <2>2, <2>3, <2>4, NextStep
<1>2. CASE Launch
  BY <1>2, LaunchInv
<1>3. CASE Connected
  BY <1>3, HandStep DEF Connected, Scanning, host
<1>4. CASE ConnectFails
  <2>1. /\ stage = "starting" /\ at \in Binary /\ hand = "launched" /\ NextBinary /\ Kill(at)
        /\ UNCHANGED <<stage, builders, loaded, clients, infos>>
    BY <1>4 DEF ConnectFails, Scanning
  <2>2. /\ process' \in Processes
        /\ \A b \in Live' : b \in Live /\ b # at
    BY <2>1 DEF Inv, Typed, Kill, Live, Binary, Processes
  <2>3. \A m : LookupMethod(m) # {} \/ m \in offered => LookupMethod(m)' # {}
    BY <2>1 DEF Inv, OfferInHand, LookupMethod
  <2>4. DOMAIN infos' \subseteq DOMAIN clients
    BY <2>1 DEF Inv, NameIsFree
  <2> QED
    BY <2>1, <2>2, <2>3, <2>4, NextStep
<1>5. CASE Capable
  BY <1>5, HandStep DEF Capable, Scanning, host
<1>6. CASE NotCapable
  BY <1>6, HandStep DEF NotCapable, Scanning, host
<1>7. CASE RegisterMethod
  BY <1>7, RegisterMethodInv
<1>8. CASE MethodsRegistered
  BY <1>8, HandStep DEF MethodsRegistered, Scanning, host
<1>9. CASE StoreClient
  BY <1>9, StoreClientInv
<1>10. CASE RegisterPlugin
  BY <1>10, RegisterPluginInv
<1> QED
  BY <1>1, <1>2, <1>3, <1>4, <1>5, <1>6, <1>7, <1>8, <1>9, <1>10 DEF ScanDir

-----------------------------------------------------------------------------
\* The start, the end, the processes and the analyses

\* A step of fx: the server moves on, and never back to its start.
LEMMA StageStep ==
    ASSUME Inv, stage' # "starting", stage # "exited", UNCHANGED <<scan, process, clients, infos, builders, loaded>>,
           stage' = "exited" \/ stage # "starting" \/ at \notin Binary
    PROVE  Inv'
<1>1. Typed' /\ NameIsFree' /\ OfferInHand' /\ LoadedHasBuilders'
  BY DEF Inv, Typed, NameIsFree, OfferInHand, LoadedHasBuilders, scan, Needed, Binary, Range, Processes
<1>2. BuildersServed'
  BY DEF Inv, BuildersServed, LookupMethod, scan
<1>3. EveryProcessHeld'
  BY DEF Inv, EveryProcessHeld, Live, scan, Binary, Range, Processes
<1> QED
  BY <1>1, <1>2, <1>3 DEF Inv

\* No process comes to life, and only the analyses notice.
LEMMA ProcessStep ==
    ASSUME Inv, UNCHANGED <<stage, scan, clients, infos, builders>>,
           process' \in Processes, Live' \subseteq Live,
           loaded' => loaded \/ Needed \subseteq builders
    PROVE  Inv'
<1>1. Typed' /\ NameIsFree' /\ OfferInHand'
  BY DEF Inv, Typed, NameIsFree, OfferInHand, scan, Binary, Range, Processes
<1>2. BuildersServed' /\ LoadedHasBuilders'
  BY DEF Inv, BuildersServed, LoadedHasBuilders, LookupMethod, scan, Needed
<1>3. EveryProcessHeld'
  BY DEF Inv, EveryProcessHeld, scan, Binary, Range, Processes
<1> QED
  BY <1>1, <1>2, <1>3 DEF Inv

LEMMA StopAllInv == Inv /\ StopAll => Inv'
<1> SUFFICES ASSUME Inv, StopAll PROVE Inv'
  OBVIOUS
<1>1. PICK name \in DOMAIN clients :
        /\ Kill(clients[name])
        /\ clients' = Restrict(clients, DOMAIN clients \ {name})
  BY DEF StopAll
<1>2. /\ DOMAIN clients' = DOMAIN clients \ {name}
      /\ \A n \in DOMAIN clients \ {name} : clients'[n] = clients[n]
  BY <1>1 DEF Restrict
<1>3. clients[name] \in Binary
  BY DEF Inv, Typed, Range
<1>4. /\ process' \in Processes
      /\ \A b \in Live' : b \in Live /\ b # clients[name]
  BY <1>1, <1>3 DEF Inv, Typed, Kill, Live, Binary, Processes
<1>5. Range(clients') \subseteq Range(clients) /\ Range(clients) \subseteq Range(clients') \cup {clients[name]}
  BY <1>2 DEF Range
<1>6. stage = "stopping" /\ UNCHANGED <<stage, scan, infos, builders, loaded>>
  BY DEF StopAll
<1>7. Typed' /\ NameIsFree' /\ OfferInHand' /\ LoadedHasBuilders'
  BY <1>4, <1>5, <1>6 DEF Inv, Typed, NameIsFree, OfferInHand, LoadedHasBuilders, scan, Needed, Binary, Processes
<1>8. BuildersServed'
  BY <1>6 DEF Inv, BuildersServed, LookupMethod, scan
<1>9. EveryProcessHeld'
  BY <1>4, <1>5, <1>6 DEF Inv, EveryProcessHeld, Binary, Processes
<1> QED
  BY <1>7, <1>8, <1>9 DEF Inv

LEMMA FxInv == Inv /\ (Fx \/ StartTimesOut \/ RegistryRace \/ Signal) => Inv'
<1> SUFFICES ASSUME Inv, Fx \/ StartTimesOut \/ RegistryRace \/ Signal PROVE Inv'
  OBVIOUS
<1>1. CASE StopAll
  BY <1>1, StopAllInv
<1>2. CASE Started \/ Shutdown \/ Signal
  BY <1>2, StageStep DEF Started, Shutdown, Signal
<1>3. CASE ServerFatal \/ StartTimesOut \/ RegistryRace
  BY <1>3, StageStep DEF ServerFatal, StartTimesOut, RegistryRace, Scanning, Exit
<1> QED
  BY <1>1, <1>2, <1>3 DEF Fx

LEMMA PluginInv == \A b \in Binary : Inv /\ (Crash(b) \/ Hang(b)) => Inv'
<1> SUFFICES ASSUME NEW b \in Binary, Inv, Crash(b) \/ Hang(b) PROVE Inv'
  OBVIOUS
<1>1. UNCHANGED <<stage, scan, clients, infos, builders, loaded>>
  BY DEF Crash, Hang
<1>2. process' \in Processes /\ Live' \subseteq Live
  BY DEF Inv, Typed, Crash, Hang, Kill, Live, Binary, Processes
<1> QED
  BY <1>1, <1>2, ProcessStep

LEMMA AnalysisInv == \A r \in Request : Inv /\ (Arrive(r) \/ Analyse(r)) => Inv'
<1> SUFFICES ASSUME NEW r \in Request, Inv, Arrive(r) \/ Analyse(r) PROVE Inv'
  OBVIOUS
<1>1. UNCHANGED <<host, scan>>
  BY DEF Arrive, Analyse, Load, Call, CallFails, Returns, Broken, Answer
<1>2. loaded' => loaded \/ Needed \subseteq builders
  BY DEF Arrive, Analyse, Load, Call, CallFails, Returns, Broken, Answer
<1>3. UNCHANGED <<stage, process, clients, infos, builders>>
  BY <1>1 DEF host
<1>4. process' \in Processes /\ Live' \subseteq Live
  BY <1>3 DEF Inv, Typed, Live, Binary, Processes
<1> QED
  BY <1>1, <1>2, <1>3, <1>4, ProcessStep

-----------------------------------------------------------------------------
LEMMA NextInv == Inv /\ [Next]_vars => Inv'
<1> SUFFICES ASSUME Inv, [Next]_vars PROVE Inv'
  OBVIOUS
<1>1. CASE ScanDir
  BY <1>1, ScanInv
<1>2. CASE Fx \/ StartTimesOut \/ RegistryRace \/ Signal
  BY <1>2, FxInv
<1>3. CASE \E b \in Binary : Crash(b) \/ Hang(b)
  BY <1>3, PluginInv
<1>4. CASE \E r \in Request : Arrive(r) \/ Analyse(r)
  BY <1>4, AnalysisInv
<1>5. CASE UNCHANGED vars
  <2>1. UNCHANGED <<stage, scan, process, clients, infos, builders, loaded>>
    BY <1>5 DEF vars, scan
  <2>2. process' \in Processes /\ Live' \subseteq Live
    BY <2>1 DEF Inv, Typed, Live, Binary, Processes
  <2> QED
    BY <2>1, <2>2, ProcessStep
<1> QED
  BY <1>1, <1>2, <1>3, <1>4, <1>5 DEF Next

LEMMA Invariant == Spec => []Inv
BY InitInv, NextInv, PTL DEF Spec

\* However plugins crash, hang, time out or share their names, and whenever the signal
\* comes: ScanDir and StopAll never lose a live process of a living server.
THEOREM ProcessesHeld == Spec => []EveryProcessHeld
BY Invariant, PTL DEF Inv

\* However requests race with the scan: rules that use external methods are only loaded
\* when the methods have plugins, or are being registered by the one that has them.
THEOREM MethodsServed == Spec => []LoadedRulesServed
<1>1. Inv => LoadedRulesServed
  BY DEF Inv, LoadedHasBuilders, BuildersServed, LoadedRulesServed
<1> QED
  BY <1>1, Invariant, PTL
=============================================================================
