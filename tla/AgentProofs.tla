----------------------------- MODULE AgentProofs -----------------------------
(***************************************************************************)
(* What start() guarantees for every environment, all arguments, any       *)
(* number of threads that call it and wherever an interrupt arrives.       *)
(***************************************************************************)
EXTENDS Agent, FiniteSums, TLAPS

Points == {"out", "auth", "profilers", "project", "service", "zone", "instance", "register",
           "spawn", "mark"}
PollPoints == {"none", "build", "build_sleep", "create", "sleep", "collect", "profile",
               "upload", "dead"}

\* Where a client has its profilers, its project, its target.
HasProfilers == Points \ {"out", "auth", "profilers"}
HasProject   == HasProfilers \ {"project"}
HasTarget    == HasProject \ {"service"}

Enabled(c)    == config[c].profilers # {}
Configured(c) == Enabled(c) /\ config[c].project # None /\ config[c].target # None

\* The attributes of a client.
Named == {"profilers", "project", "target", "version", "zone", "instance"}

ShapeInv ==
  /\ spc \in [Threads -> Points] /\ call \in [Threads -> Calls \cup {None}]
  /\ mine \in [Threads -> 0 .. MaxClients] /\ clients \in 0 .. MaxClients
  /\ ppc \in [Clients -> PollPoints]
  /\ config = [c \in Clients |-> config[c]]
  /\ \A c \in Clients : Named \subseteq DOMAIN config[c]

\* Every call of start() has a client of its own.
OwnInv ==
  /\ \A t \in Threads : spc[t] # "out" => call[t] \in Calls /\ mine[t] \in 1 .. clients
  /\ \A t, u \in Threads :
       t # u /\ spc[t] # "out" /\ spc[u] # "out" => mine[t] # mine[u]

\* What config has found out so far.
ProgressInv ==
  \A t \in Threads :
    /\ spc[t] \in HasProfilers => Enabled(mine[t])
    /\ spc[t] \in HasProject => config[mine[t]].project # None
    /\ spc[t] \in HasTarget => config[mine[t]].target # None

StartInv == ShapeInv /\ OwnInv /\ ProgressInv

-----------------------------------------------------------------------------
(***************************************************************************)
(* start() goes on with its client, or is left.                            *)
(***************************************************************************)
LEMMA Configuring ==
  ASSUME StartInv, NEW t \in Threads, NEW to \in Points \ {"out"}, NEW attributes,
         spc[t] # "out", Configure(t, to, attributes), clients' = clients,
         ppc' \in [Clients -> PollPoints],
         Named \subseteq DOMAIN attributes,
         to \in HasProfilers => attributes.profilers # {},
         to \in HasProject => attributes.project # None,
         to \in HasTarget => attributes.target # None
  PROVE  StartInv'
<1>1. /\ mine[t] \in Clients /\ call' = call /\ mine' = mine
      /\ spc' = [spc EXCEPT ![t] = to]
      /\ config' = [config EXCEPT ![mine[t]] = attributes]
  BY ConfigAssumption DEF StartInv, OwnInv, ShapeInv, Configure, Clients
<1>2. /\ config'[mine[t]] = attributes
      /\ \A c \in Clients \ {mine[t]} : config'[c] = config[c]
      /\ config' = [c \in Clients |-> config'[c]]
  BY <1>1 DEF StartInv, ShapeInv
<1>3. spc'[t] = to /\ \A u \in Threads \ {t} : spc'[u] = spc[u]
  BY <1>1 DEF StartInv, ShapeInv
<1>4. ShapeInv'
  BY <1>1, <1>2 DEF StartInv, ShapeInv
<1>5. OwnInv'
  BY <1>1, <1>3 DEF StartInv, OwnInv
<1>6. ASSUME NEW u \in Threads \ {t}, spc[u] # "out"
      PROVE  config'[mine[u]] = config[mine[u]]
  <2>1. mine[u] \in Clients \ {mine[t]}
    BY <1>6, ConfigAssumption DEF StartInv, OwnInv, ShapeInv, Clients
  <2> QED
    BY <1>2, <2>1
<1>7. ProgressInv'
  <2> SUFFICES ASSUME NEW u \in Threads
               PROVE  /\ spc'[u] \in HasProfilers => config'[mine[u]].profilers # {}
                      /\ spc'[u] \in HasProject => config'[mine[u]].project # None
                      /\ spc'[u] \in HasTarget => config'[mine[u]].target # None
    BY <1>1 DEF ProgressInv, Enabled
  <2>1. CASE u = t
    BY <1>2, <1>3, <2>1
  <2>2. CASE u # t /\ spc[u] # "out"
    BY <1>3, <1>6, <2>2 DEF StartInv, ProgressInv, Enabled
  <2>3. CASE u # t /\ spc[u] = "out"
    BY <1>3, <2>3 DEF HasProfilers, HasProject, HasTarget
  <2> QED
    BY <2>1, <2>2, <2>3
<1> QED
  BY <1>4, <1>5, <1>7 DEF StartInv

LEMMA Leaving ==
  ASSUME StartInv, NEW t \in Threads, spc[t] # "out",
         (StartLeaves(t) /\ config' = config) \/ StartRaises(t),
         clients' = clients, ppc' = ppc
  PROVE  StartInv'
<1>1. /\ mine[t] \in Clients
      /\ spc' = [spc EXCEPT ![t] = "out"] /\ call' = [call EXCEPT ![t] = None]
      /\ mine' = [mine EXCEPT ![t] = 0]
      /\ config' = config \/ config' = [config EXCEPT ![mine[t]] = NoConfig]
  BY ConfigAssumption DEF StartInv, OwnInv, ShapeInv, StartLeaves, StartRaises, Clients
<1>2. /\ \A c \in Clients \ {mine[t]} : config'[c] = config[c]
      /\ config' = [c \in Clients |-> config'[c]]
      /\ config'[mine[t]] \in {config[mine[t]], NoConfig}
  BY <1>1 DEF StartInv, ShapeInv
<1>3. /\ spc'[t] = "out"
      /\ \A u \in Threads \ {t} : spc'[u] = spc[u] /\ mine'[u] = mine[u] /\ call'[u] = call[u]
  BY <1>1 DEF StartInv, ShapeInv
<1>4. ShapeInv'
  <2>1. Named \subseteq DOMAIN NoConfig
    BY DEF NoConfig, Named
  <2>2. ASSUME NEW c \in Clients PROVE Named \subseteq DOMAIN config'[c]
    <3>1. CASE c = mine[t]
      BY <1>2, <2>1, <3>1 DEF StartInv, ShapeInv
    <3>2. CASE c # mine[t]
      BY <1>2, <3>2 DEF StartInv, ShapeInv
    <3> QED
      BY <3>1, <3>2
  <2>3. /\ spc' \in [Threads -> Points] /\ call' \in [Threads -> Calls \cup {None}]
        /\ mine' \in [Threads -> 0 .. MaxClients]
    BY <1>1, ConfigAssumption DEF StartInv, ShapeInv, Points
  <2> QED
    BY <1>2, <2>2, <2>3 DEF StartInv, ShapeInv
<1>5. OwnInv'
  BY <1>3 DEF StartInv, OwnInv
<1>6. ProgressInv'
  <2> SUFFICES ASSUME NEW u \in Threads
               PROVE  /\ spc'[u] \in HasProfilers => config'[mine'[u]].profilers # {}
                      /\ spc'[u] \in HasProject => config'[mine'[u]].project # None
                      /\ spc'[u] \in HasTarget => config'[mine'[u]].target # None
    BY DEF ProgressInv, Enabled
  <2>1. CASE spc'[u] = "out"
    BY <2>1 DEF HasProfilers, HasProject, HasTarget
  <2>2. CASE spc'[u] # "out"
    <3>1. u # t /\ spc'[u] = spc[u] /\ mine'[u] = mine[u]
      BY <1>3, <2>2
    <3>2. mine[u] \in Clients \ {mine[t]}
      BY <2>2, <3>1, ConfigAssumption DEF StartInv, OwnInv, ShapeInv, Clients
    <3> QED
      BY <1>2, <3>1, <3>2 DEF StartInv, ProgressInv, Enabled
  <2> QED
    BY <2>1, <2>2
<1> QED
  BY <1>4, <1>5, <1>6 DEF StartInv

(***************************************************************************)
(* start() begins, with a new client.                                      *)
(***************************************************************************)
LEMMA Beginning ==
  ASSUME StartInv, NEW t \in Threads, NEW a \in Calls, StartCheck(t, a), ppc' = ppc
  PROVE  StartInv'
<1>1. /\ spc[t] = "out" /\ clients \in Nat /\ MaxClients \in Nat
      /\ clients' = clients + 1 /\ clients' <= MaxClients
      /\ config' = config
      /\ spc' = [spc EXCEPT ![t] = "auth"] /\ call' = [call EXCEPT ![t] = a]
      /\ mine' = [mine EXCEPT ![t] = clients']
  BY ConfigAssumption DEF StartInv, ShapeInv, StartCheck
<1>2. /\ spc'[t] = "auth" /\ call'[t] = a /\ mine'[t] = clients + 1
      /\ \A u \in Threads \ {t} : spc'[u] = spc[u] /\ mine'[u] = mine[u] /\ call'[u] = call[u]
  BY <1>1 DEF StartInv, ShapeInv
<1>3. ShapeInv'
  <2>1. /\ spc' \in [Threads -> Points] /\ call' \in [Threads -> Calls \cup {None}]
        /\ mine' \in [Threads -> 0 .. MaxClients] /\ clients' \in 0 .. MaxClients
    BY <1>1 DEF StartInv, ShapeInv, Points
  <2> QED
    BY <1>1, <2>1 DEF StartInv, ShapeInv
<1>4. OwnInv'
  <2>1. \A u \in Threads \ {t} : spc[u] # "out" => mine[u] \in 1 .. clients
    BY DEF StartInv, OwnInv
  <2> QED
    BY <1>1, <1>2, <2>1 DEF StartInv, OwnInv
<1>5. ProgressInv'
  BY <1>1, <1>2 DEF StartInv, ProgressInv, Enabled, HasProfilers, HasProject, HasTarget
<1> QED
  BY <1>3, <1>4, <1>5 DEF StartInv

(***************************************************************************)
(* The steps of setup_auth and config.                                     *)
(***************************************************************************)
LEMMA ConfigKeeps ==
  ASSUME StartInv, NEW t \in Threads, ConfigStep(t), ppc' = ppc
  PROVE  StartInv'
<1>1. clients' = clients /\ spc[t] # "out" /\ ppc' \in [Clients -> PollPoints]
  BY DEF ConfigStep, SetupAuth, SetupAuthFails, ConfigProfilers, ConfigProject, ConfigService,
         ConfigZone, ConfigInstance, StartInv, ShapeInv
<1>2. mine[t] \in Clients
  BY <1>1, ConfigAssumption DEF StartInv, OwnInv, ShapeInv, Clients
<1>3. Named \subseteq DOMAIN cfg(t)
  BY <1>2 DEF StartInv, ShapeInv, cfg
<1>4. /\ spc[t] \in HasProfilers => cfg(t).profilers # {}
      /\ spc[t] \in HasProject => cfg(t).project # None
      /\ spc[t] \in HasTarget => cfg(t).target # None
  BY DEF StartInv, ProgressInv, Enabled, cfg
<1>5. CASE StartRaises(t)
  BY <1>1, <1>5, Leaving
<1> USE DEF Points, HasProfilers, HasProject, HasTarget, Named
<1>6. CASE SetupAuth(t)
  <2>1. PICK project : Configure(t, "profilers", [cfg(t) EXCEPT !.project = project])
    BY <1>6 DEF SetupAuth
  <2> QED
    BY <1>1, <1>3, <2>1, Configuring
<1>7. CASE ConfigProfilers(t) /\ ~ StartRaises(t)
  <2>1. PICK enabled : /\ enabled # {}
                       /\ Configure(t, "project", [cfg(t) EXCEPT !.profilers = enabled])
    BY <1>7 DEF ConfigProfilers
  <2> QED
    BY <1>1, <1>3, <2>1, Configuring
<1>8. CASE ConfigProject(t) /\ ~ StartRaises(t)
  <2>1. PICK project : /\ project # None
                       /\ Configure(t, "service", [cfg(t) EXCEPT !.project = project])
    BY <1>8 DEF ConfigProject
  <2>2. spc[t] = "project"
    BY <1>8 DEF ConfigProject
  <2> QED
    BY <1>1, <1>3, <1>4, <2>1, <2>2, Configuring
<1>9. CASE ConfigService(t) /\ ~ StartRaises(t)
  <2>1. PICK service, version :
          /\ service \in ServiceNames
          /\ Configure(t, "zone", [cfg(t) EXCEPT !.target = service, !.version = version])
    BY <1>9 DEF ConfigService
  <2>2. spc[t] = "service" /\ service # None
    BY <1>9, <2>1, ConfigAssumption DEF ConfigService
  <2> QED
    BY <1>1, <1>3, <1>4, <2>1, <2>2, Configuring
<1>10. CASE ConfigZone(t)
  <2>1. PICK zone : Configure(t, "instance", [cfg(t) EXCEPT !.zone = zone])
    BY <1>10 DEF ConfigZone
  <2>2. spc[t] = "zone"
    BY <1>10 DEF ConfigZone
  <2> QED
    BY <1>1, <1>3, <1>4, <2>1, <2>2, Configuring
<1>11. CASE ConfigInstance(t)
  <2>1. PICK name : Configure(t, "register", [cfg(t) EXCEPT !.instance = name])
    BY <1>11 DEF ConfigInstance
  <2>2. spc[t] = "instance"
    BY <1>11 DEF ConfigInstance
  <2> QED
    BY <1>1, <1>3, <1>4, <2>1, <2>2, Configuring
<1> QED
  BY <1>5, <1>6, <1>7, <1>8, <1>9, <1>10, <1>11 DEF ConfigStep, SetupAuthFails

(***************************************************************************)
(* The handler, the thread, and the mark.                                  *)
(***************************************************************************)
LEMMA StartingKeeps ==
  ASSUME StartInv, NEW t \in Threads,
         \/ Register(t) /\ UNCHANGED <<env, started, clients, interrupt, abandoned, pollVars>>
         \/ Spawn(t) /\ UNCHANGED <<env, clients, interrupt, abandoned>>
         \/ Mark(t) /\ UNCHANGED <<env, clients, interrupt, abandoned, handler, pollVars>>
  PROVE  StartInv'
<1>1. clients' = clients /\ spc[t] # "out"
  BY DEF Register, Spawn, Mark
<1>2. mine[t] \in Clients
  BY <1>1, ConfigAssumption DEF StartInv, OwnInv, ShapeInv, Clients
<1>3. Named \subseteq DOMAIN cfg(t)
  BY <1>2 DEF StartInv, ShapeInv, cfg
<1>4. ppc' \in [Clients -> PollPoints]
  BY <1>2 DEF Register, Spawn, Mark, pollVars, StartInv, ShapeInv, PollPoints
<1>5. ASSUME NEW to \in {"spawn", "mark"}, spc[t] \in {"register", "spawn"},
             Configure(t, to, cfg(t))
      PROVE  StartInv'
  <2>1. cfg(t).profilers # {} /\ cfg(t).project # None /\ cfg(t).target # None
    BY <1>5 DEF StartInv, ProgressInv, Enabled, cfg, HasTarget, HasProject, HasProfilers, Points
  <2> QED
    BY <1>1, <1>3, <1>4, <1>5, <2>1, Configuring DEF Points
<1>6. ASSUME (StartLeaves(t) /\ config' = config) \/ StartRaises(t), ppc' = ppc PROVE StartInv'
  BY <1>1, <1>6, Leaving
<1>7. CASE Register(t) /\ UNCHANGED <<env, started, clients, interrupt, abandoned, pollVars>>
  BY <1>5, <1>6, <1>7 DEF Register, pollVars
<1>8. CASE Spawn(t)
  BY <1>5, <1>6, <1>8 DEF Spawn
<1>9. CASE Mark(t) /\ UNCHANGED <<env, clients, interrupt, abandoned, handler, pollVars>>
  BY <1>6, <1>9 DEF Mark, pollVars
<1> QED
  BY <1>7, <1>8, <1>9

(***************************************************************************)
(* An interrupt leaves start(), or is taken for a failure.                 *)
(***************************************************************************)
LEMMA InterruptKeeps ==
  ASSUME StartInv, Interrupt, ppc' = ppc
  PROVE  StartInv'
<1> DEFINE t == MainThread
<1>1. t \in Threads /\ clients' = clients /\ ppc' \in [Clients -> PollPoints]
  BY ConfigAssumption DEF Interrupt, StartInv, ShapeInv
<1>2. spc[t] # "out"
  BY DEF Interrupt, InterruptRetrieval, InterruptElsewhere
<1>3. Named \subseteq DOMAIN cfg(t)
  BY <1>1, <1>2, ConfigAssumption DEF StartInv, OwnInv, ShapeInv, Clients, cfg
<1> HIDE DEF t
<1>4. CASE (StartLeaves(t) /\ config' = config) \/ StartRaises(t)
  BY <1>1, <1>2, <1>4, Leaving
<1>5. ASSUME NEW to \in {"instance", "register"}, spc[t] \in {"zone", "instance"},
             Configure(t, to, cfg(t))
      PROVE  StartInv'
  <2>1. cfg(t).profilers # {} /\ cfg(t).project # None /\ cfg(t).target # None
    BY <1>1, <1>5
       DEF StartInv, ProgressInv, Enabled, cfg, HasTarget, HasProject, HasProfilers, Points
  <2> QED
    BY <1>1, <1>2, <1>3, <1>5, <2>1, Configuring DEF Points
<1>6. CASE InterruptRetrieval(t)
  BY <1>4, <1>5, <1>6 DEF InterruptRetrieval
<1>7. CASE InterruptElsewhere(t)
  BY <1>4, <1>7 DEF InterruptElsewhere
<1> QED
  BY <1>6, <1>7 DEF Interrupt, t

(***************************************************************************)
(* A polling thread that does not run is not started by another.           *)
(***************************************************************************)
LEMMA PollingKeeps ==
  ASSUME StartInv, NEW c \in Clients, PollStep(c)
  PROVE  /\ ppc' \in [Clients -> PollPoints] /\ UNCHANGED startVars
         /\ \A d \in Clients : ppc'[d] # "none" <=> ppc[d] # "none"
<1>1. \E to \in PollPoints \ {"none"} : ppc[c] # "none" /\ ppc' = [ppc EXCEPT ![c] = to]
  BY DEF PollStep, BuildService, BuildFailed, BuildSlept, Created, CreatedUntyped, CreateFailed,
         Sleep, Collect, NextProfile, Profile, Upload, PollGoto, PollPoints
<1>2. PICK to \in PollPoints \ {"none"} : ppc[c] # "none" /\ ppc' = [ppc EXCEPT ![c] = to]
  BY <1>1
<1> QED
  BY <1>2 DEF PollStep, StartInv, ShapeInv

LEMMA NextStart == StartInv /\ [Next]_agentVars => StartInv'
<1> SUFFICES ASSUME StartInv, [Next]_agentVars PROVE StartInv'
  OBVIOUS
<1>1. CASE UNCHANGED agentVars
  <2>1. UNCHANGED <<spc, call, mine, clients, config, ppc>>
    BY <1>1 DEF agentVars, startVars, configVars, pollVars
  <2> QED
    BY <2>1 DEF StartInv, ShapeInv, OwnInv, ProgressInv, Enabled
<1>2. ASSUME NEW t \in Threads, StartStep(t) PROVE StartInv'
  <2>1. ASSUME NEW a \in Calls, StartCheck(t, a), UNCHANGED <<handler, pollVars>> PROVE StartInv'
    BY <2>1, Beginning DEF pollVars
  <2>2. CASE ConfigStep(t) /\ UNCHANGED <<handler, pollVars>>
    BY <2>2, ConfigKeeps DEF pollVars
  <2>3. CASE \/ Register(t) /\ UNCHANGED <<env, started, clients, interrupt, abandoned, pollVars>>
             \/ Spawn(t) /\ UNCHANGED <<env, clients, interrupt, abandoned>>
             \/ Mark(t) /\ UNCHANGED <<env, clients, interrupt, abandoned, handler, pollVars>>
    BY <2>3, StartingKeeps
  <2> QED
    BY <1>2, <2>1, <2>2, <2>3 DEF StartStep
<1>3. CASE Interrupt /\ UNCHANGED <<handler, pollVars>>
  BY <1>3, InterruptKeeps DEF pollVars
<1>4. ASSUME NEW c \in Clients, PollStep(c) PROVE StartInv'
  <2>1. ppc' \in [Clients -> PollPoints] /\ UNCHANGED <<spc, call, mine, clients, config>>
    BY <1>4, PollingKeeps DEF startVars, configVars
  <2> QED
    BY <2>1 DEF StartInv, ShapeInv, OwnInv, ProgressInv, Enabled
<1> QED
  BY <1>1, <1>2, <1>3, <1>4 DEF Next

LEMMA InitStarting == Init => StartInv
<1> SUFFICES ASSUME Init PROVE StartInv
  OBVIOUS
<1>1. \A c \in Clients : Named \subseteq DOMAIN config[c]
  BY DEF Init, ConfigInit, NoConfig, Named
<1>2. config = [c \in Clients |-> config[c]]
  BY DEF Init, ConfigInit
<1> QED
  BY <1>1, <1>2, ConfigAssumption
     DEF Init, ConfigInit, StartInv, ShapeInv, OwnInv, ProgressInv, Points, PollPoints,
         HasProfilers, HasProject, HasTarget

LEMMA StartAlways == Spec => []StartInv
BY InitStarting, NextStart, PTL DEF Spec

(***************************************************************************)
(* A step of one start() leaves the clients of the others alone.           *)
(***************************************************************************)
LEMMA OthersKept ==
  ASSUME StartInv, NEW t \in Threads, spc[t] # "out",
         \/ \E to, attributes : Configure(t, to, attributes)
         \/ StartLeaves(t) /\ config' = config
         \/ StartRaises(t)
  PROVE  /\ mine[t] \in Clients
         /\ \A u \in Threads \ {t} : spc'[u] = spc[u] /\ mine'[u] = mine[u]
         /\ \A c \in Clients \ {mine[t]} : config'[c] = config[c]
         /\ spc'[t] # "out" => mine'[t] = mine[t]
<1>1. mine[t] \in Clients
  BY ConfigAssumption DEF StartInv, OwnInv, ShapeInv, Clients
<1>2. ASSUME NEW to, NEW attributes, Configure(t, to, attributes)
      PROVE  /\ \A u \in Threads \ {t} : spc'[u] = spc[u] /\ mine'[u] = mine[u]
             /\ \A c \in Clients \ {mine[t]} : config'[c] = config[c]
             /\ mine' = mine
  BY <1>1, <1>2 DEF Configure, StartInv, ShapeInv
<1>3. CASE (StartLeaves(t) /\ config' = config) \/ StartRaises(t)
  <2>1. /\ spc' = [spc EXCEPT ![t] = "out"] /\ mine' = [mine EXCEPT ![t] = 0]
        /\ config' = config \/ config' = [config EXCEPT ![mine[t]] = NoConfig]
    BY <1>3 DEF StartLeaves, StartRaises
  <2> QED
    BY <1>1, <2>1 DEF StartInv, ShapeInv
<1> QED
  BY <1>1, <1>2, <1>3

(***************************************************************************)
(* Which step start() takes.                                               *)
(***************************************************************************)
LEMMA StartMoves ==
  ASSUME StartInv, NEW t \in Threads, spc[t] # "out",
         StartStep(t) \/ (t = MainThread /\ Interrupt)
  PROVE  \/ \E to, attributes : Configure(t, to, attributes)
         \/ StartLeaves(t) /\ config' = config
         \/ StartRaises(t)
BY DEF StartStep, StartCheck, ConfigStep, SetupAuth, SetupAuthFails, ConfigProfilers, ConfigProject,
       ConfigService, ConfigZone, ConfigInstance, Register, Spawn, Mark, Interrupt,
       InterruptRetrieval, InterruptElsewhere

-----------------------------------------------------------------------------
(***************************************************************************)
(* What _started stands for.                                               *)
(***************************************************************************)
MarkInv ==
  /\ \A t \in Threads : spc[t] = "mark" => ppc[mine[t]] # "none"
  /\ started => \E c \in Clients :
       /\ ppc[c] # "none" /\ Configured(c)
       /\ \A t \in Threads : spc[t] # "out" => mine[t] # c

LEMMA NextMark == StartInv /\ MarkInv /\ [Next]_agentVars => MarkInv'
<1> SUFFICES ASSUME StartInv, MarkInv, [Next]_agentVars PROVE MarkInv'
  OBVIOUS
<1>1. CASE UNCHANGED agentVars
  <2>1. UNCHANGED <<spc, mine, config, ppc, started>>
    BY <1>1 DEF agentVars, startVars, configVars, pollVars
  <2> QED
    BY <2>1 DEF MarkInv, Configured, Enabled
<1>2. ASSUME NEW c \in Clients, PollStep(c) PROVE MarkInv'
  <2>1. /\ UNCHANGED <<spc, mine, config, started>>
        /\ \A d \in Clients : ppc'[d] # "none" <=> ppc[d] # "none"
    BY <1>2, PollingKeeps DEF startVars, configVars
  <2>2. \A t \in Threads : spc[t] = "mark" => mine[t] \in Clients
    BY ConfigAssumption DEF StartInv, OwnInv, ShapeInv, Clients
  <2> QED
    BY <2>1, <2>2 DEF MarkInv, Configured, Enabled
<1>3. ASSUME NEW t \in Threads, NEW a \in Calls, StartCheck(t, a), UNCHANGED <<handler, pollVars>>
      PROVE  MarkInv'
  <2>1. /\ started' = started /\ ~ started /\ ppc' = ppc
        /\ spc' = [spc EXCEPT ![t] = "auth"] /\ mine' = [mine EXCEPT ![t] = clients']
    BY <1>3 DEF StartCheck, pollVars
  <2> QED
    BY <2>1 DEF MarkInv, StartInv, ShapeInv
<1>4. ASSUME NEW t \in Threads, spc[t] # "out", StartStep(t) \/ (t = MainThread /\ Interrupt),
             ppc' = ppc, started' = started, spc'[t] # "mark"
      PROVE  MarkInv'
  <2>1. /\ mine[t] \in Clients
        /\ \A u \in Threads \ {t} : spc'[u] = spc[u] /\ mine'[u] = mine[u]
        /\ \A c \in Clients \ {mine[t]} : config'[c] = config[c]
        /\ spc'[t] # "out" => mine'[t] = mine[t]
    BY <1>4, StartMoves, OthersKept
  <2>2. \A u \in Threads : spc'[u] = "mark" => ppc'[mine'[u]] # "none"
    BY <1>4, <2>1 DEF MarkInv
  <2>3. ASSUME started
        PROVE  \E c \in Clients : /\ ppc'[c] # "none" /\ Configured(c)'
                                  /\ \A u \in Threads : spc'[u] # "out" => mine'[u] # c
    <3>1. PICK c \in Clients : /\ ppc[c] # "none" /\ Configured(c)
                               /\ \A u \in Threads : spc[u] # "out" => mine[u] # c
      BY <2>3 DEF MarkInv
    <3>2. c # mine[t]
      BY <1>4, <3>1
    <3>3. Configured(c)'
      BY <2>1, <3>1, <3>2 DEF Configured, Enabled
    <3> QED
      BY <1>4, <2>1, <3>1, <3>2, <3>3
  <2> QED
    BY <1>4, <2>2, <2>3 DEF MarkInv
<1>5. ASSUME NEW t \in Threads, ConfigStep(t), UNCHANGED <<handler, pollVars>> PROVE MarkInv'
  <2>1. spc[t] # "out" /\ ppc' = ppc /\ started' = started /\ spc'[t] # "mark"
    BY <1>5 DEF ConfigStep, SetupAuth, SetupAuthFails, ConfigProfilers, ConfigProject,
                ConfigService, ConfigZone, ConfigInstance, Configure, StartRaises, StartLeaves,
                pollVars, StartInv, ShapeInv
  <2> QED
    BY <1>4, <1>5, <2>1 DEF StartStep
<1>6. ASSUME NEW t \in Threads, Register(t),
             UNCHANGED <<env, started, clients, interrupt, abandoned, pollVars>>
      PROVE  MarkInv'
  <2>1. spc[t] # "out" /\ ppc' = ppc /\ spc'[t] # "mark"
    BY <1>6 DEF Register, Configure, StartRaises, StartLeaves, pollVars, StartInv, ShapeInv
  <2> QED
    BY <1>4, <1>6, <2>1 DEF StartStep
<1>7. ASSUME NEW t \in Threads, Spawn(t), UNCHANGED <<env, clients, interrupt, abandoned>>
      PROVE  MarkInv'
  <2>1. CASE StartRaises(t) /\ UNCHANGED ppc
    <3>1. spc[t] # "out" /\ started' = started /\ spc'[t] # "mark"
      BY <1>7, <2>1 DEF Spawn, StartRaises, StartLeaves, StartInv, ShapeInv
    <3> QED
      BY <1>4, <1>7, <2>1, <3>1 DEF StartStep
  <2>2. CASE Configure(t, "mark", cfg(t)) /\ ppc' = [ppc EXCEPT ![mine[t]] = "build"]
    <3>1. spc[t] # "out" /\ started' = started /\ mine' = mine
      BY <1>7, <2>2 DEF Spawn, Configure
    <3>2. /\ mine[t] \in Clients
          /\ \A u \in Threads \ {t} : spc'[u] = spc[u]
          /\ \A c \in Clients \ {mine[t]} : config'[c] = config[c]
      BY <2>2, <3>1, OthersKept
    <3>3. ppc'[mine[t]] = "build" /\ \A c \in Clients \ {mine[t]} : ppc'[c] = ppc[c]
      BY <2>2, <3>2 DEF StartInv, ShapeInv
    <3>4. \A u \in Threads \ {t} : spc[u] # "out" => mine[u] \in Clients \ {mine[t]}
      BY <3>1, ConfigAssumption DEF StartInv, OwnInv, ShapeInv, Clients
    <3>5. \A u \in Threads : spc'[u] = "mark" => ppc'[mine'[u]] # "none"
      BY <3>1, <3>2, <3>3, <3>4 DEF MarkInv
    <3>6. ASSUME started
          PROVE  \E c \in Clients : /\ ppc'[c] # "none" /\ Configured(c)'
                                    /\ \A u \in Threads : spc'[u] # "out" => mine'[u] # c
      <4>1. PICK c \in Clients : /\ ppc[c] # "none" /\ Configured(c)
                                 /\ \A u \in Threads : spc[u] # "out" => mine[u] # c
        BY <3>6 DEF MarkInv
      <4>2. c # mine[t]
        BY <3>1, <4>1
      <4>3. Configured(c)'
        BY <3>2, <4>1, <4>2 DEF Configured, Enabled
      <4> QED
        BY <3>1, <3>2, <3>3, <4>1, <4>2, <4>3
    <3> QED
      BY <3>1, <3>5, <3>6 DEF MarkInv
  <2> QED
    BY <1>7, <2>1, <2>2 DEF Spawn
<1>8. ASSUME NEW t \in Threads, Mark(t),
             UNCHANGED <<env, clients, interrupt, abandoned, handler, pollVars>>
      PROVE  MarkInv'
  <2>1. /\ spc[t] = "mark" /\ started' = TRUE /\ config' = config /\ ppc' = ppc
        /\ spc' = [spc EXCEPT ![t] = "out"] /\ mine' = [mine EXCEPT ![t] = 0]
    BY <1>8 DEF Mark, StartLeaves, pollVars
  <2>2. /\ spc'[t] = "out"
        /\ \A u \in Threads \ {t} : spc'[u] = spc[u] /\ mine'[u] = mine[u]
    BY <2>1 DEF StartInv, ShapeInv
  <2>3. PICK c \in Clients : c = mine[t] /\ ppc[c] # "none"
    BY <2>1, ConfigAssumption DEF MarkInv, StartInv, OwnInv, ShapeInv, Clients
  <2>4. Configured(c)
    BY <2>1, <2>3
       DEF StartInv, ProgressInv, Configured, Enabled, HasTarget, HasProject, HasProfilers, Points
  <2>5. \A u \in Threads : spc'[u] # "out" => mine'[u] # c
    BY <2>1, <2>2, <2>3 DEF StartInv, OwnInv
  <2>6. Configured(c)'
    BY <2>1, <2>4 DEF Configured, Enabled
  <2> QED
    BY <2>1, <2>2, <2>3, <2>5, <2>6 DEF MarkInv
<1>9. CASE Interrupt /\ UNCHANGED <<handler, pollVars>>
  <2>1. /\ MainThread \in Threads /\ spc[MainThread] # "out" /\ ppc' = ppc /\ started' = started
        /\ spc'[MainThread] # "mark"
    BY <1>9, ConfigAssumption
       DEF Interrupt, InterruptRetrieval, InterruptElsewhere, Configure, StartRaises, StartLeaves,
           pollVars, StartInv, ShapeInv
  <2> QED
    BY <1>4, <1>9, <2>1
<1> QED
  BY <1>1, <1>2, <1>3, <1>5, <1>6, <1>7, <1>8, <1>9 DEF Next, StartStep

(***************************************************************************)
(* Later calls of start() are ignored only while a configured client is    *)
(* polled for (__init__.py:101-105, 124-133): no call that overlaps, raises*)
(* or is interrupted leaves _started behind without a polling thread.      *)
(***************************************************************************)
THEOREM StartedIsPolling == Spec => []StartedMeansPolling
<1>1. Init => MarkInv
  BY DEF Init, ConfigInit, MarkInv
<1>2. MarkInv => StartedMeansPolling
  BY DEF MarkInv, StartedMeansPolling, Configured, Enabled
<1> QED
  BY <1>1, <1>2, NextMark, StartAlways, PTL DEF Spec

-----------------------------------------------------------------------------
\* The polling thread runs for the client of a call only when it is spawned.
FreshInv ==
  /\ \A t \in Threads : spc[t] \notin {"out", "mark"} => ppc[mine[t]] = "none"
  /\ \A c \in Clients : clients < c => ppc[c] = "none"

LEMMA NextFresh == StartInv /\ FreshInv /\ [Next]_agentVars => FreshInv'
<1> SUFFICES ASSUME StartInv, FreshInv, [Next]_agentVars PROVE FreshInv'
  OBVIOUS
<1>1. CASE UNCHANGED agentVars
  BY <1>1 DEF agentVars, startVars, configVars, pollVars, FreshInv
<1>2. ASSUME NEW c \in Clients, PollStep(c) PROVE FreshInv'
  <2>1. /\ UNCHANGED <<spc, mine, clients>>
        /\ \A d \in Clients : ppc'[d] # "none" <=> ppc[d] # "none"
    BY <1>2, PollingKeeps DEF startVars, configVars
  <2>2. \A t \in Threads : spc[t] # "out" => mine[t] \in Clients
    BY ConfigAssumption DEF StartInv, OwnInv, ShapeInv, Clients
  <2> QED
    BY <2>1, <2>2 DEF FreshInv
<1>3. ASSUME NEW t \in Threads, NEW a \in Calls, StartCheck(t, a), ppc' = ppc PROVE FreshInv'
  <2>1. /\ clients' = clients + 1 /\ clients' \in Clients /\ clients \in Nat
        /\ spc'[t] = "auth" /\ mine'[t] = clients'
        /\ \A u \in Threads \ {t} : spc'[u] = spc[u] /\ mine'[u] = mine[u]
    BY <1>3, ConfigAssumption DEF StartCheck, StartInv, ShapeInv, Clients
  <2>2. ppc[clients'] = "none"
    BY <2>1 DEF FreshInv
  <2>3. \A c \in Clients : clients' < c => clients < c
    BY <2>1, ConfigAssumption DEF Clients
  <2> QED
    BY <1>3, <2>1, <2>2, <2>3 DEF FreshInv
<1>4. ASSUME NEW t \in Threads, spc[t] # "out",
             \/ \E to, attributes : Configure(t, to, attributes)
             \/ StartLeaves(t) /\ config' = config
             \/ StartRaises(t),
             ppc' = ppc, clients' = clients,
             spc'[t] \notin {"out", "mark"} => spc[t] # "mark"
      PROVE  FreshInv'
  <2>1. /\ \A u \in Threads \ {t} : spc'[u] = spc[u] /\ mine'[u] = mine[u]
        /\ spc'[t] # "out" => mine'[t] = mine[t]
    BY <1>4, OthersKept
  <2> QED
    BY <1>4, <2>1 DEF FreshInv
<1>5. ASSUME NEW t \in Threads, spc[t] # "out", ppc' = ppc, clients' = clients,
             StartStep(t) \/ (t = MainThread /\ Interrupt),
             spc[t] = "mark" => spc'[t] = "out"
      PROVE  FreshInv'
  <2>1. \/ \E to, attributes : Configure(t, to, attributes)
        \/ StartLeaves(t) /\ config' = config
        \/ StartRaises(t)
    BY <1>5, StartMoves
  <2> QED
    BY <1>4, <1>5, <2>1
<1>6. \A t \in Threads : StartLeaves(t) \/ StartRaises(t) => spc'[t] = "out"
  BY DEF StartInv, ShapeInv, StartLeaves, StartRaises
<1>7. ASSUME NEW t \in Threads, StartStep(t), ConfigStep(t), UNCHANGED <<handler, pollVars>>
      PROVE  FreshInv'
  <2>1. spc[t] \notin {"out", "mark"} /\ clients' = clients
    BY <1>7 DEF ConfigStep, SetupAuth, SetupAuthFails, ConfigProfilers, ConfigProject,
                ConfigService, ConfigZone, ConfigInstance
  <2> QED
    BY <1>5, <1>7, <2>1 DEF pollVars
<1>8. ASSUME NEW t \in Threads, StartStep(t), Register(t),
             UNCHANGED <<env, started, clients, interrupt, abandoned, pollVars>>
      PROVE  FreshInv'
  <2>1. spc[t] = "register"
    BY <1>8 DEF Register
  <2> QED
    BY <1>5, <1>8, <2>1 DEF pollVars
<1>9. ASSUME NEW t \in Threads, StartStep(t), Mark(t),
             UNCHANGED <<env, clients, interrupt, abandoned, handler, pollVars>>
      PROVE  FreshInv'
  <2>1. spc[t] = "mark" /\ StartLeaves(t)
    BY <1>9 DEF Mark
  <2> QED
    BY <1>5, <1>6, <1>9, <2>1 DEF pollVars
<1>10. ASSUME NEW t \in Threads, StartStep(t), Spawn(t),
              UNCHANGED <<env, clients, interrupt, abandoned>>
       PROVE  FreshInv'
  <2>1. spc[t] = "spawn"
    BY <1>10 DEF Spawn
  <2>2. CASE ppc' = ppc
    BY <1>5, <1>10, <2>1, <2>2
  <2>3. CASE Configure(t, "mark", cfg(t)) /\ ppc' = [ppc EXCEPT ![mine[t]] = "build"]
    <3>1. mine[t] \in 1 .. clients /\ clients \in Nat /\ spc'[t] = "mark"
      BY <2>1, <2>3 DEF StartInv, OwnInv, ShapeInv, Configure
    <3>2. \A u \in Threads \ {t} : spc'[u] = spc[u] /\ mine'[u] = mine[u]
      BY <2>1, <2>3, OthersKept
    <3>3. \A c \in Clients \ {mine[t]} : ppc'[c] = ppc[c]
      BY <2>3 DEF StartInv, ShapeInv
    <3>4. \A u \in Threads \ {t} : spc[u] # "out" => mine[u] \in Clients \ {mine[t]}
      BY <2>1, ConfigAssumption DEF StartInv, OwnInv, ShapeInv, Clients
    <3>5. \A c \in Clients : clients < c => c # mine[t]
      BY <3>1, ConfigAssumption DEF Clients
    <3> QED
      BY <1>10, <3>1, <3>2, <3>3, <3>4, <3>5 DEF FreshInv
  <2> QED
    BY <1>10, <2>2, <2>3 DEF Spawn
<1>11. CASE Interrupt /\ UNCHANGED <<handler, pollVars>>
  <2> DEFINE t == MainThread
  <2>1. t \in Threads /\ spc[t] # "out" /\ clients' = clients
    BY <1>11, ConfigAssumption DEF Interrupt, InterruptRetrieval, InterruptElsewhere
  <2>2. spc[t] = "mark" => spc'[t] = "out"
    BY <1>6, <1>11, <2>1 DEF Interrupt, InterruptRetrieval, InterruptElsewhere
  <2> HIDE DEF t
  <2> QED
    BY <1>5, <1>11, <2>1, <2>2 DEF pollVars, t
<1> QED
  BY <1>1, <1>2, <1>3, <1>7, <1>8, <1>9, <1>10, <1>11 DEF Next, StartStep, pollVars

LEMMA FreshAlways == Spec => [](StartInv /\ FreshInv)
<1>1. Init => FreshInv
  BY DEF Init, ConfigInit, FreshInv
<1> QED
  BY <1>1, InitStarting, NextStart, NextFresh, PTL DEF Spec

-----------------------------------------------------------------------------
(***************************************************************************)
(* Who has SIGALRM.  The main thread alone gets past register_handler with *)
(* a wall profiler, since signal.signal raises elsewhere; and it does not  *)
(* get there again once it has set _started.                               *)
(***************************************************************************)
WallPolled(c) == ppc[c] # "none" /\ "WALL" \in config[c].profilers

HandlerInv ==
  /\ \A t \in Threads :
       spc[t] \in {"spawn", "mark"} /\ HasWall(t) => t = MainThread /\ handler = mine[t]
  /\ \A c \in Clients \ abandoned : WallPolled(c) =>
       /\ handler = c
       /\ \/ started /\ spc[MainThread] = "out"
          \/ spc[MainThread] = "mark" /\ mine[MainThread] = c

\* One start() moves, and makes no client with a wall profiler that is polled.
LEMMA MovingOn ==
  ASSUME StartInv, HandlerInv, NEW t \in Threads, spc[t] \notin {"out", "mark"},
         StartStep(t) \/ (t = MainThread /\ Interrupt),
         UNCHANGED <<handler, started, abandoned>>,
         \A c \in Clients \ {mine[t]} : ppc'[c] = ppc[c],
         "WALL" \in config'[mine[t]].profilers =>
           spc'[t] \notin {"spawn", "mark"} /\ ppc'[mine[t]] = "none"
  PROVE  HandlerInv'
<1>1. /\ mine[t] \in Clients
      /\ \A u \in Threads \ {t} : spc'[u] = spc[u] /\ mine'[u] = mine[u]
      /\ \A c \in Clients \ {mine[t]} : config'[c] = config[c]
      /\ spc'[t] # "out" => mine'[t] = mine[t]
  BY StartMoves, OthersKept
<1>2. ASSUME NEW u \in Threads, spc'[u] \in {"spawn", "mark"}, HasWall(u)'
      PROVE  u = MainThread /\ handler' = mine'[u]
  <2>1. u # t
    BY <1>1, <1>2 DEF HasWall, cfg
  <2>2. spc[u] \in {"spawn", "mark"} /\ mine[u] \in Clients \ {mine[t]}
    BY <1>1, <1>2, <2>1, ConfigAssumption DEF StartInv, OwnInv, ShapeInv, Clients
  <2> QED
    BY <1>1, <1>2, <2>1, <2>2 DEF HandlerInv, HasWall, cfg
<1>3. ASSUME NEW c \in Clients \ abandoned', WallPolled(c)'
      PROVE  /\ handler' = c
             /\ \/ started' /\ spc'[MainThread] = "out"
                \/ spc'[MainThread] = "mark" /\ mine'[MainThread] = c
  <2>1. c # mine[t]
    BY <1>3 DEF WallPolled
  <2>2. WallPolled(c)
    BY <1>1, <1>3, <2>1 DEF WallPolled
  <2>3. /\ handler = c
        /\ \/ started /\ spc[MainThread] = "out"
           \/ spc[MainThread] = "mark" /\ mine[MainThread] = c
    BY <2>2 DEF HandlerInv
  <2>4. MainThread \in Threads \ {t}
    BY <2>3, ConfigAssumption
  <2> QED
    BY <1>1, <2>3, <2>4
<1> QED
  BY <1>2, <1>3 DEF HandlerInv

LEMMA ConfigHandler ==
  ASSUME StartInv, FreshInv, HandlerInv, NEW t \in Threads, ConfigStep(t),
         UNCHANGED <<handler, pollVars>>
  PROVE  HandlerInv'
<1>1. /\ spc[t] \notin {"out", "mark"} /\ StartStep(t)
      /\ UNCHANGED <<handler, ppc, started, abandoned>>
  BY DEF ConfigStep, SetupAuth, SetupAuthFails, ConfigProfilers, ConfigProject, ConfigService,
         ConfigZone, ConfigInstance, StartStep, pollVars
<1>2. spc'[t] \notin {"spawn", "mark"}
  BY DEF ConfigStep, SetupAuth, SetupAuthFails, ConfigProfilers, ConfigProject, ConfigService,
         ConfigZone, ConfigInstance, Configure, StartRaises, StartLeaves, StartInv, ShapeInv
<1>3. ppc'[mine[t]] = "none"
  BY <1>1 DEF FreshInv
<1> QED
  BY <1>1, <1>2, <1>3, MovingOn

LEMMA RegisterHandler ==
  ASSUME StartInv, FreshInv, HandlerInv, NEW t \in Threads, Register(t),
         UNCHANGED <<env, started, clients, interrupt, abandoned, pollVars>>
  PROVE  HandlerInv'
<1>1. /\ spc[t] = "register" /\ StartStep(t) /\ UNCHANGED <<ppc, started, abandoned>>
      /\ mine[t] \in Clients /\ ppc[mine[t]] = "none"
  BY ConfigAssumption
     DEF Register, StartStep, pollVars, FreshInv, StartInv, OwnInv, ShapeInv, Clients
<1>2. CASE StartRaises(t) /\ UNCHANGED handler
  <2>1. spc'[t] = "out"
    BY <1>2 DEF StartRaises, StartLeaves, StartInv, ShapeInv
  <2> QED
    BY <1>1, <1>2, <2>1, MovingOn
<1>3. ASSUME Configure(t, "spawn", cfg(t))
      PROVE  /\ spc'[t] = "spawn" /\ mine' = mine
             /\ \A u \in Threads \ {t} : spc'[u] = spc[u]
             /\ \A c \in Clients : config'[c] = config[c]
  BY <1>1, <1>3 DEF Configure, cfg, StartInv, ShapeInv
<1>4. CASE ~ HasWall(t) /\ Configure(t, "spawn", cfg(t)) /\ UNCHANGED handler
  <2>1. "WALL" \notin config'[mine[t]].profilers
    BY <1>1, <1>3, <1>4 DEF HasWall, cfg
  <2> QED
    BY <1>1, <1>4, <2>1, MovingOn
<1>5. CASE t = MainThread /\ Configure(t, "spawn", cfg(t)) /\ handler' = mine[t]
  <2>1. ASSUME NEW u \in Threads, spc'[u] \in {"spawn", "mark"}, HasWall(u)'
        PROVE  u = MainThread /\ handler' = mine'[u]
    <3>1. CASE u = t
      BY <1>3, <1>5, <3>1
    <3>2. CASE u # t
      <4>1. spc[u] \in {"spawn", "mark"} /\ mine[u] \in Clients
        BY <1>3, <1>5, <2>1, <3>2, ConfigAssumption DEF StartInv, OwnInv, ShapeInv, Clients
      <4>2. HasWall(u)
        BY <1>3, <1>5, <2>1, <4>1 DEF HasWall, cfg
      <4> QED
        BY <1>5, <3>2, <4>1, <4>2 DEF HandlerInv
    <3> QED
      BY <3>1, <3>2
  <2>2. \A c \in Clients \ abandoned : ~ WallPolled(c)
    BY <1>1, <1>5 DEF HandlerInv
  <2>3. \A c \in Clients \ abandoned' : ~ WallPolled(c)'
    BY <1>1, <1>3, <1>5, <2>2 DEF WallPolled
  <2> QED
    BY <2>1, <2>3 DEF HandlerInv
<1> QED
  BY <1>2, <1>4, <1>5 DEF Register

LEMMA SpawnHandler ==
  ASSUME StartInv, FreshInv, HandlerInv, NEW t \in Threads, Spawn(t),
         UNCHANGED <<env, clients, interrupt, abandoned>>
  PROVE  HandlerInv'
<1>1. /\ spc[t] = "spawn" /\ StartStep(t) /\ UNCHANGED <<handler, started, abandoned>>
      /\ mine[t] \in Clients /\ ppc[mine[t]] = "none"
  <2>1. spc[t] = "spawn" /\ StartStep(t) /\ UNCHANGED <<handler, started, abandoned>>
    BY DEF Spawn, StartStep
  <2> QED
    BY <2>1, ConfigAssumption DEF FreshInv, StartInv, OwnInv, ShapeInv, Clients
<1>2. CASE StartRaises(t) /\ UNCHANGED ppc
  <2>1. spc'[t] = "out"
    BY <1>2 DEF StartRaises, StartLeaves, StartInv, ShapeInv
  <2> QED
    BY <1>1, <1>2, <2>1, MovingOn
<1>3. CASE Configure(t, "mark", cfg(t)) /\ ppc' = [ppc EXCEPT ![mine[t]] = "build"]
  <2>1. /\ spc'[t] = "mark" /\ mine' = mine
        /\ \A u \in Threads \ {t} : spc'[u] = spc[u]
        /\ \A c \in Clients : config'[c] = config[c]
        /\ \A c \in Clients \ {mine[t]} : ppc'[c] = ppc[c]
    BY <1>1, <1>3 DEF Configure, cfg, StartInv, ShapeInv
  <2>2. CASE ~ HasWall(t)
    <3>1. "WALL" \notin config'[mine[t]].profilers
      BY <1>1, <2>1, <2>2 DEF HasWall, cfg
    <3> QED
      BY <1>1, <2>1, <3>1, MovingOn
  <2>3. CASE HasWall(t)
    <3>1. t = MainThread /\ handler = mine[t]
      BY <1>1, <2>3 DEF HandlerInv
    <3>2. ASSUME NEW u \in Threads, spc'[u] \in {"spawn", "mark"}, HasWall(u)'
          PROVE  u = MainThread /\ handler' = mine'[u]
      <4>1. spc[u] \in {"spawn", "mark"} /\ mine[u] \in Clients
        BY <1>1, <2>1, <3>2, ConfigAssumption DEF StartInv, OwnInv, ShapeInv, Clients
      <4>2. HasWall(u)
        BY <2>1, <3>2, <4>1 DEF HasWall, cfg
      <4> QED
        BY <1>1, <2>1, <4>1, <4>2 DEF HandlerInv
    <3>3. \A c \in Clients \ abandoned : ~ WallPolled(c)
      BY <1>1, <3>1 DEF HandlerInv
    <3>4. \A c \in Clients \ abandoned' : WallPolled(c)' => c = mine[t]
      BY <1>1, <2>1, <3>3 DEF WallPolled
    <3> QED
      BY <1>1, <2>1, <3>1, <3>2, <3>4 DEF HandlerInv
  <2> QED
    BY <2>2, <2>3
<1> QED
  BY <1>2, <1>3 DEF Spawn

\* start() is left with its client running: _started is set, or it is abandoned.
LEMMA MarkHandler ==
  ASSUME StartInv, HandlerInv, NEW t \in Threads, spc[t] = "mark", StartLeaves(t),
         UNCHANGED <<config, handler, ppc>>,
         \/ started' = TRUE /\ abandoned' = abandoned
         \/ /\ t = MainThread /\ started' = started
            /\ abandoned' = abandoned \cup {mine[t]}
  PROVE  HandlerInv'
<1>1. /\ spc'[t] = "out"
      /\ \A u \in Threads \ {t} : spc'[u] = spc[u] /\ mine'[u] = mine[u]
  BY DEF StartLeaves, StartInv, ShapeInv
<1>2. ASSUME NEW u \in Threads, spc'[u] \in {"spawn", "mark"}, HasWall(u)'
      PROVE  u = MainThread /\ handler' = mine'[u]
  BY <1>1, <1>2 DEF HandlerInv, HasWall, cfg
<1>3. ASSUME NEW c \in Clients \ abandoned', WallPolled(c)'
      PROVE  /\ handler' = c
             /\ \/ started' /\ spc'[MainThread] = "out"
                \/ spc'[MainThread] = "mark" /\ mine'[MainThread] = c
  <2>1. c \in Clients \ abandoned /\ WallPolled(c)
    BY <1>3 DEF WallPolled
  <2>2. /\ handler = c
        /\ \/ started /\ spc[MainThread] = "out"
           \/ spc[MainThread] = "mark" /\ mine[MainThread] = c
    BY <2>1 DEF HandlerInv
  <2> QED
    BY <1>1, <1>3, <2>2, ConfigAssumption
<1> QED
  BY <1>2, <1>3 DEF HandlerInv

LEMMA InterruptHandler ==
  ASSUME StartInv, FreshInv, HandlerInv, Interrupt, UNCHANGED <<handler, pollVars>>
  PROVE  HandlerInv'
<1> DEFINE t == MainThread
<1>1. t \in Threads /\ spc[t] # "out" /\ UNCHANGED <<handler, ppc>> /\ started' = started
  BY ConfigAssumption DEF Interrupt, InterruptRetrieval, InterruptElsewhere, pollVars
<1>2. CASE spc[t] = "mark"
  <2>1. StartLeaves(t) /\ abandoned' = abandoned \cup {mine[t]} /\ config' = config
    BY <1>2 DEF Interrupt, InterruptRetrieval, InterruptElsewhere
  <2> QED
    BY <1>1, <1>2, <2>1, MarkHandler
<1>3. CASE spc[t] # "mark"
  <2>1. spc'[t] \notin {"spawn", "mark"} /\ abandoned' = abandoned
    BY <1>1, <1>3
       DEF Interrupt, InterruptRetrieval, InterruptElsewhere, Configure, StartRaises, StartLeaves,
           StartInv, ShapeInv
  <2>2. ppc'[mine[t]] = "none"
    BY <1>1, <1>3 DEF FreshInv
  <2> QED
    BY <1>1, <1>3, <2>1, <2>2, MovingOn
<1> QED
  BY <1>2, <1>3

LEMMA NextHandler ==
  ASSUME StartInv, FreshInv, HandlerInv, [Next]_agentVars PROVE HandlerInv'
<1>1. ASSUME UNCHANGED <<spc, mine, config, started, handler, abandoned>>,
             \A c \in Clients : ppc'[c] # "none" <=> ppc[c] # "none"
      PROVE  HandlerInv'
  BY <1>1 DEF HandlerInv, WallPolled, HasWall, cfg
<1>2. CASE UNCHANGED agentVars
  BY <1>1, <1>2 DEF agentVars, startVars, configVars, pollVars
<1>3. ASSUME NEW c \in Clients, PollStep(c) PROVE HandlerInv'
  BY <1>1, <1>3, PollingKeeps DEF startVars, configVars
<1>4. ASSUME NEW t \in Threads, NEW a \in Calls, StartCheck(t, a), UNCHANGED <<handler, pollVars>>
      PROVE  HandlerInv'
  <2>1. /\ UNCHANGED <<started, config, ppc, handler, abandoned>> /\ ~ started
        /\ spc[t] = "out"
        /\ spc' = [spc EXCEPT ![t] = "auth"] /\ mine' = [mine EXCEPT ![t] = clients']
    BY <1>4 DEF StartCheck, pollVars
  <2>2. /\ spc'[t] = "auth"
        /\ \A u \in Threads \ {t} : spc'[u] = spc[u] /\ mine'[u] = mine[u]
    BY <2>1 DEF StartInv, ShapeInv
  <2>3. ASSUME NEW u \in Threads, spc'[u] \in {"spawn", "mark"}, HasWall(u)'
        PROVE  u = MainThread /\ handler' = mine'[u]
    BY <2>1, <2>2, <2>3 DEF HandlerInv, HasWall, cfg
  <2>4. ASSUME NEW c \in Clients \ abandoned', WallPolled(c)'
        PROVE  handler' = c /\ spc'[MainThread] = "mark" /\ mine'[MainThread] = c
    <3>1. handler = c /\ spc[MainThread] = "mark" /\ mine[MainThread] = c
      BY <2>1, <2>4 DEF HandlerInv, WallPolled
    <3> QED
      BY <2>1, <2>2, <3>1, ConfigAssumption
  <2> QED
    BY <2>3, <2>4 DEF HandlerInv
<1>5. ASSUME NEW t \in Threads, ConfigStep(t), UNCHANGED <<handler, pollVars>> PROVE HandlerInv'
  BY <1>5, ConfigHandler
<1>6. ASSUME NEW t \in Threads, Register(t),
             UNCHANGED <<env, started, clients, interrupt, abandoned, pollVars>>
      PROVE  HandlerInv'
  BY <1>6, RegisterHandler
<1>7. ASSUME NEW t \in Threads, Spawn(t), UNCHANGED <<env, clients, interrupt, abandoned>>
      PROVE  HandlerInv'
  BY <1>7, SpawnHandler
<1>8. ASSUME NEW t \in Threads, Mark(t),
             UNCHANGED <<env, clients, interrupt, abandoned, handler, pollVars>>
      PROVE  HandlerInv'
  BY <1>8, MarkHandler DEF Mark, pollVars
<1>9. CASE Interrupt /\ UNCHANGED <<handler, pollVars>>
  BY <1>9, InterruptHandler
<1> QED
  BY <1>2, <1>3, <1>4, <1>5, <1>6, <1>7, <1>8, <1>9 DEF Next, StartStep

LEMMA HandlerAlways == Spec => [](StartInv /\ FreshInv /\ HandlerInv)
<1>1. Init => HandlerInv
  BY ConfigAssumption DEF Init, ConfigInit, HandlerInv, WallPolled
<1>2. StartInv /\ FreshInv /\ HandlerInv /\ [Next]_agentVars => HandlerInv'
  BY NextHandler
<1> QED
  BY <1>1, <1>2, FreshAlways, PTL DEF Spec

(***************************************************************************)
(* SIGALRM is handled by the WallProfiler of the client that is polled for,*)
(* whatever profilers the calls of start() disable and however they        *)
(* overlap, fail and are interrupted (client.py:223-228), except where     *)
(* start() was interrupted between the start of the polling thread and     *)
(* _started = True (__init__.py:131-133).                                  *)
(***************************************************************************)
THEOREM PollerHasTheSignal == Spec => []WallHandlerIsCurrent
<1>1. HandlerInv => WallHandlerIsCurrent
  BY DEF HandlerInv, WallPolled, WallHandlerIsCurrent
<1> QED
  BY <1>1, HandlerAlways, PTL

-----------------------------------------------------------------------------
(* Calls of start() that all ask for wall profiling. *)

WallInAllCalls == \A a \in Calls : ~ a.disable_wall

WallInv ==
  /\ \A t \in Threads : spc[t] \in HasProfilers => "WALL" \in config[mine[t]].profilers
  /\ \A c \in Clients : ppc[c] # "none" => "WALL" \in config[c].profilers

\* One start() moves; its client keeps the wall profiler.
LEMMA MovingWall ==
  ASSUME StartInv, WallInv, NEW t \in Threads, spc[t] # "out",
         StartStep(t) \/ (t = MainThread /\ Interrupt),
         \A c \in Clients \ {mine[t]} : ppc'[c] = ppc[c],
         spc'[t] \in HasProfilers \/ ppc'[mine[t]] # "none" =>
           "WALL" \in config'[mine[t]].profilers
  PROVE  WallInv'
<1>1. /\ mine[t] \in Clients
      /\ \A u \in Threads \ {t} : spc'[u] = spc[u] /\ mine'[u] = mine[u]
      /\ \A c \in Clients \ {mine[t]} : config'[c] = config[c]
      /\ spc'[t] # "out" => mine'[t] = mine[t]
  BY StartMoves, OthersKept
<1>2. ASSUME NEW u \in Threads, spc'[u] \in HasProfilers
      PROVE  "WALL" \in config'[mine'[u]].profilers
  <2>1. CASE u = t
    BY <1>1, <1>2, <2>1 DEF HasProfilers
  <2>2. CASE u # t
    <3>1. mine[u] \in Clients \ {mine[t]} /\ spc[u] \in HasProfilers
      BY <1>1, <1>2, <2>2, ConfigAssumption
         DEF StartInv, OwnInv, ShapeInv, Clients, HasProfilers, Points
    <3> QED
      BY <1>1, <2>2, <3>1 DEF WallInv
  <2> QED
    BY <2>1, <2>2
<1>3. \A c \in Clients : ppc'[c] # "none" => "WALL" \in config'[c].profilers
  BY <1>1 DEF WallInv
<1> QED
  BY <1>2, <1>3 DEF WallInv

LEMMA ConfigWall ==
  ASSUME WallInAllCalls, StartInv, FreshInv, WallInv, NEW t \in Threads, ConfigStep(t),
         UNCHANGED <<handler, pollVars>>
  PROVE  WallInv'
<1>1. spc[t] \notin {"out", "mark"} /\ StartStep(t) /\ ppc' = ppc
  BY DEF ConfigStep, SetupAuth, SetupAuthFails, ConfigProfilers, ConfigProject, ConfigService,
         ConfigZone, ConfigInstance, StartStep, pollVars
<1>2. mine[t] \in Clients /\ call[t] \in Calls /\ ppc'[mine[t]] = "none"
  BY <1>1, ConfigAssumption DEF StartInv, OwnInv, ShapeInv, Clients, FreshInv
<1>3. CASE StartRaises(t)
  <2>1. spc'[t] = "out"
    BY <1>3 DEF StartRaises, StartLeaves, StartInv, ShapeInv
  <2> QED
    BY <1>1, <1>2, <2>1, MovingWall DEF HasProfilers
<1>4. ASSUME NEW to \in {"profilers", "project", "service", "zone", "instance", "register"},
             NEW attributes, Configure(t, to, attributes),
             to # "profilers" => "WALL" \in attributes.profilers
      PROVE  WallInv'
  <2>1. spc'[t] = to /\ config'[mine[t]] = attributes
    BY <1>2, <1>4 DEF Configure, StartInv, ShapeInv
  <2> QED
    BY <1>1, <1>2, <1>4, <2>1, MovingWall DEF HasProfilers
<1>5. "profilers" \in DOMAIN cfg(t)
  BY <1>2 DEF StartInv, ShapeInv, cfg, Named
<1>6. spc[t] \in HasProfilers => "WALL" \in cfg(t).profilers
  BY DEF WallInv, cfg
<1>7. CASE SetupAuth(t)
  BY <1>4, <1>7 DEF SetupAuth
<1>8. CASE ConfigProfilers(t) /\ ~ StartRaises(t)
  <2>1. "WALL" \in EnabledProfilers(call[t])
    BY <1>2 DEF EnabledProfilers, WallInAllCalls
  <2> QED
    BY <1>4, <1>5, <1>8, <2>1 DEF ConfigProfilers
<1>9. CASE ConfigProject(t) /\ ~ StartRaises(t)
  BY <1>4, <1>5, <1>6, <1>9 DEF ConfigProject, HasProfilers, Points
<1>10. CASE ConfigService(t) /\ ~ StartRaises(t)
  BY <1>4, <1>5, <1>6, <1>10 DEF ConfigService, HasProfilers, Points
<1>11. CASE ConfigZone(t)
  BY <1>4, <1>5, <1>6, <1>11 DEF ConfigZone, HasProfilers, Points
<1>12. CASE ConfigInstance(t)
  BY <1>4, <1>5, <1>6, <1>12 DEF ConfigInstance, HasProfilers, Points
<1> QED
  BY <1>3, <1>7, <1>8, <1>9, <1>10, <1>11, <1>12 DEF ConfigStep, SetupAuthFails

LEMMA NextWall ==
  ASSUME WallInAllCalls, StartInv, FreshInv, WallInv, [Next]_agentVars PROVE WallInv'
<1>1. ASSUME UNCHANGED <<spc, mine, config>>,
             \A c \in Clients : ppc'[c] # "none" <=> ppc[c] # "none"
      PROVE  WallInv'
  BY <1>1 DEF WallInv
<1>2. CASE UNCHANGED agentVars
  BY <1>1, <1>2 DEF agentVars, startVars, configVars, pollVars
<1>3. ASSUME NEW c \in Clients, PollStep(c) PROVE WallInv'
  BY <1>1, <1>3, PollingKeeps DEF startVars, configVars
<1>4. ASSUME NEW t \in Threads, NEW a \in Calls, StartCheck(t, a), ppc' = ppc PROVE WallInv'
  <2>1. /\ config' = config /\ spc'[t] = "auth"
        /\ \A u \in Threads \ {t} : spc'[u] = spc[u] /\ mine'[u] = mine[u]
    BY <1>4 DEF StartCheck, StartInv, ShapeInv
  <2> QED
    BY <1>4, <2>1 DEF WallInv, HasProfilers
<1>5. ASSUME NEW t \in Threads, ConfigStep(t), UNCHANGED <<handler, pollVars>> PROVE WallInv'
  BY <1>5, ConfigWall
<1>6. ASSUME NEW t \in Threads, spc[t] \in {"zone", "instance", "register", "spawn"},
             StartStep(t) \/ (t = MainThread /\ Interrupt),
             NEW to \in Points, Configure(t, to, cfg(t)),
             \A c \in Clients \ {mine[t]} : ppc'[c] = ppc[c]
      PROVE  WallInv'
  <2>1. mine[t] \in Clients
    BY <1>6, ConfigAssumption DEF StartInv, OwnInv, ShapeInv, Clients
  <2>2. config'[mine[t]] = config[mine[t]]
    BY <1>6, <2>1 DEF Configure, cfg, StartInv, ShapeInv
  <2>3. "WALL" \in config[mine[t]].profilers
    BY <1>6 DEF WallInv, HasProfilers, Points
  <2> QED
    BY <1>6, <2>2, <2>3, MovingWall
<1>7. ASSUME NEW t \in Threads, spc[t] \notin {"out", "mark"}, ppc' = ppc, StartRaises(t),
             StartStep(t) \/ (t = MainThread /\ Interrupt)
      PROVE  WallInv'
  <2>1. spc'[t] = "out" /\ ppc'[mine[t]] = "none"
    BY <1>7 DEF StartRaises, StartLeaves, StartInv, ShapeInv, FreshInv
  <2> QED
    BY <1>7, <2>1, MovingWall DEF HasProfilers
<1>8. ASSUME NEW t \in Threads, spc[t] = "mark", ppc' = ppc, StartLeaves(t), config' = config
      PROVE  WallInv'
  <2>1. /\ spc'[t] = "out"
        /\ \A u \in Threads \ {t} : spc'[u] = spc[u] /\ mine'[u] = mine[u]
    BY <1>8 DEF StartLeaves, StartInv, ShapeInv
  <2> QED
    BY <1>8, <2>1 DEF WallInv, HasProfilers
<1>9. ASSUME NEW t \in Threads, Register(t), StartStep(t), ppc' = ppc PROVE WallInv'
  BY <1>6, <1>7, <1>9 DEF Register, Points
<1>10. ASSUME NEW t \in Threads, Spawn(t), StartStep(t) PROVE WallInv'
  <2>1. spc[t] = "spawn" /\ mine[t] \in Clients
    BY <1>10, ConfigAssumption DEF Spawn, StartInv, OwnInv, ShapeInv, Clients
  <2>2. CASE StartRaises(t) /\ UNCHANGED ppc
    BY <1>7, <1>10, <2>1, <2>2
  <2>3. CASE Configure(t, "mark", cfg(t)) /\ ppc' = [ppc EXCEPT ![mine[t]] = "build"]
    <3>1. \A c \in Clients \ {mine[t]} : ppc'[c] = ppc[c]
      BY <2>1, <2>3 DEF StartInv, ShapeInv
    <3> QED
      BY <1>6, <1>10, <2>1, <2>3, <3>1 DEF Points
  <2> QED
    BY <1>10, <2>2, <2>3 DEF Spawn
<1>11. ASSUME NEW t \in Threads, Mark(t), ppc' = ppc PROVE WallInv'
  BY <1>8, <1>11 DEF Mark
<1>12. CASE Interrupt /\ ppc' = ppc
  <2>1. MainThread \in Threads
    BY ConfigAssumption
  <2> QED
    BY <1>6, <1>7, <1>8, <1>12, <2>1
       DEF Interrupt, InterruptRetrieval, InterruptElsewhere, Points
<1> QED
  BY <1>2, <1>3, <1>4, <1>5, <1>9, <1>10, <1>11, <1>12 DEF Next, StartStep, pollVars

LEMMA WallAlways ==
  ASSUME WallInAllCalls PROVE Spec => []WallInv
<1>1. Init => WallInv
  BY DEF Init, ConfigInit, WallInv, HasProfilers
<1>2. StartInv /\ FreshInv /\ WallInv /\ [Next]_agentVars => WallInv'
  BY NextWall
<1> QED
  BY <1>1, <1>2, FreshAlways, PTL DEF Spec

(***************************************************************************)
(* If no call of start() disables wall profiling, one polling thread at    *)
(* most runs, however the calls overlap, fail and are interrupted, besides *)
(* those that an interrupt left behind between client.start() and          *)
(* _started = True: the refusal of signal.signal does what _started does   *)
(* not (__init__.py:101, 131-133; client.py:223-228).                      *)
(***************************************************************************)
THEOREM OneThreadPolls ==
  ASSUME WallInAllCalls PROVE Spec => []OnePollerUnlessAbandoned
<1>1. HandlerInv /\ WallInv => OnePollerUnlessAbandoned
  BY DEF HandlerInv, WallInv, WallPolled, OnePollerUnlessAbandoned
<1> QED
  BY <1>1, HandlerAlways, WallAlways, PTL

-----------------------------------------------------------------------------
(* What the agent calls itself. *)

\* Python's "or", over two values.
LEMMA FirstOfTwo ==
  ASSUME NEW a, NEW b
  PROVE  FirstOf(<<a, b>>) = IF a # None THEN a ELSE b
<1> DEFINE v == <<a, b>>
           set == {i \in DOMAIN v : v[i] # None}
           first == CHOOSE i \in set : \A j \in set : i <= j
<1>1. DOMAIN v = {1, 2} /\ v[1] = a /\ v[2] = b
  OBVIOUS
<1>2. FirstOf(v) = IF set = {} THEN None ELSE v[first]
  BY DEF FirstOf
<1> HIDE DEF v
<1>3. CASE a # None
  <2>1. 1 \in set /\ \A i \in set : 1 <= i
    BY <1>1, <1>3
  <2>2. \A i \in set : (\A j \in set : i <= j) => i = 1
    BY <1>1, <2>1
  <2>3. first = 1
    BY <2>1, <2>2
  <2> QED
    BY <1>1, <1>2, <1>3, <2>1, <2>3 DEF v
<1>4. CASE a = None /\ b # None
  <2>1. set = {2}
    BY <1>1, <1>4
  <2>2. first = 2
    BY <2>1
  <2> QED
    BY <1>1, <1>2, <1>4, <2>1, <2>2 DEF v
<1>5. CASE a = None /\ b = None
  <2>1. set = {}
    BY <1>1, <1>5
  <2> QED
    BY <1>2, <1>5, <2>1 DEF v
<1> QED
  BY <1>3, <1>4, <1>5

\* And over three.
LEMMA FirstOfThree ==
  ASSUME NEW a, NEW b, NEW c
  PROVE  FirstOf(<<a, b, c>>) = IF a # None THEN a ELSE IF b # None THEN b ELSE c
<1> DEFINE v == <<a, b, c>>
           set == {i \in DOMAIN v : v[i] # None}
           first == CHOOSE i \in set : \A j \in set : i <= j
<1>1. DOMAIN v = {1, 2, 3} /\ v[1] = a /\ v[2] = b /\ v[3] = c
  OBVIOUS
<1>2. FirstOf(v) = IF set = {} THEN None ELSE v[first]
  BY DEF FirstOf
<1> HIDE DEF v
<1>3. CASE a # None
  <2>1. 1 \in set /\ \A i \in set : 1 <= i
    BY <1>1, <1>3
  <2>2. \A i \in set : (\A j \in set : i <= j) => i = 1
    BY <1>1, <2>1
  <2>3. first = 1
    BY <2>1, <2>2
  <2> QED
    BY <1>1, <1>2, <1>3, <2>1, <2>3 DEF v
<1>4. CASE a = None /\ b # None
  <2>1. 2 \in set /\ \A i \in set : 2 <= i
    BY <1>1, <1>4
  <2>2. \A i \in set : (\A j \in set : i <= j) => i = 2
    BY <1>1, <2>1
  <2>3. first = 2
    BY <2>1, <2>2
  <2> QED
    BY <1>1, <1>2, <1>4, <2>1, <2>3 DEF v
<1>5. CASE a = None /\ b = None /\ c # None
  <2>1. set = {3}
    BY <1>1, <1>5
  <2>2. first = 3
    BY <2>1
  <2> QED
    BY <1>1, <1>2, <1>5, <2>1, <2>2 DEF v
<1>6. CASE a = None /\ b = None /\ c = None
  <2>1. set = {}
    BY <1>1, <1>6
  <2> QED
    BY <1>2, <1>6, <2>1 DEF v
<1> QED
  BY <1>3, <1>4, <1>5, <1>6

\* The project that setup_auth finds, None if there is none.
AuthProject(a) ==
  IF a.project_id # None THEN a.project_id
  ELSE IF a.file # None THEN env.file ELSE env.default

\* The names a client may have at a point of start() with arguments a.
Names(at, a, attributes) ==
  /\ at \in {"profilers", "project"} => attributes.project = AuthProject(a)
  /\ at \in HasProject => attributes.project \in
       IF a.project_id # None THEN {a.project_id}
       ELSE IF a.file # None /\ env.file # None THEN {env.file}
       ELSE IF a.file = None /\ env.default # None THEN {env.default}
       ELSE {env.metadata.project} \ {None}
  /\ at \in HasTarget =>
       /\ attributes.target \in ServiceNames
       /\ \/ attributes.target = a.service
          \/ a.service = None /\ attributes.target = env.gae_service
          \/ a.service = None /\ env.gae_service = None /\ attributes.target = env.k_service
       /\ attributes.version = IF a.version # None THEN a.version
                               ELSE IF env.gae_version # None THEN env.gae_version
                               ELSE env.k_revision

NamesInv == \A t \in Threads : Names(spc[t], call[t], config[mine[t]])

\* A call of start() goes on, with attributes that fit its new place.
LEMMA ConfigureNames ==
  ASSUME StartInv, NamesInv, NEW t \in Threads, spc[t] # "out",
         NEW to \in Points, NEW attributes,
         Configure(t, to, attributes), env' = env, Names(to, call[t], attributes)
  PROVE  NamesInv'
<1>1. /\ mine[t] \in Clients /\ call' = call /\ mine' = mine
      /\ spc' = [spc EXCEPT ![t] = to]
      /\ config' = [config EXCEPT ![mine[t]] = attributes]
  BY ConfigAssumption DEF StartInv, OwnInv, ShapeInv, Configure, Clients
<1>2. /\ spc'[t] = to /\ config'[mine[t]] = attributes
      /\ \A u \in Threads \ {t} : spc'[u] = spc[u]
      /\ \A c \in Clients \ {mine[t]} : config'[c] = config[c]
  BY <1>1 DEF StartInv, ShapeInv
<1> SUFFICES ASSUME NEW u \in Threads PROVE Names(spc[u], call[u], config[mine[u]])'
  BY DEF NamesInv
<1>3. CASE u = t
  BY <1>1, <1>2, <1>3 DEF Names, AuthProject
<1>4. CASE u # t /\ spc[u] # "out"
  <2>1. mine[u] \in Clients \ {mine[t]}
    BY <1>4, ConfigAssumption DEF StartInv, OwnInv, ShapeInv, Clients
  <2>2. spc'[u] = spc[u] /\ config'[mine'[u]] = config[mine[u]] /\ call'[u] = call[u]
    BY <1>1, <1>2, <1>4, <2>1
  <2>3. Names(spc[u], call[u], config[mine[u]])
    BY DEF NamesInv
  <2> QED
    BY <2>2, <2>3 DEF Names, AuthProject
<1>5. CASE u # t /\ spc[u] = "out"
  BY <1>2, <1>5 DEF Names, HasTarget, HasProject, HasProfilers
<1> QED
  BY <1>3, <1>4, <1>5

\* It is left.
LEMMA LeavingNames ==
  ASSUME StartInv, NamesInv, NEW t \in Threads, spc[t] # "out", env' = env,
         (StartLeaves(t) /\ config' = config) \/ StartRaises(t)
  PROVE  NamesInv'
<1>1. /\ mine[t] \in Clients
      /\ spc' = [spc EXCEPT ![t] = "out"] /\ call' = [call EXCEPT ![t] = None]
      /\ mine' = [mine EXCEPT ![t] = 0]
      /\ config' = config \/ config' = [config EXCEPT ![mine[t]] = NoConfig]
  BY ConfigAssumption DEF StartInv, OwnInv, ShapeInv, StartLeaves, StartRaises, Clients
<1>2. /\ spc'[t] = "out"
      /\ \A u \in Threads \ {t} : spc'[u] = spc[u] /\ mine'[u] = mine[u] /\ call'[u] = call[u]
      /\ \A c \in Clients \ {mine[t]} : config'[c] = config[c]
  BY <1>1 DEF StartInv, ShapeInv
<1> SUFFICES ASSUME NEW u \in Threads PROVE Names(spc[u], call[u], config[mine[u]])'
  BY DEF NamesInv
<1>3. CASE spc'[u] = "out"
  BY <1>3 DEF Names, HasTarget, HasProject, HasProfilers
<1>4. CASE spc'[u] # "out"
  <2>1. u # t /\ spc[u] # "out"
    BY <1>2, <1>4
  <2>2. mine[u] \in Clients \ {mine[t]}
    BY <2>1, ConfigAssumption DEF StartInv, OwnInv, ShapeInv, Clients
  <2>3. spc'[u] = spc[u] /\ config'[mine'[u]] = config[mine[u]] /\ call'[u] = call[u]
    BY <1>2, <2>1, <2>2
  <2>4. Names(spc[u], call[u], config[mine[u]])
    BY DEF NamesInv
  <2> QED
    BY <2>3, <2>4 DEF Names, AuthProject
<1> QED
  BY <1>3, <1>4

\* setup_auth and config find out one name after the other.
LEMMA ConfigNames ==
  ASSUME StartInv, NamesInv, NEW t \in Threads, ConfigStep(t)
  PROVE  NamesInv'
<1> DEFINE a == call[t]
           now == cfg(t)
<1>1. spc[t] # "out" /\ env' = env
  BY DEF ConfigStep, SetupAuth, SetupAuthFails, ConfigProfilers, ConfigProject, ConfigService,
         ConfigZone, ConfigInstance
<1>2. Named \subseteq DOMAIN now
  <2>1. mine[t] \in Clients
    BY <1>1, ConfigAssumption DEF StartInv, OwnInv, ShapeInv, Clients
  <2> QED
    BY <2>1 DEF StartInv, ShapeInv, cfg
<1>3. Names(spc[t], a, now)
  BY DEF NamesInv, cfg
<1>4. CASE StartRaises(t)
  BY <1>1, <1>4, LeavingNames
<1> USE DEF Points, HasProfilers, HasProject, HasTarget, Named
<1>5. CASE SetupAuth(t)
  <2> DEFINE found == IF a.file # None THEN env.file ELSE env.default
             new == [now EXCEPT !.project = FirstOf(<<a.project_id, found>>)]
  <2>1. Configure(t, "profilers", new)
    BY <1>5 DEF SetupAuth
  <2>2. new.project = AuthProject(a)
    BY <1>2, FirstOfTwo DEF AuthProject
  <2> HIDE DEF new
  <2>3. Names("profilers", a, new)
    BY <2>2 DEF Names
  <2> QED
    BY <1>1, <2>1, <2>3, ConfigureNames
<1>6. CASE ConfigProfilers(t) /\ ~ StartRaises(t)
  <2>1. PICK enabled : /\ spc[t] = "profilers"
                       /\ Configure(t, "project", [now EXCEPT !.profilers = enabled])
    BY <1>6 DEF ConfigProfilers
  <2>2. Names("project", a, [now EXCEPT !.profilers = enabled])
    BY <1>2, <1>3, <2>1 DEF Names
  <2> QED
    BY <1>1, <2>1, <2>2, ConfigureNames
<1>7. CASE ConfigProject(t) /\ ~ StartRaises(t)
  <2>1. PICK found : /\ found \in IF now.project # None THEN {None} ELSE Retrieved("project")
                     /\ FirstOf(<<now.project, found>>) # None
                     /\ Configure(t, "service",
                          [now EXCEPT !.project = FirstOf(<<now.project, found>>)])
    BY <1>7 DEF ConfigProject
  <2> DEFINE new == [now EXCEPT !.project = FirstOf(<<now.project, found>>)]
  <2>2. now.project = AuthProject(a)
    BY <1>3, <1>7 DEF ConfigProject, Names
  <2>3. new.project = IF now.project # None THEN now.project ELSE found
    BY <1>2, FirstOfTwo
  <2>4. new.project # None
    BY <1>2, <2>1
  <2>5. now.project = None => found = env.metadata.project
    BY <2>1, <2>3, <2>4 DEF Retrieved
  <2> HIDE DEF new
  <2>6. Names("service", a, new)
    BY <2>2, <2>3, <2>4, <2>5 DEF Names, AuthProject
  <2> QED
    BY <1>1, <2>1, <2>6, ConfigureNames DEF new
<1>8. CASE ConfigService(t) /\ ~ StartRaises(t)
  <2> DEFINE service == FirstOf(<<a.service, env.gae_service, env.k_service>>)
             version == FirstOf(<<a.version, env.gae_version, env.k_revision>>)
             new == [now EXCEPT !.target = service, !.version = version]
  <2>1. spc[t] = "service" /\ service \in ServiceNames /\ Configure(t, "zone", new)
    BY <1>8 DEF ConfigService
  <2>2. service = IF a.service # None THEN a.service
                  ELSE IF env.gae_service # None THEN env.gae_service ELSE env.k_service
    BY FirstOfThree
  <2>3. service # None
    BY <2>1, ConfigAssumption
  <2>4. version = IF a.version # None THEN a.version
                  ELSE IF env.gae_version # None THEN env.gae_version ELSE env.k_revision
    BY FirstOfThree
  <2>5. new.project = now.project /\ new.target = service /\ new.version = version
    BY <1>2
  <2> HIDE DEF new, service, version
  <2>6. Names("zone", a, new)
    BY <1>3, <2>1, <2>2, <2>3, <2>4, <2>5 DEF Names
  <2> QED
    BY <1>1, <2>1, <2>6, ConfigureNames
<1>9. CASE ConfigZone(t)
  <2>1. PICK zone : /\ spc[t] = "zone"
                    /\ Configure(t, "instance", [now EXCEPT !.zone = zone])
    BY <1>9 DEF ConfigZone
  <2>2. Names("instance", a, [now EXCEPT !.zone = zone])
    BY <1>2, <1>3, <2>1 DEF Names
  <2> QED
    BY <1>1, <2>1, <2>2, ConfigureNames
<1>10. CASE ConfigInstance(t)
  <2>1. PICK name : /\ spc[t] = "instance"
                    /\ Configure(t, "register", [now EXCEPT !.instance = name])
    BY <1>10 DEF ConfigInstance
  <2>2. Names("register", a, [now EXCEPT !.instance = name])
    BY <1>2, <1>3, <2>1 DEF Names
  <2> QED
    BY <1>1, <2>1, <2>2, ConfigureNames
<1> QED
  BY <1>4, <1>5, <1>6, <1>7, <1>8, <1>9, <1>10 DEF ConfigStep, SetupAuthFails

\* Then they stay; an interrupt that is taken for a failure of the metadata
\* server changes none of them.
LEMMA NextNames == StartInv /\ NamesInv /\ [Next]_agentVars => NamesInv'
<1> SUFFICES ASSUME StartInv, NamesInv, [Next]_agentVars PROVE NamesInv'
  OBVIOUS
<1> USE DEF Points, HasProfilers, HasProject, HasTarget
<1>1. ASSUME UNCHANGED <<env, spc, call, mine, config>> PROVE NamesInv'
  BY <1>1 DEF NamesInv, Names, AuthProject
<1>2. CASE UNCHANGED agentVars
  BY <1>1, <1>2 DEF agentVars, startVars, configVars
<1>3. ASSUME NEW c \in Clients, PollStep(c) PROVE NamesInv'
  BY <1>1, <1>3 DEF PollStep, startVars, configVars
<1>4. ASSUME NEW t \in Threads, NEW c \in Calls, StartCheck(t, c) PROVE NamesInv'
  <2>1. /\ UNCHANGED <<env, config>> /\ spc[t] = "out"
        /\ spc' = [spc EXCEPT ![t] = "auth"] /\ call' = [call EXCEPT ![t] = c]
        /\ mine' = [mine EXCEPT ![t] = clients']
    BY <1>4 DEF StartCheck
  <2> SUFFICES ASSUME NEW u \in Threads PROVE Names(spc[u], call[u], config[mine[u]])'
    BY DEF NamesInv
  <2>2. CASE u = t
    <3>1. spc'[u] = "auth"
      BY <2>1, <2>2 DEF StartInv, ShapeInv
    <3> QED
      BY <3>1 DEF Names
  <2>3. CASE u # t
    <3>1. spc'[u] = spc[u] /\ call'[u] = call[u] /\ mine'[u] = mine[u]
      BY <2>1, <2>3 DEF StartInv, ShapeInv
    <3>2. Names(spc[u], call[u], config[mine[u]])
      BY DEF NamesInv
    <3> QED
      BY <2>1, <3>1, <3>2 DEF Names, AuthProject
  <2> QED
    BY <2>2, <2>3
<1>5. ASSUME NEW t \in Threads, ConfigStep(t) PROVE NamesInv'
  BY <1>5, ConfigNames
<1>6. ASSUME NEW t \in Threads, spc[t] # "out", env' = env, NEW to \in Points,
             Configure(t, to, cfg(t)),
             to \in {"spawn", "mark"} => spc[t] \in {"register", "spawn"},
             to \in {"instance", "register"} => spc[t] \in {"zone", "instance"},
             to \in {"instance", "register", "spawn", "mark"}
      PROVE  NamesInv'
  <2>1. Names(spc[t], call[t], cfg(t))
    BY DEF NamesInv, cfg
  <2>2. Names(to, call[t], cfg(t))
    BY <1>6, <2>1 DEF Names
  <2> QED
    BY <1>6, <2>2, ConfigureNames
<1>7. ASSUME NEW t \in Threads, spc[t] # "out", env' = env,
             (StartLeaves(t) /\ config' = config) \/ StartRaises(t)
      PROVE  NamesInv'
  BY <1>7, LeavingNames
<1>8. ASSUME NEW t \in Threads, Register(t), env' = env PROVE NamesInv'
  BY <1>6, <1>7, <1>8 DEF Register
<1>9. ASSUME NEW t \in Threads, Spawn(t), env' = env PROVE NamesInv'
  BY <1>6, <1>7, <1>9 DEF Spawn
<1>10. ASSUME NEW t \in Threads, Mark(t), env' = env PROVE NamesInv'
  BY <1>7, <1>10 DEF Mark
<1>11. CASE Interrupt
  BY <1>6, <1>7, <1>11, ConfigAssumption DEF Interrupt, InterruptRetrieval, InterruptElsewhere
<1> QED
  BY <1>2, <1>3, <1>4, <1>5, <1>8, <1>9, <1>10, <1>11 DEF Next, StartStep

\* Where a client is, as far as it knows: what the metadata server says.
PlacedInv == \A c \in Clients : Placed(config[c])

LEMMA NextPlaced == StartInv /\ PlacedInv /\ [Next]_agentVars => PlacedInv'
<1> SUFFICES ASSUME StartInv, PlacedInv, [Next]_agentVars PROVE PlacedInv'
  OBVIOUS
<1>1. ASSUME UNCHANGED <<env, config>> PROVE PlacedInv'
  BY <1>1 DEF PlacedInv, Placed
<1>2. CASE UNCHANGED startVars
  BY <1>1, <1>2 DEF startVars, configVars
<1>3. ASSUME NEW t \in Threads, spc[t] # "out", env' = env, NEW attributes,
             config' = [config EXCEPT ![mine[t]] = attributes], Placed(attributes)
      PROVE  PlacedInv'
  <2>1. \A c \in Clients : config'[c] = IF c = mine[t] THEN attributes ELSE config[c]
    BY <1>3 DEF StartInv, ShapeInv
  <2>2. \A c \in Clients : Placed(config'[c])
    BY <1>3, <2>1 DEF PlacedInv
  <2> QED
    BY <1>3, <2>2 DEF PlacedInv, Placed
<1>4. ASSUME NEW t \in Threads, spc[t] # "out", env' = env,
             \/ StartRaises(t)
             \/ StartLeaves(t) /\ config' = config
             \/ \E to : Configure(t, to, cfg(t))
      PROVE  PlacedInv'
  <2>1. Placed(NoConfig)
    BY DEF Placed, NoConfig
  <2>2. Placed(cfg(t))
    BY <1>4, ConfigAssumption DEF PlacedInv, StartInv, OwnInv, ShapeInv, Clients, cfg
  <2> QED
    BY <1>1, <1>3, <1>4, <2>1, <2>2 DEF StartRaises, Configure
<1>5. ASSUME NEW t \in Threads, ConfigStep(t) PROVE PlacedInv'
  <2> DEFINE now == cfg(t)
  <2>1. spc[t] # "out" /\ env' = env
    BY <1>5 DEF ConfigStep, SetupAuth, SetupAuthFails, ConfigProfilers, ConfigProject,
                ConfigService, ConfigZone, ConfigInstance
  <2>2. Placed(now) /\ Named \subseteq DOMAIN now
    BY <2>1, ConfigAssumption DEF PlacedInv, StartInv, OwnInv, ShapeInv, Clients, cfg
  <2>3. CASE StartRaises(t)
    BY <1>4, <2>1, <2>3
  <2>4. ASSUME NEW to, NEW attributes, Configure(t, to, attributes), Placed(attributes)
        PROVE  PlacedInv'
    BY <1>3, <2>1, <2>4 DEF Configure
  <2>5. /\ \A v : Placed([now EXCEPT !.project = v]) /\ Placed([now EXCEPT !.profilers = v])
        /\ \A v, w : Placed([now EXCEPT !.target = v, !.version = w])
    <3> HIDE DEF now
    <3> QED
      BY <2>2 DEF Placed, Named
  <2>6. \A v \in {ZoneOf(env.metadata.zone), None} : Placed([now EXCEPT !.zone = v])
    <3> HIDE DEF now
    <3> QED
      BY <2>2 DEF Placed, Named
  <2>7. CASE SetupAuth(t)
    BY <2>4, <2>5, <2>7 DEF SetupAuth
  <2>8. CASE ConfigProfilers(t) /\ ~ StartRaises(t)
    BY <2>4, <2>5, <2>8 DEF ConfigProfilers
  <2>9. CASE ConfigProject(t) /\ ~ StartRaises(t)
    BY <2>4, <2>5, <2>9 DEF ConfigProject
  <2>10. CASE ConfigService(t) /\ ~ StartRaises(t)
    BY <2>4, <2>5, <2>10 DEF ConfigService
  <2>11. CASE ConfigZone(t)
    <3>1. PICK path \in Retrieved("zone") :
            Configure(t, "instance", [now EXCEPT !.zone = ZoneOf(path)])
      BY <2>11 DEF ConfigZone
    <3>2. path \in {env.metadata.zone, None} /\ ZoneOf(None) = None
      BY DEF Retrieved, ZoneOf
    <3> QED
      BY <2>4, <2>6, <3>1, <3>2
  <2>12. CASE ConfigInstance(t)
    <3>1. PICK name \in Retrieved("instance") :
            Configure(t, "register", [now EXCEPT !.instance = name])
      BY <2>12 DEF ConfigInstance
    <3>2. Placed([now EXCEPT !.instance = name])
      <4>1. name \in {env.metadata.instance, None}
        BY DEF Retrieved
      <4> HIDE DEF now
      <4> QED
        BY <2>2, <4>1 DEF Placed, Named
    <3> QED
      BY <2>4, <3>1, <3>2
  <2> QED
    BY <1>5, <2>3, <2>7, <2>8, <2>9, <2>10, <2>11, <2>12 DEF ConfigStep, SetupAuthFails
<1>6. ASSUME NEW t \in Threads, NEW a \in Calls, StartCheck(t, a) PROVE PlacedInv'
  BY <1>1, <1>6 DEF StartCheck
<1>7. ASSUME NEW t \in Threads, Register(t), env' = env PROVE PlacedInv'
  BY <1>4, <1>7 DEF Register
<1>8. ASSUME NEW t \in Threads, Spawn(t), env' = env PROVE PlacedInv'
  BY <1>4, <1>8 DEF Spawn
<1>9. ASSUME NEW t \in Threads, Mark(t), env' = env PROVE PlacedInv'
  BY <1>4, <1>9 DEF Mark
<1>10. CASE Interrupt
  BY <1>4, <1>10, ConfigAssumption DEF Interrupt, InterruptRetrieval, InterruptElsewhere
<1> QED
  BY <1>2, <1>5, <1>6, <1>7, <1>8, <1>9, <1>10 DEF Next, StartStep, PollStep, agentVars

(***************************************************************************)
(* A client that is about to be started has the project, the service, the  *)
(* version, the zone and the instance that the docstrings of config and    *)
(* start() promise (client.py:139-149, __init__.py:54-62), whatever the    *)
(* metadata server answers and wherever an interrupt is taken for a failure*)
(* of it (client.py:95-202).                                               *)
(***************************************************************************)
THEOREM NamedAsDocumented == Spec => []DeploymentAsDocumented
<1>1. Init => NamesInv
  BY DEF Init, ConfigInit, NamesInv, Names, HasProject, HasTarget, HasProfilers
<1>2. Init => PlacedInv
  <2>1. Placed(NoConfig)
    BY DEF Placed, NoConfig
  <2>2. Init => \A c \in Clients : config[c] = NoConfig
    BY DEF Init, ConfigInit
  <2> QED
    BY <2>1, <2>2, Zenon DEF PlacedInv
<1>3. ASSUME StartInv, NamesInv, PlacedInv PROVE DeploymentAsDocumented
  <2> SUFFICES ASSUME NEW t \in Starting
               PROVE  DeploymentAsDocumented!(t)
    BY DEF DeploymentAsDocumented
  <2>1. t \in Threads /\ spc[t] \in HasTarget /\ spc[t] # "out"
    BY DEF Starting, HasTarget, HasProject, HasProfilers, Points
  <2>2. Names(spc[t], call[t], cfg(t)) /\ cfg(t).profilers # {}
    BY <1>3, <2>1 DEF StartInv, ProgressInv, NamesInv, Enabled, cfg, HasTarget, HasProject
  <2>3. Placed(cfg(t))
    BY <1>3, <2>1, ConfigAssumption DEF StartInv, OwnInv, ShapeInv, PlacedInv, Clients, cfg
  <2> QED
    BY <2>1, <2>2, <2>3 DEF Names, HasTarget
<1> QED
  BY <1>1, <1>2, <1>3, NextNames, NextPlaced, StartAlways, PTL DEF Spec

-----------------------------------------------------------------------------
(* The envelopes of Backoff. *)

\* The powers of Multiplier, unfolded.
LEMMA Powers ==
  /\ Power[0] = 1
  /\ \A n \in Nat : Power[n] \in Nat \ {0} /\ Power[n + 1] = Power[n] * Multiplier
<1> DEFINE step == [v \in Nat \ {0} |-> v * Multiplier]
           body(f) == [n \in Nat |-> IF n = 0 THEN 1 ELSE f[n - 1] * Multiplier]
<1>1. Multiplier \in Nat \ {0}
  BY AgentAssumption
<1>2. step \in [Nat \ {0} -> Nat \ {0}]
  <2> SUFFICES ASSUME NEW v \in Nat \ {0} PROVE v * Multiplier \in Nat \ {0}
    OBVIOUS
  <2> QED
    BY <1>1
<1> HIDE DEF step
<1>3. PICK f \in [Nat -> Nat \ {0}] : f[0] = 1 /\ \A n \in Nat : f[n + 1] = step[f[n]]
  <2> DEFINE V == Nat \ {0}
             one == 1
  <2>1. one \in V /\ step \in [V -> V]
    BY <1>2
  <2> HIDE DEF V, one
  <2>2. \E f \in [Nat -> V] : f[0] = one /\ \A n \in Nat : f[n + 1] = step[f[n]]
    BY <2>1, PrimitiveRecursion
  <2> QED
    BY <2>2 DEF V, one
<1>4. \A n \in Nat : f[n + 1] = f[n] * Multiplier
  BY <1>3 DEF step
<1>5. f = body(f)
  <2>1. ASSUME NEW n \in Nat, n # 0 PROVE f[n] = f[n - 1] * Multiplier
    <3>1. n - 1 \in Nat /\ (n - 1) + 1 = n
      BY <2>1
    <3> QED
      BY <1>4, <3>1
  <2> QED
    BY <1>3, <2>1
<1>6. Power = CHOOSE g : g = body(g)
  BY DEF Power
<1>7. Power = body(Power)
  <2> HIDE DEF body
  <2> QED
    BY <1>5, <1>6
<1> DEFINE Good == {n \in Nat : Power[n] \in Nat \ {0}}
<1>8. Power[0] = 1 /\ \A n \in Nat : Power[n + 1] = Power[n] * Multiplier
  <2>1. body(Power)[0] = 1 /\ \A n \in Nat : body(Power)[n + 1] = Power[n] * Multiplier
    OBVIOUS
  <2> HIDE DEF body
  <2> QED
    BY <1>7, <2>1
<1>9. Nat \subseteq Good
  <2>1. 0 \in Good
    BY <1>8
  <2>2. ASSUME NEW n \in Nat, n \in Good PROVE n + 1 \in Good
    <3>1. Power[n] * Multiplier \in Nat \ {0}
      BY <1>1, <2>2
    <3> QED
      BY <1>8, <3>1
  <2> HIDE DEF Good
  <2> QED
    BY <2>1, <2>2, NatSetInduction
<1> QED
  BY <1>8, <1>9

LEMMA MinOfTwo ==
  ASSUME NEW a \in Int, NEW b \in Int
  PROVE  Min({a, b}) = IF a <= b THEN a ELSE b
BY DEF Min

\* The envelope after n failures in a row.
EnvelopeAfter(n) == Min({MaxEnvelope, MinEnvelope * Power[n]})

LEMMA EnvelopeBounds ==
  /\ EnvelopeAfter(0) = MinEnvelope
  /\ \A n \in Nat : EnvelopeAfter(n) \in MinEnvelope .. MaxEnvelope
<1>1. /\ MinEnvelope \in Nat /\ MaxEnvelope \in Nat /\ MinEnvelope <= MaxEnvelope
  BY AgentAssumption
<1>2. ASSUME NEW n \in Nat
      PROVE  MinEnvelope * Power[n] \in Nat /\ MinEnvelope <= MinEnvelope * Power[n]
  <2>1. Power[n] \in Nat \ {0}
    BY Powers
  <2> QED
    BY <1>1, <2>1
<1>3. MinEnvelope * Power[0] = MinEnvelope
  BY <1>1, Powers
<1> QED
  BY <1>1, <1>2, <1>3, MinOfTwo DEF EnvelopeAfter

\* One more failure, also where the history stops counting them.
LEMMA GrowFollows ==
  ASSUME NEW n \in 0 .. MaxFailures
  PROVE  /\ OneMore(n) \in 0 .. MaxFailures
         /\ Grow(EnvelopeAfter(n)) = EnvelopeAfter(OneMore(n))
<1> DEFINE p == Power[n]
           b == MinEnvelope * p
<1>1. /\ MinEnvelope \in Nat /\ MaxEnvelope \in Nat /\ MinEnvelope <= MaxEnvelope
      /\ Multiplier \in Nat \ {0} /\ MaxFailures \in Nat /\ n \in Nat
      /\ MaxEnvelope <= MinEnvelope * Power[MaxFailures]
  BY AgentAssumption
<1>2. p \in Nat \ {0} /\ Power[n + 1] = p * Multiplier
  BY <1>1, Powers
<1> HIDE DEF p
<1>3. b \in Nat /\ MinEnvelope * Power[n + 1] = b * Multiplier
  BY <1>1, <1>2
<1>4. EnvelopeAfter(n) = IF MaxEnvelope <= b THEN MaxEnvelope ELSE b
  BY <1>1, <1>3, MinOfTwo DEF EnvelopeAfter, p
<1> HIDE DEF b
<1>5. \A e \in Nat : e * Multiplier \in Nat /\ e <= e * Multiplier
  BY <1>1
<1>6. Grow(EnvelopeAfter(n)) = IF MaxEnvelope <= b * Multiplier THEN MaxEnvelope ELSE b * Multiplier
  <2>1. EnvelopeAfter(n) \in Nat
    BY <1>1, <1>3, <1>4
  <2>2. \A e \in Nat : Grow(e) = IF MaxEnvelope <= e * Multiplier THEN MaxEnvelope
                                                                   ELSE e * Multiplier
    BY <1>1, <1>5, MinOfTwo DEF Grow
  <2>3. MaxEnvelope <= MaxEnvelope * Multiplier /\ b <= b * Multiplier
    BY <1>1, <1>3, <1>5
  <2>4. b * Multiplier \in Nat /\ MaxEnvelope * Multiplier \in Nat
    BY <1>1, <1>3, <1>5
  <2>5. CASE MaxEnvelope <= b
    BY <1>1, <1>3, <1>4, <2>2, <2>3, <2>4, <2>5
  <2>6. CASE ~ (MaxEnvelope <= b)
    BY <1>3, <1>4, <2>2, <2>6
  <2> QED
    BY <2>5, <2>6
<1>7. CASE n < MaxFailures
  <2>1. OneMore(n) = n + 1
    BY <1>1, <1>7, MinOfTwo DEF OneMore
  <2>2. EnvelopeAfter(n + 1) = IF MaxEnvelope <= b * Multiplier THEN MaxEnvelope
                                                                ELSE b * Multiplier
    BY <1>1, <1>3, <1>5, MinOfTwo DEF EnvelopeAfter
  <2> QED
    BY <1>1, <1>6, <1>7, <2>1, <2>2
<1>8. CASE n = MaxFailures
  <2>1. OneMore(n) = n
    BY <1>1, <1>8, MinOfTwo DEF OneMore
  <2>2. MaxEnvelope <= b
    BY <1>1, <1>8 DEF b, p
  <2>3. b * Multiplier \in Nat /\ b <= b * Multiplier
    BY <1>3, <1>5
  <2>4. EnvelopeAfter(n) = MaxEnvelope
    BY <1>4, <2>2
  <2>5. Grow(EnvelopeAfter(n)) = MaxEnvelope
    BY <1>1, <1>3, <1>6, <2>2, <2>3
  <2> QED
    BY <1>8, <2>1, <2>4, <2>5
<1> QED
  BY <1>1, <1>7, <1>8

\* What the polling threads keep, and what it has to do with their failures.
Building == {"none", "build", "build_sleep"}

PollTypeInv ==
  /\ profile \in [Clients -> Responses \cup {None}]
  /\ wait \in [Clients -> Int]
  /\ building \in [Clients -> MinEnvelope .. MaxEnvelope]
  /\ envelope \in [Clients -> MinEnvelope .. MaxEnvelope]
  /\ failures \in [Clients -> 0 .. MaxFailures]

\* An envelope and a number of failures, at a point of the loop.
Tracks(at, b, e, n) ==
  /\ at \in Building => e = MinEnvelope /\ b = EnvelopeAfter(n)
  /\ at \notin Building => e = EnvelopeAfter(n)

BackoffInv == \A c \in Clients : Tracks(ppc[c], building[c], envelope[c], failures[c])

\* The delays of a Backoff are numbers.
LEMMA Delays ==
  /\ \A e \in Int : \A d \in NextBackoff(NoError, e) : d \in Int
  /\ \A error \in Errors : \A e \in Int : \A d \in NextBackoff(error, e) : d \in Int
<1>1. \A d \in PipeDelays : d \in Int
  BY AgentAssumption
<1>2. \A e \in Int : NextBackoff(NoError, e) = 0 .. e
  BY DEF NextBackoff, NoError
<1> QED
  BY <1>1, <1>2, AgentAssumption DEF NextBackoff

\* A polling thread changes what is its own.
LEMMA PollTypes ==
  ASSUME StartInv, PollTypeInv, NEW c \in Clients, PollStep(c)
  PROVE  /\ PollTypeInv'
         /\ \A d \in Clients \ {c} :
              /\ ppc'[d] = ppc[d] /\ building'[d] = building[d]
              /\ envelope'[d] = envelope[d] /\ failures'[d] = failures[d]
<1>1. /\ MinEnvelope \in Nat /\ MaxEnvelope \in Nat /\ MaxFailures \in Nat
      /\ Multiplier \in Nat \ {0} /\ MinEnvelope <= MaxEnvelope
      /\ NewBackoff \in MinEnvelope .. MaxEnvelope
  BY AgentAssumption DEF NewBackoff
<1>2. \A n \in 0 .. MaxFailures : OneMore(n) \in 0 .. MaxFailures
  BY GrowFollows
<1>3. ASSUME NEW e \in MinEnvelope .. MaxEnvelope PROVE Grow(e) \in MinEnvelope .. MaxEnvelope
  <2>1. e * Multiplier \in Nat /\ e <= e * Multiplier
    BY <1>1
  <2> QED
    BY <1>1, <2>1, MinOfTwo DEF Grow
<1>4. 0 \in 0 .. MaxFailures /\ 0 \in Int /\ MinEnvelope .. MaxEnvelope \subseteq Int
  BY <1>1
<1>5. \A to : ppc' = [ppc EXCEPT ![c] = to] => \A d \in Clients \ {c} : ppc'[d] = ppc[d]
  BY DEF StartInv, ShapeInv
<1> USE DEF PollTypeInv, PollGoto
<1>6. CASE BuildService(c)
  BY <1>4, <1>5, <1>6 DEF BuildService
<1>7. CASE BuildFailed(c)
  BY <1>2, <1>3, <1>4, <1>5, <1>7, Delays DEF BuildFailed
<1>8. CASE BuildSlept(c)
  BY <1>4, <1>5, <1>8 DEF BuildSlept
<1>9. ASSUME NEW p \in Responses, Created(c, p)
      PROVE  /\ PollTypeInv'
             /\ \A d \in Clients \ {c} :
                  /\ ppc'[d] = ppc[d] /\ building'[d] = building[d]
                  /\ envelope'[d] = envelope[d] /\ failures'[d] = failures[d]
  BY <1>1, <1>4, <1>5, <1>9 DEF Created
<1>10. ASSUME NEW p \in Responses, CreatedUntyped(c, p)
       PROVE  /\ PollTypeInv'
              /\ \A d \in Clients \ {c} :
                   /\ ppc'[d] = ppc[d] /\ building'[d] = building[d]
                   /\ envelope'[d] = envelope[d] /\ failures'[d] = failures[d]
  BY <1>1, <1>2, <1>3, <1>4, <1>5, <1>10, Delays DEF CreatedUntyped
<1>11. ASSUME NEW error \in Errors, CreateFailed(c, error)
       PROVE  /\ PollTypeInv'
              /\ \A d \in Clients \ {c} :
                   /\ ppc'[d] = ppc[d] /\ building'[d] = building[d]
                   /\ envelope'[d] = envelope[d] /\ failures'[d] = failures[d]
  BY <1>2, <1>3, <1>4, <1>5, <1>11, Delays DEF CreateFailed
<1>12. CASE Sleep(c)
  BY <1>4, <1>5, <1>12 DEF Sleep
<1>13. CASE Collect(c)
  BY <1>5, <1>13 DEF Collect, NextProfile
<1>14. CASE Profile(c) \/ Upload(c)
  BY <1>5, <1>14 DEF Profile, Upload, NextProfile
<1> QED
  BY <1>6, <1>7, <1>8, <1>9, <1>10, <1>11, <1>12, <1>13, <1>14 DEF PollStep

\* The envelope it uses goes with its failures.
LEMMA PollTracks ==
  ASSUME StartInv, PollTypeInv, BackoffInv, NEW c \in Clients, PollStep(c)
  PROVE  Tracks(ppc'[c], building'[c], envelope'[c], failures'[c])
<1>1. /\ NewBackoff = EnvelopeAfter(0) /\ NewBackoff = MinEnvelope /\ 0 \in 0 .. MaxFailures
  BY EnvelopeBounds, AgentAssumption DEF NewBackoff
<1>2. failures[c] \in 0 .. MaxFailures
  BY DEF PollTypeInv
<1>3. \A n \in 0 .. MaxFailures : Grow(EnvelopeAfter(n)) = EnvelopeAfter(OneMore(n))
  BY GrowFollows
<1>4. Tracks(ppc[c], building[c], envelope[c], failures[c])
  BY DEF BackoffInv
<1>5. ppc \in [Clients -> PollPoints]
  BY DEF StartInv, ShapeInv
<1> USE DEF PollTypeInv, PollGoto, Tracks, Building
<1>6. CASE BuildService(c)
  BY <1>1, <1>4, <1>5, <1>6 DEF BuildService
<1>7. CASE BuildFailed(c)
  BY <1>2, <1>3, <1>4, <1>5, <1>7 DEF BuildFailed
<1>8. CASE BuildSlept(c)
  BY <1>4, <1>5, <1>8 DEF BuildSlept
<1>9. ASSUME NEW p \in Responses, Created(c, p)
      PROVE  Tracks(ppc'[c], building'[c], envelope'[c], failures'[c])
  BY <1>1, <1>5, <1>9 DEF Created
<1>10. ASSUME NEW p \in Responses, CreatedUntyped(c, p)
       PROVE  Tracks(ppc'[c], building'[c], envelope'[c], failures'[c])
  BY <1>1, <1>3, <1>5, <1>10 DEF CreatedUntyped
<1>11. ASSUME NEW error \in Errors, CreateFailed(c, error)
       PROVE  Tracks(ppc'[c], building'[c], envelope'[c], failures'[c])
  BY <1>2, <1>3, <1>4, <1>5, <1>11 DEF CreateFailed
<1>12. CASE Sleep(c)
  BY <1>4, <1>5, <1>12 DEF Sleep
<1>13. CASE Collect(c)
  BY <1>4, <1>5, <1>13 DEF Collect, NextProfile
<1>14. CASE Profile(c) \/ Upload(c)
  BY <1>4, <1>5, <1>14 DEF Profile, Upload, NextProfile
<1> QED
  BY <1>6, <1>7, <1>8, <1>9, <1>10, <1>11, <1>12, <1>13, <1>14 DEF PollStep

\* The rest leaves the polling threads alone, or makes one that has not failed.
LEMMA NextBackoffInv ==
  StartInv /\ FreshInv /\ PollTypeInv /\ BackoffInv /\ [Next]_agentVars
    => PollTypeInv' /\ BackoffInv'
<1> SUFFICES ASSUME StartInv, FreshInv, PollTypeInv, BackoffInv, [Next]_agentVars
             PROVE  PollTypeInv' /\ BackoffInv'
  OBVIOUS
<1>1. CASE UNCHANGED pollVars
  BY <1>1 DEF pollVars, PollTypeInv, BackoffInv
<1>2. ASSUME NEW c \in Clients, PollStep(c) PROVE PollTypeInv' /\ BackoffInv'
  BY <1>2, PollTypes, PollTracks DEF BackoffInv
<1>3. ASSUME NEW t \in Threads, Spawn(t) PROVE PollTypeInv' /\ BackoffInv'
  <2>1. UNCHANGED <<profile, wait, building, envelope, failures>>
    BY <1>3 DEF Spawn
  <2>2. mine[t] \in Clients /\ ppc[mine[t]] = "none"
    BY <1>3, ConfigAssumption DEF Spawn, FreshInv, StartInv, OwnInv, ShapeInv, Clients
  <2>3. ppc' = ppc \/ ppc' = [ppc EXCEPT ![mine[t]] = "build"]
    BY <1>3 DEF Spawn
  <2>4. \A c \in Clients : ppc'[c] \in Building <=> ppc[c] \in Building
    BY <2>2, <2>3 DEF Building, StartInv, ShapeInv
  <2> QED
    BY <2>1, <2>4 DEF PollTypeInv, BackoffInv, Tracks
<1> QED
  BY <1>1, <1>2, <1>3 DEF Next, StartStep, agentVars

LEMMA BackoffAlways == Spec => [](StartInv /\ FreshInv /\ PollTypeInv /\ BackoffInv)
<1>1. Init => PollTypeInv /\ BackoffInv
  BY EnvelopeBounds, AgentAssumption
     DEF Init, ConfigInit, PollTypeInv, BackoffInv, Tracks, Building, NewBackoff
<1> QED
  BY <1>1, FreshAlways, NextBackoffInv, PTL DEF Spec

(***************************************************************************)
(* The envelope of the Backoff in use is the minimum, multiplied once for  *)
(* every failure in a row, up to the maximum (backoff.py:33-35), for all   *)
(* numbers of Backoff and whatever broken pipes, server-specified delays   *)
(* and profiles come in between (client.py:303-351).                       *)
(***************************************************************************)
THEOREM EnvelopeFollowsFailures == Spec => []EnvelopeTracksFailures
<1>1. BackoffInv => EnvelopeTracksFailures
  BY DEF BackoffInv, Tracks, Building, EnvelopeTracksFailures, EnvelopeAfter
<1> QED
  BY <1>1, BackoffAlways, PTL

-----------------------------------------------------------------------------
(* Type correctness. *)

\* What a client is configured with.
Attributes(a) == DOMAIN a = DOMAIN NoConfig /\ a.profilers \subseteq {"CPU", "WALL"}

RestInv ==
  /\ env \in Environments /\ started \in BOOLEAN
  /\ interrupt \in {"none", "sent", "raised"} /\ abandoned \subseteq Clients
  /\ handler \in 0 .. MaxClients
  /\ \A c \in Clients : Attributes(config[c])

LEMMA ConfigureAttributes ==
  ASSUME StartInv, RestInv, NEW t \in Threads, spc[t] # "out",
         \/ \E to, attributes : Configure(t, to, attributes) /\ Attributes(attributes)
         \/ StartLeaves(t) /\ config' = config
         \/ StartRaises(t)
  PROVE  \A c \in Clients : Attributes(config'[c])
<1>1. mine[t] \in Clients
  BY ConfigAssumption DEF StartInv, OwnInv, ShapeInv, Clients
<1>2. Attributes(NoConfig)
  BY DEF Attributes, NoConfig
<1>3. \A a : config' = [config EXCEPT ![mine[t]] = a] =>
        config'[mine[t]] = a /\ \A c \in Clients \ {mine[t]} : config'[c] = config[c]
  BY <1>1 DEF StartInv, ShapeInv
<1>4. config' = config \/ \E a : config' = [config EXCEPT ![mine[t]] = a] /\ Attributes(a)
  BY <1>2 DEF Configure, StartRaises
<1> QED
  BY <1>3, <1>4 DEF RestInv

\* The steps of setup_auth and config set one attribute or two.
LEMMA ConfigAttributes ==
  ASSUME StartInv, RestInv, NEW t \in Threads, ConfigStep(t)
  PROVE  \A c \in Clients : Attributes(config'[c])
<1> DEFINE now == cfg(t)
<1>1. spc[t] # "out"
  BY DEF ConfigStep, SetupAuth, SetupAuthFails, ConfigProfilers, ConfigProject, ConfigService,
         ConfigZone, ConfigInstance
<1>2. Attributes(now)
  BY <1>1, ConfigAssumption DEF RestInv, StartInv, OwnInv, ShapeInv, Clients, cfg
<1>3. /\ \A v : Attributes([now EXCEPT !.project = v]) /\ Attributes([now EXCEPT !.zone = v])
      /\ \A v : Attributes([now EXCEPT !.instance = v])
      /\ \A v, w : Attributes([now EXCEPT !.target = v, !.version = w])
      /\ \A v \in SUBSET {"CPU", "WALL"} : Attributes([now EXCEPT !.profilers = v])
  <2> HIDE DEF now
  <2> QED
    BY <1>2 DEF Attributes, NoConfig
<1>4. EnabledProfilers(call[t]) \in SUBSET {"CPU", "WALL"}
  BY DEF EnabledProfilers
<1>5. \/ StartRaises(t)
      \/ \E to, attributes : Configure(t, to, attributes) /\ Attributes(attributes)
  <2> HIDE DEF now
  <2>1. CASE SetupAuth(t)
    BY <1>3, <2>1 DEF SetupAuth, now
  <2>2. CASE ConfigProfilers(t)
    BY <1>3, <1>4, <2>2 DEF ConfigProfilers, now
  <2>3. CASE ConfigProject(t)
    BY <1>3, <2>3 DEF ConfigProject, now
  <2>4. CASE ConfigService(t)
    BY <1>3, <2>4 DEF ConfigService, now
  <2>5. CASE ConfigZone(t)
    BY <1>3, <2>5 DEF ConfigZone, now
  <2>6. CASE ConfigInstance(t)
    BY <1>3, <2>6 DEF ConfigInstance, now
  <2> QED
    BY <2>1, <2>2, <2>3, <2>4, <2>5, <2>6 DEF ConfigStep, SetupAuthFails
<1> QED
  BY <1>1, <1>5, ConfigureAttributes

LEMMA NextRest == StartInv /\ RestInv /\ [Next]_agentVars => RestInv'
<1> SUFFICES ASSUME StartInv, RestInv, [Next]_agentVars PROVE RestInv'
  OBVIOUS
<1>1. CASE UNCHANGED startVars
  BY <1>1 DEF startVars, configVars, RestInv
<1>2. ASSUME NEW t \in Threads, NEW a \in Calls, StartCheck(t, a), handler' = handler
      PROVE  RestInv'
  BY <1>2 DEF StartCheck, RestInv
<1>3. ASSUME NEW t \in Threads, ConfigStep(t), handler' = handler PROVE RestInv'
  <2>1. \A c \in Clients : Attributes(config'[c])
    BY <1>3, ConfigAttributes
  <2> QED
    BY <1>3, <2>1 DEF ConfigStep, RestInv
<1>4. ASSUME NEW t \in Threads, spc[t] # "out",
             \/ \E to : Configure(t, to, cfg(t))
             \/ StartLeaves(t) /\ config' = config
             \/ StartRaises(t)
      PROVE  \A c \in Clients : Attributes(config'[c])
  <2>1. Attributes(cfg(t))
    BY <1>4, ConfigAssumption DEF RestInv, StartInv, OwnInv, ShapeInv, Clients, cfg
  <2>2. (\E to : Configure(t, to, cfg(t))) =>
          \E to, attributes : Configure(t, to, attributes) /\ Attributes(attributes)
    BY <2>1
  <2> QED
    BY <1>4, <2>2, ConfigureAttributes
<1>5. ASSUME NEW t \in Threads, Register(t), UNCHANGED <<env, started, interrupt, abandoned>>
      PROVE  RestInv'
  <2>1. mine[t] \in 0 .. MaxClients
    BY DEF StartInv, ShapeInv
  <2>2. \A c \in Clients : Attributes(config'[c])
    BY <1>4, <1>5 DEF Register
  <2> QED
    BY <1>5, <2>1, <2>2 DEF Register, RestInv
<1>6. ASSUME NEW t \in Threads, Spawn(t), UNCHANGED <<env, interrupt, abandoned>>
      PROVE  RestInv'
  <2>1. \A c \in Clients : Attributes(config'[c])
    BY <1>4, <1>6 DEF Spawn
  <2> QED
    BY <1>6, <2>1 DEF Spawn, RestInv
<1>7. ASSUME NEW t \in Threads, Mark(t), UNCHANGED <<env, interrupt, abandoned, handler>>
      PROVE  RestInv'
  BY <1>7 DEF Mark, RestInv
<1>8. CASE Interrupt /\ handler' = handler
  <2>1. MainThread \in Threads /\ spc[MainThread] # "out"
    BY <1>8, ConfigAssumption DEF Interrupt, InterruptRetrieval, InterruptElsewhere
  <2>2. \/ \E to : Configure(MainThread, to, cfg(MainThread))
        \/ StartLeaves(MainThread) /\ config' = config
        \/ StartRaises(MainThread)
    BY <1>8 DEF Interrupt, InterruptRetrieval, InterruptElsewhere
  <2>3. \A c \in Clients : Attributes(config'[c])
    BY <1>4, <2>1, <2>2
  <2>4. interrupt' \in {"sent", "raised"} /\ UNCHANGED <<env, started>>
    BY <1>8 DEF Interrupt, InterruptRetrieval, InterruptElsewhere
  <2>5. mine[MainThread] \in Clients
    BY <2>1, ConfigAssumption DEF StartInv, OwnInv, ShapeInv, Clients
  <2>6. abandoned' \subseteq abandoned \cup {mine[MainThread]}
    BY <1>8 DEF Interrupt, InterruptRetrieval, InterruptElsewhere
  <2> QED
    BY <1>8, <2>3, <2>4, <2>5, <2>6 DEF RestInv
<1> QED
  BY <1>1, <1>2, <1>3, <1>5, <1>6, <1>7, <1>8
     DEF Next, StartStep, PollStep, agentVars

(***************************************************************************)
(* The state of start() and of the polling threads keeps its type: client  *)
(* numbers, delays and envelopes stay in their ranges, and a client is     *)
(* only ever configured with profilers that there are (client.py:209-246,  *)
(* 303-335, backoff.py:57-90).                                             *)
(***************************************************************************)
THEOREM AgentTypeCorrect == Spec => []AgentTypeOK
<1>1. Init => RestInv
  <2> SUFFICES ASSUME Init PROVE RestInv
    OBVIOUS
  <2>1. Attributes(NoConfig)
    BY DEF Attributes, NoConfig
  <2>2. \A c \in Clients : config[c] = NoConfig
    BY DEF Init, ConfigInit
  <2>3. /\ started = FALSE /\ env \in Environments /\ handler = 0
        /\ interrupt = "none" /\ abandoned = {}
    BY DEF Init, ConfigInit
  <2>4. \A c \in Clients : Attributes(config[c])
    BY <2>1, <2>2, Zenon
  <2>5. env \in Environments /\ started \in BOOLEAN
    BY <2>3, Zenon
  <2>6. /\ handler \in 0 .. MaxClients /\ interrupt \in {"none", "sent", "raised"}
        /\ abandoned \subseteq Clients
    BY <2>3, ConfigAssumption
  <2> QED
    BY <2>4, <2>5, <2>6, Zenon DEF RestInv
<1>2. StartInv /\ RestInv /\ PollTypeInv => AgentTypeOK
  BY DEF StartInv, ShapeInv, RestInv, Attributes, PollTypeInv, AgentTypeOK, ConfigTypeOK,
         Points, PollPoints
<1> QED
  BY <1>1, <1>2, NextRest, StartAlways, BackoffAlways, PTL DEF Spec
=============================================================================
