---------------------------- MODULE ClientConfig ----------------------------
(***************************************************************************)
(* googlecloudprofiler.start() up to the point where its Client is         *)
(* configured: the arguments, the credentials, the environment variables   *)
(* and the metadata server decide what the agent calls itself and which    *)
(* profilers it has (__init__.py, Client.setup_auth, Client.config).       *)
(*                                                                         *)
(* A step is a wait (for the network or a file) with the code up to the    *)
(* next.  An interrupt (Ctrl+C) raises KeyboardInterrupt in the main       *)
(* thread, wherever it is.                                                 *)
(***************************************************************************)
EXTENDS Integers, FiniteSets, Sequences

LOCAL INSTANCE SequencesExt

CONSTANTS
  Threads,       \* threads of the application that call start()
  MainThread,    \* the one that handles signals
  Calls,         \* arguments of start(): [project_id, file, service, version,
                 \* disable_cpu, disable_wall]
  Environments,  \* [platform, file, default, gae_service, k_service, gae_version,
                 \* k_revision, metadata], where file and default are the projects of
                 \* the credentials, and metadata has [project, zone, instance]
  ServiceNames,  \* the names that match service_re
  None,
  Interruptible, \* may the user interrupt start()?
  MaxClients     \* bound: start() calls that make a Client

Clients == 1 .. MaxClients

ASSUME ConfigAssumption ==
  /\ IsFiniteSet(Threads) /\ MainThread \in Threads
  /\ MaxClients \in Nat
  /\ None \notin ServiceNames
  /\ Interruptible \in BOOLEAN
  /\ \A a \in Calls : a.disable_cpu \in BOOLEAN /\ a.disable_wall \in BOOLEAN

VARIABLES
  env,        \* the environment of the process
  started,    \* googlecloudprofiler._started
  spc,        \* where each application thread is in start()
  call,       \* its arguments
  mine,       \* its profiler_client
  clients,    \* clients made
  config,     \* what each client has been configured with so far
  interrupt,  \* the last one of start(): "none", "sent" to it, or "raised" by it
  abandoned   \* history: clients whose start() was interrupted with their polling
              \* thread already running

configVars == <<env, started, spc, call, mine, clients, config, interrupt, abandoned>>

\* A client that setup_auth and config have not reached.
NoConfig == [profilers |-> {}, project |-> None, target |-> None, version |-> None,
             zone |-> None, instance |-> None]

\* Python's "or" over values that are None or strings that are not empty.
FirstOf(values) ==
  LET set == {i \in DOMAIN values : values[i] # None}
  IN  IF set = {} THEN None
      ELSE values[CHOOSE i \in set : \A j \in set : i <= j]

ConfigInit ==
  /\ env \in Environments
  /\ started = FALSE
  /\ spc = [t \in Threads |-> "out"] /\ call = [t \in Threads |-> None]
  /\ mine = [t \in Threads |-> 0] /\ clients = 0
  /\ config = [c \in Clients |-> NoConfig]
  /\ interrupt = "none" /\ abandoned = {}

-----------------------------------------------------------------------------
\* start()

\* start() is left, and its locals with it.
StartLeaves(t) ==
  /\ spc' = [spc EXCEPT ![t] = "out"]
  /\ call' = [call EXCEPT ![t] = None]
  /\ mine' = [mine EXCEPT ![t] = 0]

\* It is left by an exception: the client that was not started is dropped.
StartRaises(t) ==
  /\ StartLeaves(t)
  /\ config' = [config EXCEPT ![mine[t]] = NoConfig]

\* start() goes on with these attributes of the client.
Configure(t, to, attributes) ==
  /\ spc' = [spc EXCEPT ![t] = to]
  /\ config' = [config EXCEPT ![mine[t]] = attributes]
  /\ UNCHANGED <<call, mine>>

cfg(t) == config[mine[t]]

Supported == {"linux", "darwin"}

\* if _started: return.  An unsupported platform raises.  Otherwise a Client is
\* made.
StartCheck(t, a) ==
  /\ ~ started
  /\ env.platform \in Supported
  /\ clients < MaxClients
  /\ spc[t] = "out"
  /\ spc' = [spc EXCEPT ![t] = "auth"]
  /\ call' = [call EXCEPT ![t] = a]
  /\ clients' = clients + 1
  /\ mine' = [mine EXCEPT ![t] = clients']
  /\ UNCHANGED <<env, started, config, interrupt, abandoned>>

\* setup_auth: the credentials are those of the file if there is one.
SetupAuth(t) ==
  /\ spc[t] = "auth"
  /\ LET found == IF call[t].file # None THEN env.file ELSE env.default
         project == FirstOf(<<call[t].project_id, found>>)
     IN  Configure(t, "profilers", [cfg(t) EXCEPT !.project = project])

\* It fails: no credentials, or a file that can not be read.
SetupAuthFails(t) == spc[t] = "auth" /\ StartRaises(t)

\* _config_cpu_profiling and _config_wall_profiling
EnabledProfilers(a) ==
  (IF env.platform = "linux" /\ ~ a.disable_cpu THEN {"CPU"} ELSE {})
    \cup (IF a.disable_wall THEN {} ELSE {"WALL"})

\* config starts: "No profiling mode is enabled."
ConfigProfilers(t) ==
  /\ spc[t] = "profilers"
  /\ LET enabled == EnabledProfilers(call[t])
     IN  IF enabled = {} THEN StartRaises(t)
         ELSE Configure(t, "project", [cfg(t) EXCEPT !.profilers = enabled])

\* retrieve_gce_metadata: the value, or None after any failure.
Retrieved(key) == {env.metadata[key], None}

\* The project ID, or "Unable to determine the project ID".
ConfigProject(t) ==
  /\ spc[t] = "project"
  /\ \E found \in IF cfg(t).project # None THEN {None} ELSE Retrieved("project") :
       LET project == FirstOf(<<cfg(t).project, found>>)
       IN  IF project = None THEN StartRaises(t)
           ELSE Configure(t, "service", [cfg(t) EXCEPT !.project = project])

\* Mutated form: K_REVISION comes before GAE_VERSION.
ConfigRevisionFirst(t) ==
  /\ spc[t] = "service"
  /\ LET service == FirstOf(<<call[t].service, env.gae_service, env.k_service>>)
         version == FirstOf(<<call[t].version, env.k_revision, env.gae_version>>)
     IN  IF service \notin ServiceNames THEN StartRaises(t)
         ELSE Configure(t, "zone", [cfg(t) EXCEPT !.target = service, !.version = version])

\* The service, which must be there and match service_re, and its version.
ConfigService(t) ==
  /\ spc[t] = "service"
  /\ LET service == FirstOf(<<call[t].service, env.gae_service, env.k_service>>)
         version == FirstOf(<<call[t].version, env.gae_version, env.k_revision>>)
     IN  IF service \notin ServiceNames THEN StartRaises(t)
         ELSE Configure(t, "zone", [cfg(t) EXCEPT !.target = service, !.version = version])

\* The metadata server names a zone by its path.
ZoneOf(path) == IF path = None THEN None ELSE Last(path)

ConfigZone(t) ==
  /\ spc[t] = "zone"
  /\ \E path \in Retrieved("zone") :
       Configure(t, "instance", [cfg(t) EXCEPT !.zone = ZoneOf(path)])

ConfigInstance(t) ==
  /\ spc[t] = "instance"
  /\ \E name \in Retrieved("instance") :
       Configure(t, "register", [cfg(t) EXCEPT !.instance = name])

ConfigStep(t) ==
  /\ \/ SetupAuth(t) \/ SetupAuthFails(t) \/ ConfigProfilers(t) \/ ConfigProject(t)
     \/ ConfigService(t) \/ ConfigZone(t) \/ ConfigInstance(t)
  /\ UNCHANGED <<env, started, clients, interrupt, abandoned>>

-----------------------------------------------------------------------------
\* The user interrupts start() in the main thread.

\* Is the thread waiting for the metadata server?
Retrieving(t) ==
  spc[t] \in {"zone", "instance"} \/ (spc[t] = "project" /\ cfg(t).project = None)

\* In retrieve_gce_metadata the except clause takes the KeyboardInterrupt for a
\* failure of the request: the value is None.
InterruptRetrieval(t) ==
  /\ \/ spc[t] = "project" /\ StartRaises(t)
     \/ spc[t] = "zone" /\ Configure(t, "instance", cfg(t))
     \/ spc[t] = "instance" /\ Configure(t, "register", cfg(t))
  /\ Retrieving(t)
  /\ interrupt' = "sent"
  /\ UNCHANGED abandoned

\* Elsewhere it leaves start().  After Client.start the polling thread goes on, and
\* _started is not set.
InterruptElsewhere(t) ==
  /\ spc[t] # "out" /\ ~ Retrieving(t)
  /\ \/ /\ spc[t] = "mark"
        /\ StartLeaves(t)
        /\ abandoned' = abandoned \cup {mine[t]}
        /\ UNCHANGED config
     \/ spc[t] # "mark" /\ StartRaises(t) /\ UNCHANGED abandoned
  /\ interrupt' = "raised"

Interrupt ==
  /\ Interruptible
  /\ InterruptRetrieval(MainThread) \/ InterruptElsewhere(MainThread)
  /\ UNCHANGED <<env, started, clients>>

-----------------------------------------------------------------------------
ConfigTypeOK ==
  /\ env \in Environments /\ started \in BOOLEAN
  /\ spc \in [Threads -> {"out", "auth", "profilers", "project", "service", "zone",
                          "instance", "register", "spawn", "mark"}]
  /\ call \in [Threads -> Calls \cup {None}]
  /\ mine \in [Threads -> 0 .. MaxClients] /\ clients \in 0 .. MaxClients
  /\ \A c \in Clients :
       /\ DOMAIN config[c] = DOMAIN NoConfig
       /\ config[c].profilers \subseteq {"CPU", "WALL"}
  /\ interrupt \in {"none", "sent", "raised"} /\ abandoned \subseteq Clients

\* The calls of start() whose client is about to be started.
Starting == {t \in Threads : spc[t] \in {"register", "spawn", "mark"}}

\* The zone and the instance are those of the metadata server, or left out.
Placed(attributes) ==
  /\ attributes.zone \in {ZoneOf(env.metadata.zone), None}
  /\ attributes.instance \in {env.metadata.instance, None}

(***************************************************************************)
(* The agent calls itself what the docstring of config says (client.py:    *)
(* 139-149, and __init__.py:54-62 for the version and the project): the    *)
(* project is that of the arguments, the credentials or the metadata       *)
(* server, in this order; the service that of the arguments, GAE_SERVICE   *)
(* or K_SERVICE (start() says K_VERSION, __init__.py:51, which the code    *)
(* does not read); the version that of the arguments, GAE_VERSION or       *)
(* K_REVISION, if any.  Zone and instance are those of the metadata        *)
(* server, or left out.  What can not be found out makes start() raise, it *)
(* does not profile under another name, wherever another call or an        *)
(* interrupt comes in between.                                             *)
(***************************************************************************)
DeploymentAsDocumented ==
  \A t \in Starting :
    LET a == call[t]
    IN  /\ cfg(t).profilers # {}
        /\ cfg(t).project \in
             IF a.project_id # None THEN {a.project_id}
             ELSE IF a.file # None /\ env.file # None THEN {env.file}
             ELSE IF a.file = None /\ env.default # None THEN {env.default}
             ELSE {env.metadata.project} \ {None}
        /\ cfg(t).target \in ServiceNames
        /\ \/ cfg(t).target = a.service
           \/ a.service = None /\ cfg(t).target = env.gae_service
           \/ a.service = None /\ env.gae_service = None /\ cfg(t).target = env.k_service
        /\ cfg(t).version = IF a.version # None THEN a.version
                            ELSE IF env.gae_version # None THEN env.gae_version
                            ELSE env.k_revision
        /\ Placed(cfg(t))

(***************************************************************************)
(* "Signal is always handled by the main thread, so we are not blocking    *)
(* user interruptions such as Ctrl+C" (client.py:47-49): an interrupt that *)
(* arrives while start() runs is not lost; start() does not return or      *)
(* raise another exception in its place.                                   *)
(***************************************************************************)
InterruptReachesProgram == spc[MainThread] = "out" => interrupt # "sent"
=============================================================================
