------------------------------- MODULE Agent -------------------------------
(***************************************************************************)
(* The agent: googlecloudprofiler.start(), which the threads of the        *)
(* application call, and the polling threads it makes (client.py,          *)
(* backoff.py).  A polling thread builds the service, then asks the server *)
(* what to profile, collects and uploads, for ever; failures are retried   *)
(* after a delay that the server or a Backoff chooses.                     *)
(*                                                                         *)
(* A step is a call that waits (for the network, in time.sleep, in         *)
(* profile()) or a shared attribute, with the code up to the next one.     *)
(***************************************************************************)
EXTENDS ClientConfig, FiniteSetsExt

CONSTANTS
  Responses,     \* what the server may answer: [type, duration, name, empty], the
                 \* profileType or None, is a duration that parses there, is a name,
                 \* and is it the response {}, which is false in "while not profile"
  Errors,        \* failures of a request: [pipe, delay], delay a number or None
  MinEnvelope, MaxEnvelope, Multiplier,  \* of Backoff
  PipeDelays,    \* the delays after a broken pipe
  MaxSleep,      \* the longest delay that time.sleep accepts
  MaxFailures    \* bound: up to where the history variable counts failures

\* Multiplier ^ n, as a function that can be reasoned about.
Power[n \in Nat] == IF n = 0 THEN 1 ELSE Power[n - 1] * Multiplier

ASSUME AgentAssumption ==
  /\ MaxFailures \in Nat /\ MaxSleep \in Nat
  /\ MinEnvelope \in Nat /\ MaxEnvelope \in Nat /\ Multiplier \in Nat \ {0}
  /\ MinEnvelope <= MaxEnvelope /\ MaxEnvelope <= MaxSleep
  /\ MaxEnvelope <= MinEnvelope * Power[MaxFailures]
  /\ PipeDelays \subseteq 0 .. MaxSleep
  /\ \A e \in Errors : e.pipe \in BOOLEAN /\ e.delay \in Int \cup {None}

VARIABLES
  handler,   \* the client whose WallProfiler handles SIGALRM, 0 if none
  ppc,       \* where the polling thread of each client is, "none" before it runs
  profile,   \* its profile, the last response of the server
  wait,      \* its backoff_duration
  building,  \* envelope of its build_service_backoff
  envelope,  \* envelope of its self._backoff
  failures   \* history: failures in a row without a server-specified delay

startVars == <<configVars, handler>>
pollVars  == <<ppc, profile, wait, building, envelope, failures>>
agentVars == <<startVars, pollVars>>

\* The first envelope of a Backoff.
NewBackoff == MinEnvelope

Init ==
  /\ ConfigInit
  /\ handler = 0
  /\ ppc      = [c \in Clients |-> "none"]
  /\ profile  = [c \in Clients |-> None]
  /\ wait     = [c \in Clients |-> 0]
  /\ building = [c \in Clients |-> NewBackoff]
  /\ envelope = [c \in Clients |-> NewBackoff]
  /\ failures = [c \in Clients |-> 0]

-----------------------------------------------------------------------------
\* Client.start, after setup_auth and config (ClientConfig).

HasWall(t) == "WALL" \in cfg(t).profilers

\* Mutated form: the handler may be registered by any thread.
RegisterAnywhere(t) ==
  /\ spc[t] = "register"
  /\ Configure(t, "spawn", cfg(t))
  /\ handler' = IF HasWall(t) THEN mine[t] ELSE handler

\* register_handler raises ValueError outside the main thread.
Register(t) ==
  /\ spc[t] = "register"
  /\ \/ HasWall(t) /\ t = MainThread /\ Configure(t, "spawn", cfg(t)) /\ handler' = mine[t]
     \/ HasWall(t) /\ t # MainThread /\ StartRaises(t) /\ UNCHANGED handler
     \/ ~ HasWall(t) /\ Configure(t, "spawn", cfg(t)) /\ UNCHANGED handler

\* Mutated form: a thread that can not be started is not noticed.
SpawnUnchecked(t) ==
  /\ spc[t] = "spawn"
  /\ Configure(t, "mark", cfg(t))
  /\ \/ ppc' = [ppc EXCEPT ![mine[t]] = "build"]
     \/ UNCHANGED ppc
  /\ UNCHANGED <<started, handler, profile, wait, building, envelope, failures>>

\* The polling thread; RuntimeError if there can be no new thread.
Spawn(t) ==
  /\ spc[t] = "spawn"
  /\ \/ Configure(t, "mark", cfg(t)) /\ ppc' = [ppc EXCEPT ![mine[t]] = "build"]
     \/ StartRaises(t) /\ UNCHANGED ppc
  /\ UNCHANGED <<started, handler, profile, wait, building, envelope, failures>>

\* Mutated form: start() does not remember that it was called.
MarkNothing(t) ==
  /\ spc[t] = "mark" /\ StartLeaves(t)
  /\ UNCHANGED <<started, config>>

\* _started = True
Mark(t) ==
  /\ spc[t] = "mark" /\ StartLeaves(t)
  /\ started' = TRUE
  /\ UNCHANGED config

StartStep(t) ==
  \/ (\E a \in Calls : StartCheck(t, a)) /\ UNCHANGED <<handler, pollVars>>
  \/ ConfigStep(t) /\ UNCHANGED <<handler, pollVars>>
  \/ Register(t) /\ UNCHANGED <<env, started, clients, interrupt, abandoned, pollVars>>
  \/ Spawn(t) /\ UNCHANGED <<env, clients, interrupt, abandoned>>
  \/ Mark(t) /\ UNCHANGED <<env, clients, interrupt, abandoned, handler, pollVars>>

-----------------------------------------------------------------------------
\* Backoff

\* Mutated form: no maximum.
GrowWithoutEnd(e) == e * Multiplier

\* The next _current_envelope_sec.
Grow(e) == Min({MaxEnvelope, e * Multiplier})

OneMore(n) == Min({MaxFailures, n + 1})

\* An exception without a delay of its own.
NoError == [pipe |-> FALSE, delay |-> None]

\* Does next_backoff fall through to the exponential backoff?
Exponential(error) == ~ error.pipe /\ error.delay = None

\* The values next_backoff may return under envelope e.
NextBackoff(error, e) ==
  IF error.pipe THEN PipeDelays
  ELSE IF error.delay # None THEN {error.delay} ELSE 0 .. e

-----------------------------------------------------------------------------
\* _poll_profiler_service, in the polling thread of client c.

PollGoto(c, from, to) == ppc[c] = from /\ ppc' = [ppc EXCEPT ![c] = to]

BuildService(c) ==
  /\ PollGoto(c, "build", "create")
  /\ failures' = [failures EXCEPT ![c] = 0]
  /\ UNCHANGED <<profile, wait, building, envelope>>

BuildFailed(c) ==
  /\ PollGoto(c, "build", "build_sleep")
  /\ failures' = [failures EXCEPT ![c] = OneMore(@)]
  /\ \E d \in NextBackoff(NoError, building[c]) : wait' = [wait EXCEPT ![c] = d]
  /\ building' = [building EXCEPT ![c] = Grow(@)]
  /\ UNCHANGED <<profile, envelope>>

BuildSlept(c) ==
  /\ PollGoto(c, "build_sleep", "build")
  /\ wait' = [wait EXCEPT ![c] = 0]
  /\ UNCHANGED <<profile, building, envelope, failures>>

\* Mutated form: the envelope goes on growing from one failure to a later one.
CreatedKeepEnvelope(c, p) ==
  /\ p.type # None
  /\ PollGoto(c, "create", "collect")
  /\ profile' = [profile EXCEPT ![c] = p]
  /\ failures' = [failures EXCEPT ![c] = 0]
  /\ UNCHANGED <<wait, building, envelope>>

\* _create_profile answers, with a profileType: a new Backoff.
Created(c, p) ==
  /\ p.type # None
  /\ PollGoto(c, "create", "collect")
  /\ profile' = [profile EXCEPT ![c] = p]
  /\ envelope' = [envelope EXCEPT ![c] = NewBackoff]
  /\ failures' = [failures EXCEPT ![c] = 0]
  /\ UNCHANGED <<wait, building>>

\* _create_profile answers without one: after the new Backoff, logging the
\* response raises a KeyError, for which it backs off.
CreatedUntyped(c, p) ==
  /\ p.type = None
  /\ PollGoto(c, "create", "sleep")
  /\ profile' = [profile EXCEPT ![c] = p]
  /\ \E d \in NextBackoff(NoError, NewBackoff) : wait' = [wait EXCEPT ![c] = d]
  /\ envelope' = [envelope EXCEPT ![c] = Grow(NewBackoff)]
  /\ failures' = [failures EXCEPT ![c] = OneMore(0)]
  /\ UNCHANGED building

\* _create_profile fails.
CreateFailed(c, error) ==
  /\ PollGoto(c, "create", "sleep")
  /\ \E d \in NextBackoff(error, envelope[c]) : wait' = [wait EXCEPT ![c] = d]
  /\ IF Exponential(error)
     THEN /\ failures' = [failures EXCEPT ![c] = OneMore(@)]
          /\ envelope' = [envelope EXCEPT ![c] = Grow(@)]
     ELSE UNCHANGED <<failures, envelope>>
  /\ UNCHANGED <<profile, building>>

HasProfile(c) == profile[c] # None /\ ~ profile[c].empty

\* time.sleep, which raises when it cannot represent the delay, out of the except
\* clause and of the thread.
Sleep(c) ==
  /\ \/ /\ wait[c] \notin 0 .. MaxSleep
        /\ PollGoto(c, "sleep", "dead")
     \/ /\ wait[c] \in 0 .. MaxSleep
        /\ PollGoto(c, "sleep", IF HasProfile(c) THEN "collect" ELSE "create")
  /\ wait' = [wait EXCEPT ![c] = 0]
  /\ UNCHANGED <<profile, building, envelope, failures>>

\* The loop starts again with profile = None.
NextProfile(c, from) ==
  /\ PollGoto(c, from, "create")
  /\ profile' = [profile EXCEPT ![c] = None]

\* _collect_and_upload_profile up to profile().  Without a profileType the except
\* clause raises too: its message reads profile_type, which has no value yet.
Collect(c) ==
  /\ ppc[c] = "collect"
  /\ LET p == profile[c]
     IN  \/ /\ p.type = None
            /\ PollGoto(c, "collect", "dead")
            /\ UNCHANGED profile
         \/ /\ p.type # None /\ (p.type \notin config[c].profilers \/ ~ p.duration)
            /\ NextProfile(c, "collect")
         \/ /\ p.type \in config[c].profilers /\ p.duration
            /\ PollGoto(c, "collect", "profile")
            /\ UNCHANGED profile
  /\ UNCHANGED <<wait, building, envelope, failures>>

\* Mutated form: an exception of the profiler leaves the polling thread.
ProfileExceptionLeaves(c) ==
  /\ \/ PollGoto(c, "profile", "dead") \/ PollGoto(c, "profile", "upload")
  /\ UNCHANGED <<profile, wait, building, envelope, failures>>

\* profile() raises, or returns and the upload starts.
Profile(c) ==
  /\ ppc[c] = "profile"
  /\ \/ NextProfile(c, "profile")
     \/ /\ profile[c].name
        /\ PollGoto(c, "profile", "upload")
        /\ UNCHANGED profile
  /\ UNCHANGED <<wait, building, envelope, failures>>

\* patch succeeds or fails: the profile is dropped in either case.
Upload(c) ==
  /\ NextProfile(c, "upload")
  /\ UNCHANGED <<wait, building, envelope, failures>>

PollStep(c) ==
  /\ \/ BuildService(c) \/ BuildFailed(c) \/ BuildSlept(c)
     \/ \E p \in Responses : Created(c, p) \/ CreatedUntyped(c, p)
     \/ \E error \in Errors : CreateFailed(c, error)
     \/ Sleep(c) \/ Collect(c) \/ Profile(c) \/ Upload(c)
  /\ UNCHANGED startVars

Next ==
  \/ \E t \in Threads : StartStep(t)
  \/ Interrupt /\ UNCHANGED <<handler, pollVars>>
  \/ \E c \in Clients : PollStep(c)

Spec == Init /\ [][Next]_agentVars

\* A polling thread is a daemon thread that runs, and every wait in it ends: the
\* requests have a timeout (_PROFILER_SERVICE_TIMEOUT_SEC) and profile() returns
\* (CollectReturns, ProfileReturns).  Building the service succeeds some time.
FairSpec ==
  /\ Spec
  /\ \A c \in Clients : WF_agentVars(PollStep(c))
  /\ \A c \in Clients : SF_agentVars(BuildService(c) /\ UNCHANGED startVars)

-----------------------------------------------------------------------------
AgentTypeOK ==
  /\ ConfigTypeOK
  /\ handler \in 0 .. MaxClients
  /\ ppc \in [Clients -> {"none", "build", "build_sleep", "create", "sleep", "collect",
                          "profile", "upload", "dead"}]
  /\ profile \in [Clients -> Responses \cup {None}]
  /\ wait \in [Clients -> Int]
  /\ building \in [Clients -> MinEnvelope .. MaxEnvelope]
  /\ envelope \in [Clients -> MinEnvelope .. MaxEnvelope]
  /\ failures \in [Clients -> 0 .. MaxFailures]

(***************************************************************************)
(* start() "should only be called once.  Subsequent calls will be ignored" *)
(* (__init__.py:38-39): one polling thread at most runs, so that profiles  *)
(* are collected one at a time, as the static state of the native profiler *)
(* requires.                                                               *)
(***************************************************************************)
OnePoller == \A c, d \in Clients : ppc[c] # "none" /\ ppc[d] # "none" => c = d

(***************************************************************************)
(* When all calls ask for wall profiling, calls of start() that overlap,   *)
(* raise half-way or are interrupted leave two polling threads only in one *)
(* way: start() was interrupted after client.start() and before it set     *)
(* _started (__init__.py:131-133).  Without the threads that were left     *)
(* behind like that, there is one at most.                                 *)
(***************************************************************************)
OnePollerUnlessAbandoned ==
  \A c, d \in Clients \ abandoned : ppc[c] # "none" /\ ppc[d] # "none" => c = d

(***************************************************************************)
(* SIGALRM is handled by the WallProfiler that the polling thread runs: no *)
(* other call of start() takes the signal from it (client.py:223-228),     *)
(* unless start() was interrupted between the start of that thread and     *)
(* _started = True.                                                        *)
(***************************************************************************)
WallHandlerIsCurrent ==
  \A c \in Clients \ abandoned :
    ppc[c] # "none" /\ "WALL" \in config[c].profilers => handler = c

(***************************************************************************)
(* Later calls of start() are ignored only when an agent is at work: after *)
(* calls that overlap, raise or are interrupted, _started means that a     *)
(* polling thread has run with a client that is configured.                *)
(***************************************************************************)
StartedMeansPolling ==
  started => \E c \in Clients :
    /\ ppc[c] # "none"
    /\ config[c].profilers # {} /\ config[c].project # None /\ config[c].target # None

(***************************************************************************)
(* The envelope starts "from the specified minimum" and is "exponentially  *)
(* increased between subsequent failures, up to the specified maximum"     *)
(* (backoff.py:33-35): it depends on the failures in a row alone, whatever *)
(* broken pipes, server-specified delays and profiles came in between.     *)
(***************************************************************************)
EnvelopeTracksFailures ==
  \A c \in Clients :
    (IF ppc[c] \in {"none", "build", "build_sleep"} THEN building ELSE envelope)[c]
      = Min({MaxEnvelope, MinEnvelope * Power[failures[c]]})

(***************************************************************************)
(* "Polls the profiler server stoplessly" (client.py:304): whatever fails, *)
(* the polling thread asks the server for a profile again.                 *)
(***************************************************************************)
PollsForever ==
  \A c \in Clients : ppc[c] \notin {"none", "create"} ~> ppc[c] = "create"

(***************************************************************************)
(* The same as long as the server names a profileType in its responses and *)
(* asks for delays that can be slept.                                      *)
(***************************************************************************)
SensibleServer ==
  [](\A c \in Clients :
       /\ profile[c] # None => profile[c].type # None
       /\ wait[c] \in 0 .. MaxSleep)

PollsForeverIfSensible == SensibleServer => PollsForever
=============================================================================
