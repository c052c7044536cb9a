---------------------------- MODULE CpuCollector ----------------------------
(***************************************************************************)
(* One CPU profile after the other: ProfileCPU makes a CPUProfiler, which  *)
(* resets the static multiset, installs the SIGPROF handler, arms          *)
(* ITIMER_PROF, flushes the table periodically, stops, waits for the last  *)
(* handlers and reports (profiler.cc, profiler.h, _profiler.cc).  The      *)
(* kernel delivers SIGPROF to any thread whose handler is not running.     *)
(***************************************************************************)
EXTENDS AsyncSafeTraceMultiset, Functions

CONSTANTS
  LateHandlers,  \* may a handler outlast the final delay of Collect?
  MaxFlushes,    \* bound: flushes while the timer is armed, per profile
  MaxProfiles    \* bound: profiles collected

ASSUME CollectorAssumption ==
  /\ LateHandlers \in BOOLEAN
  /\ MaxFlushes \in Nat /\ MaxProfiles \in Nat /\ MaxFrames > 0

\* The frame {kUnknown, nullptr} that stands for samples without room.
UnknownTrace == <<NullFrame>>

\* The frames of a sample have a code object, or kNoPyState for a line
\* (populate_frames.cc:85-112): no sample reads like samples without room.
ASSUME SampledAssumption == IsFiniteSet(Samples) /\ UnknownTrace \notin Samples

VARIABLES
  cpc,         \* where the profiling thread is in ProfileCPU
  collecting,  \* Collect was entered; before, the constructor runs
  rloc,        \* entries of the table that memset has cleared
  flushes,     \* flushes of this profile
  profiles,    \* profiles started
  armed,       \* ITIMER_PROF
  disposition, \* of SIGPROF: "default", "handle" or "ignore"
  pending,     \* SIGPROF is pending for the process
  sampled      \* history: Handle calls of this profile, by sampled trace

kernelVars    == <<armed, disposition, pending>>
collectorVars == <<cpc, collecting, rloc, flushes, profiles>>
cpuVars       == <<vars, kernelVars, collectorVars, sampled>>

CpuInit ==
  /\ Init
  /\ cpc = "idle" /\ collecting = FALSE /\ rloc = 0 /\ flushes = 0 /\ profiles = 0
  /\ armed = FALSE /\ disposition = "default" /\ pending = FALSE
  /\ sampled = [t \in Samples |-> 0]

-----------------------------------------------------------------------------
\* The kernel.

\* The timer goes off.  A pending SIGPROF absorbs it; an ignored one is dropped.
Tick ==
  /\ armed
  /\ pending' = (disposition # "ignore")
  /\ UNCHANGED <<armed, disposition, vars, collectorVars, sampled>>

\* The pending signal interrupts th, whose stack is t.
Deliver(th, t) ==
  /\ pending /\ disposition = "handle"
  /\ Handle(th, t)
  /\ pending' = FALSE
  /\ sampled' = [sampled EXCEPT ![t] = @ + 1]
  /\ UNCHANGED <<armed, disposition, collectorVars>>

-----------------------------------------------------------------------------
\* The profiling thread.

CollectorGoto(from, to) == cpc = from /\ cpc' = to

\* ProfileCPU: a new CPUProfiler, with no aggregated trace, which Resets.
NewProfiler ==
  /\ CollectorGoto("idle", "memset")
  /\ profiles < MaxProfiles
  /\ profiles' = profiles + 1
  /\ collecting' = FALSE
  /\ rloc' = 0
  /\ flushes' = 0
  /\ aggregated' = [t \in Traces |-> 0]
  /\ sampled' = [t \in Samples |-> 0]
  /\ UNCHANGED <<xpc, xloc, xnum, xcount, xframes, tableVars, handlerVars, kernelVars>>

\* Mutated form: the memset clears one entry too many.
ResetEntryTooFar ==
  /\ cpc = "memset" /\ rloc <= MaxEntries
  /\ rloc' = rloc + 1
  /\ count'     = [count EXCEPT ![rloc] = 0]
  /\ active'    = [active EXCEPT ![rloc] = 0]
  /\ numFrames' = [numFrames EXCEPT ![rloc] = 0]
  /\ buffer'    = [buffer EXCEPT ![rloc] = [k \in 1 .. MaxFrames |-> NullFrame]]
  /\ UNCHANGED <<cpc, collecting, flushes, profiles, handlerVars, extractVars,
                 kernelVars, sampled>>

\* Reset, the memset, one entry at a time.
ResetEntry ==
  /\ cpc = "memset" /\ rloc < MaxEntries
  /\ rloc' = rloc + 1
  /\ count'     = [count EXCEPT ![rloc] = 0]
  /\ active'    = [active EXCEPT ![rloc] = 0]
  /\ numFrames' = [numFrames EXCEPT ![rloc] = 0]
  /\ buffer'    = [buffer EXCEPT ![rloc] = [k \in 1 .. MaxFrames |-> NullFrame]]
  /\ UNCHANGED <<cpc, collecting, flushes, profiles, handlerVars, extractVars,
                 kernelVars, sampled>>

\* Mutated form: samples without room stay counted from one profile to the next.
ResetUnknownKept ==
  /\ CollectorGoto("memset", "action")
  /\ rloc = MaxEntries
  /\ UNCHANGED <<collecting, rloc, flushes, profiles, vars, kernelVars, sampled>>

\* Reset: unknown_stack_count_ = 0
ResetUnknown ==
  /\ CollectorGoto("memset", "action")
  /\ rloc = MaxEntries
  /\ unknown' = 0
  /\ UNCHANGED <<collecting, rloc, flushes, profiles, pc, trace, probe, seen, calls,
                 tableVars, extractVars, kernelVars, sampled>>

\* Reset: SetAction(&Handle).  The constructor is followed by Collect, which
\* Resets once more.
InstallHandler ==
  /\ cpc = "action"
  /\ disposition' = "handle"
  /\ collecting' = TRUE
  /\ IF collecting THEN cpc' = "start" /\ rloc' = rloc
                   ELSE cpc' = "memset" /\ rloc' = 0
  /\ UNCHANGED <<flushes, profiles, armed, pending, vars, sampled>>

\* Start: setitimer.  When it fails Collect returns nullptr at once.
StartTimer ==
  /\ \/ CollectorGoto("start", "sleep") /\ armed' = TRUE
     \/ CollectorGoto("start", "idle") /\ UNCHANGED armed
  /\ UNCHANGED <<collecting, rloc, flushes, profiles, disposition, pending,
                 vars, sampled>>

\* The loop of Collect: not AlmostThere, sleep, Flush.
PeriodicFlush ==
  /\ CollectorGoto("sleep", "flush")
  /\ flushes < MaxFlushes
  /\ flushes' = flushes + 1
  /\ HarvestStart
  /\ UNCHANGED <<collecting, rloc, profiles, kernelVars, sampled>>

PeriodicFlushed ==
  /\ CollectorGoto("flush", "sleep")
  /\ xpc = "idle"
  /\ UNCHANGED <<collecting, rloc, flushes, profiles, vars, kernelVars, sampled>>

\* SleepUntil(finish_line), then Stop: setitimer(0).
StopTimer ==
  /\ CollectorGoto("sleep", "ignore")
  /\ armed' = FALSE
  /\ UNCHANGED <<collecting, rloc, flushes, profiles, disposition, pending,
                 vars, sampled>>

\* Mutated form: Stop gives SIGPROF back the disposition it had at first.
RestoreDefault ==
  /\ CollectorGoto("ignore", "drain")
  /\ disposition' = "default"
  /\ UNCHANGED <<collecting, rloc, flushes, profiles, armed, pending, vars,
                 sampled>>

\* Stop: signal(SIGPROF, SIG_IGN), which also discards a pending SIGPROF.
IgnoreSignal ==
  /\ CollectorGoto("ignore", "drain")
  /\ disposition' = "ignore"
  /\ pending' = FALSE
  /\ UNCHANGED <<collecting, rloc, flushes, profiles, armed, vars, sampled>>

\* Mutated form: no delay before the last flush.
FinalFlushAtOnce ==
  /\ CollectorGoto("drain", "lastflush")
  /\ HarvestStart
  /\ UNCHANGED <<collecting, rloc, flushes, profiles, kernelVars, sampled>>

\* The delay "to allow last signals to be processed", and the last Flush.
FinalFlush ==
  /\ CollectorGoto("drain", "lastflush")
  /\ LateHandlers \/ \A th \in Threads : pc[th] = "idle"
  /\ HarvestStart
  /\ UNCHANGED <<collecting, rloc, flushes, profiles, kernelVars, sampled>>

\* PythonTraces: the unknown samples join the aggregated ones, all are reported.
PythonTraces ==
  /\ CollectorGoto("lastflush", "report")
  /\ xpc = "idle"
  /\ aggregated' = IF unknown > 0 THEN [aggregated EXCEPT ![UnknownTrace] = @ + unknown]
                                  ELSE aggregated
  /\ UNCHANGED <<collecting, rloc, flushes, profiles, xpc, xloc, xnum, xcount, xframes,
                 tableVars, handlerVars, kernelVars, sampled>>

\* ProfileCPU returns the dictionary.
ProfileReturned ==
  /\ CollectorGoto("report", "idle")
  /\ UNCHANGED <<collecting, rloc, flushes, profiles, vars, kernelVars, sampled>>

CollectStep ==
  \/ ResetEntry \/ ResetUnknown  \/ InstallHandler  \/ StartTimer
  \/ PeriodicFlush \/ PeriodicFlushed \/ StopTimer \/ IgnoreSignal
  \/ FinalFlush \/ PythonTraces \/ ProfileReturned

HandlerStep(th) == AddStep(th) /\ UNCHANGED <<kernelVars, collectorVars, sampled>>

FlushStep == ExtractStep /\ UNCHANGED <<kernelVars, collectorVars, sampled>>

CpuNext ==
  \/ Tick
  \/ \E th \in Threads : \E t \in Samples : Deliver(th, t)
  \/ NewProfiler
  \/ CollectStep
  \/ \E th \in Threads : HandlerStep(th)
  \/ FlushStep

CpuSpec == CpuInit /\ [][CpuNext]_cpuVars

\* The profiling thread runs, and so does every interrupted thread.
FairCpuSpec ==
  /\ CpuSpec
  /\ WF_cpuVars(CollectStep)
  /\ WF_cpuVars(FlushStep)
  /\ \A th \in Threads : WF_cpuVars(HandlerStep(th))

-----------------------------------------------------------------------------
CpuTypeOK ==
  /\ TypeOK
  /\ cpc \in {"idle", "memset", "action", "start", "sleep", "flush", "ignore",
              "drain", "lastflush", "report"}
  /\ collecting \in BOOLEAN
  /\ rloc \in 0 .. MaxEntries
  /\ flushes \in 0 .. MaxFlushes
  /\ profiles \in 0 .. MaxProfiles
  /\ armed \in BOOLEAN /\ pending \in BOOLEAN
  /\ disposition \in {"default", "handle", "ignore"}
  /\ sampled \in [Samples -> Nat]

(***************************************************************************)
(* The process is never ended by a SIGPROF of its own profiler: no signal  *)
(* is ever pending under the default disposition, whose action is to end   *)
(* the process, through any number of profiles and failed starts.          *)
(***************************************************************************)
NeverKilled == ~ (pending /\ disposition = "default")

(***************************************************************************)
(* What Collect reports accounts for every SIGPROF handled since it began, *)
(* across flushes: no trace is reported more often than it was sampled,    *)
(* and nothing but samples without frames is missing from the total.       *)
(***************************************************************************)
ProfileAccountsForSamples ==
  cpc = "report" =>
    /\ \A t \in Samples : aggregated[t] <= sampled[t]
    /\ SumFunctionOnSet(aggregated, Samples \cup {UnknownTrace})
         \in SumFunctionOnSet(sampled, Samples \ {<<>>})
              .. SumFunctionOnSet(sampled, Samples)

(***************************************************************************)
(* Collect returns: neither the flushes nor the drain wait for ever.       *)
(***************************************************************************)
CollectReturns == (cpc # "idle") ~> (cpc = "idle")
=============================================================================
