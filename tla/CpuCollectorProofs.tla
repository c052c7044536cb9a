------------------------- MODULE CpuCollectorProofs -------------------------
(***************************************************************************)
(* Safety of the CPU profiler over any number of profiles, flushes and     *)
(* handlers.                                                               *)
(*                                                                         *)
(* KernelInv relates the timer, the pending signal and its disposition to  *)
(* where the profiling thread is; it holds whatever the delays.  QuietInv  *)
(* says when no handler runs, and holds when none outlasts the delay       *)
(* before the last flush: then the resets between two profiles cannot      *)
(* disturb the multiset, and its inductive invariant IInv is kept.         *)
(* AccountInv adds the samples: with the refinement of TraceBag every step *)
(* of the multiset keeps the balance of those taken and those held.        *)
(***************************************************************************)
EXTENDS CpuCollector, AsyncSafeTraceMultisetProofs, FiniteSums

\* A signal is pending only while it would be handled or is about to be ignored.
KernelInv ==
  /\ armed => cpc \in {"sleep", "flush"}
  /\ pending => cpc \in {"sleep", "flush", "ignore"}
  /\ cpc \in {"start", "sleep", "flush", "ignore"} => disposition = "handle"

\* The flags of the collector and of the kernel.
FlagsInv == collecting \in BOOLEAN /\ armed \in BOOLEAN /\ pending \in BOOLEAN

\* Its other variables.
CountersInv ==
  /\ cpc \in {"idle", "memset", "action", "start", "sleep", "flush", "ignore",
              "drain", "lastflush", "report"}
  /\ rloc \in 0 .. MaxEntries
  /\ flushes \in 0 .. MaxFlushes
  /\ profiles \in 0 .. MaxProfiles
  /\ disposition \in {"default", "handle", "ignore"}
  /\ sampled \in [Samples -> Nat]

\* The variables of the collector have their types, whatever the handlers do.
CollectorTypeInv == TypeInv /\ FlagsInv /\ CountersInv

\* Handlers run between the start of the timer and the last flush; entries are
\* extracted during a flush.
QuietInv ==
  /\ cpc \notin {"sleep", "flush", "ignore", "drain"} =>
       \A th \in Threads : pc[th] = "idle"
  /\ xpc # "idle" => cpc \in {"flush", "lastflush"}

ProfileInv == CollectorTypeInv /\ KernelInv /\ QuietInv /\ IInv

-----------------------------------------------------------------------------
(* The signal. *)

\* Signals are off before the first profile (profiler.cc, no static handler).
LEMMA InitKernel == CpuInit => KernelInv
BY DEF CpuInit, KernelInv

\* Start arms the timer after the handler is installed, and Stop disarms it
\* before the signal is ignored (profiler.cc:183-192, 329-338).
LEMMA KernelStep == KernelInv /\ [CpuNext]_cpuVars => KernelInv'
<1> SUFFICES ASSUME KernelInv, [CpuNext]_cpuVars PROVE KernelInv'
  OBVIOUS
<1> USE DEF KernelInv, kernelVars, collectorVars, CollectorGoto
<1>1. CASE Tick
  BY <1>1 DEF Tick
<1>2. ASSUME NEW th \in Threads, NEW t \in Samples, Deliver(th, t) PROVE KernelInv'
  BY <1>2 DEF Deliver
<1>3. CASE NewProfiler
  BY <1>3 DEF NewProfiler
<1>4. CASE ResetEntry \/ ResetUnknown \/ InstallHandler
  BY <1>4 DEF ResetEntry, ResetUnknown, InstallHandler
<1>5. CASE StartTimer
  BY <1>5 DEF StartTimer
<1>6. CASE PeriodicFlush \/ PeriodicFlushed
  BY <1>6 DEF PeriodicFlush, PeriodicFlushed
<1>7. CASE StopTimer \/ IgnoreSignal
  BY <1>7 DEF StopTimer, IgnoreSignal
<1>8. CASE FinalFlush \/ PythonTraces \/ ProfileReturned
  BY <1>8 DEF FinalFlush, PythonTraces, ProfileReturned
<1>9. ASSUME NEW th \in Threads, HandlerStep(th) PROVE KernelInv'
  BY <1>9 DEF HandlerStep
<1>10. CASE FlushStep
  BY <1>10 DEF FlushStep
<1>11. CASE UNCHANGED cpuVars
  BY <1>11 DEF cpuVars
<1> QED
  BY <1>1, <1>2, <1>3, <1>4, <1>5, <1>6, <1>7, <1>8, <1>9, <1>10, <1>11
  DEF CpuNext, CollectStep

LEMMA KernelAlways == CpuSpec => []KernelInv
BY InitKernel, KernelStep, PTL DEF CpuSpec

(***************************************************************************)
(* No SIGPROF ever meets the default disposition, which would end the      *)
(* process: not the one that the timer sends while Stop runs, nor one left *)
(* over from a profile whose Start failed (profiler.cc:299-301), for any   *)
(* number of profiles and however long handlers last.                      *)
(***************************************************************************)
THEOREM SignalsNeverKill == CpuSpec => []NeverKilled
<1>1. KernelInv => NeverKilled
  BY DEF KernelInv, NeverKilled
<1> QED
  BY <1>1, KernelAlways, PTL

-----------------------------------------------------------------------------
(* Steps of the multiset, and the others. *)

\* What the handlers and Extract do is a step of the multiset.
LEMMA TableStep ==
  ASSUME \/ \E th \in Threads : \E t \in Samples : Deliver(th, t)
         \/ \E th \in Threads : HandlerStep(th)
         \/ FlushStep \/ PeriodicFlush \/ FinalFlush
  PROVE  Next
BY DEF Deliver, HandlerStep, FlushStep, PeriodicFlush, FinalFlush, Next

\* What the collector does on its own leaves the multiset alone.
LEMMA CollectorStep ==
  ASSUME \/ Tick \/ InstallHandler \/ StartTimer \/ PeriodicFlushed \/ StopTimer
         \/ IgnoreSignal \/ ProfileReturned \/ UNCHANGED cpuVars
  PROVE  UNCHANGED vars
BY DEF Tick, InstallHandler, StartTimer, PeriodicFlushed, StopTimer, IgnoreSignal,
       ProfileReturned, cpuVars

\* What a new profile, a Reset and the report change besides: sums and totals.
LEMMA TotalsTypeInv ==
  ASSUME TypeInv, NewProfiler \/ ResetUnknown \/ PythonTraces
  PROVE  TypeInv'
<1> USE DEF TypeInv, TypeOK, LocalsInv, tableVars, handlerVars, extractVars
<1>1. CASE NewProfiler
  BY <1>1 DEF NewProfiler
<1>2. CASE ResetUnknown
  BY <1>2 DEF ResetUnknown
<1>3. CASE PythonTraces
  <2>1. aggregated \in [Traces -> Int] /\ unknown \in Nat
    OBVIOUS
  <2>2. \/ aggregated' = aggregated
        \/ aggregated' = [aggregated EXCEPT ![UnknownTrace] = @ + unknown]
    BY <1>3 DEF PythonTraces
  <2>3. aggregated' \in [Traces -> Int]
    <3> HIDE DEF TypeInv, TypeOK, LocalsInv
    <3> QED
      BY <2>1, <2>2
  <2> QED
    BY <1>3, <2>3 DEF PythonTraces
<1> QED
  BY <1>1, <1>2, <1>3

\* The memset stays in the table (stacktraces.h:71-77).
LEMMA ResetTypeInv ==
  ASSUME TypeInv, rloc \in 0 .. MaxEntries, ResetEntry
  PROVE  TypeInv' /\ rloc \in Slots /\ rloc' \in 0 .. MaxEntries
<1>1. rloc \in Slots /\ rloc' \in 0 .. MaxEntries
  BY SizeAssumption DEF ResetEntry, Slots
<1>2. 0 \in 0 .. MaxFrames
  BY SizeAssumption
<1>3. [k \in 1 .. MaxFrames |-> NullFrame] \in [1 .. MaxFrames -> Frames \cup {NullFrame}]
  OBVIOUS
<1>4. count' \in [Slots -> Int] /\ active' \in [Slots -> Int]
  BY <1>1 DEF ResetEntry, TypeInv, TypeOK
<1>5. numFrames' \in [Slots -> 0 .. MaxFrames]
  BY <1>1, <1>2 DEF ResetEntry, TypeInv, TypeOK
<1>6. buffer' \in [Slots -> [1 .. MaxFrames -> Frames \cup {NullFrame}]]
  BY <1>1, <1>3 DEF ResetEntry, TypeInv, TypeOK
<1>7. UNCHANGED <<handlerVars, extractVars>>
  BY DEF ResetEntry
<1>8. TypeOK'
  BY <1>4, <1>5, <1>6, <1>7 DEF TypeInv, TypeOK, handlerVars, extractVars
<1>9. LocalsInv'
  BY <1>7 DEF TypeInv, LocalsInv, handlerVars
<1> QED
  BY <1>1, <1>8, <1>9 DEF TypeInv

\* Every step of a profile keeps the types of the multiset.
LEMMA TableTypeStep ==
  ASSUME TypeInv, rloc \in 0 .. MaxEntries, [CpuNext]_cpuVars
  PROVE  TypeInv'
<1>1. CASE \/ \E th \in Threads : \E t \in Samples : Deliver(th, t)
           \/ \E th \in Threads : HandlerStep(th)
           \/ FlushStep \/ PeriodicFlush \/ FinalFlush
  BY <1>1, TableStep, TypeInvStep
<1>2. CASE \/ Tick \/ InstallHandler \/ StartTimer \/ PeriodicFlushed \/ StopTimer
           \/ IgnoreSignal \/ ProfileReturned \/ UNCHANGED cpuVars
  BY <1>2, CollectorStep, TypeInvStep
<1>3. CASE NewProfiler \/ ResetUnknown \/ PythonTraces
  BY <1>3, TotalsTypeInv
<1>4. CASE ResetEntry
  BY <1>4, ResetTypeInv
<1> QED
  BY <1>1, <1>2, <1>3, <1>4 DEF CpuNext, CollectStep

\* Flags are assigned constants and truth values only.
LEMMA FlagsStep == FlagsInv /\ [CpuNext]_cpuVars => FlagsInv'
<1> SUFFICES ASSUME FlagsInv, [CpuNext]_cpuVars PROVE FlagsInv'
  OBVIOUS
<1> USE DEF FlagsInv, kernelVars, collectorVars
<1>1. CASE Tick
  <2>1. pending' \in BOOLEAN
    BY <1>1, Zenon DEF Tick
  <2> QED
    BY <1>1, <2>1 DEF Tick
<1>2. ASSUME NEW th \in Threads, NEW t \in Samples, Deliver(th, t) PROVE FlagsInv'
  BY <1>2, Zenon DEF Deliver
<1>3. CASE NewProfiler
  BY <1>3, Zenon DEF NewProfiler
<1>4. CASE ResetEntry \/ ResetUnknown
  BY <1>4, Zenon DEF ResetEntry, ResetUnknown
<1>5. CASE InstallHandler
  BY <1>5, Zenon DEF InstallHandler
<1>6. CASE StartTimer
  BY <1>6, Zenon DEF StartTimer
<1>7. CASE PeriodicFlush \/ PeriodicFlushed
  BY <1>7, Zenon DEF PeriodicFlush, PeriodicFlushed
<1>8. CASE StopTimer
  BY <1>8, Zenon DEF StopTimer
<1>9. CASE IgnoreSignal
  BY <1>9, Zenon DEF IgnoreSignal
<1>10. CASE FinalFlush \/ PythonTraces \/ ProfileReturned
  BY <1>10, Zenon DEF FinalFlush, PythonTraces, ProfileReturned
<1>11. ASSUME NEW th \in Threads, HandlerStep(th) PROVE FlagsInv'
  BY <1>11, Zenon DEF HandlerStep
<1>12. CASE FlushStep
  BY <1>12, Zenon DEF FlushStep
<1>13. CASE UNCHANGED cpuVars
  BY <1>13, Zenon DEF cpuVars
<1> QED
  BY <1>1, <1>2, <1>3, <1>4, <1>5, <1>6, <1>7, <1>8, <1>9, <1>10, <1>11, <1>12, <1>13
  DEF CpuNext, CollectStep

\* Counters stay within the table and the bounds.
LEMMA CountersStep ==
  ASSUME CollectorTypeInv, [CpuNext]_cpuVars
  PROVE  CountersInv'
<1> USE SizeAssumption, CollectorAssumption
        DEF CollectorTypeInv, CountersInv, kernelVars, collectorVars, CollectorGoto
<1>1. CASE Tick
  BY <1>1 DEF Tick
<1>2. ASSUME NEW th \in Threads, NEW t \in Samples, Deliver(th, t)
      PROVE  CountersInv'
  BY <1>2 DEF Deliver
<1>3. CASE NewProfiler
  BY <1>3 DEF NewProfiler
<1>4. CASE ResetEntry
  <2>1. rloc' \in 0 .. MaxEntries
    BY <1>4, ResetTypeInv
  <2> QED
    BY <1>4, <2>1 DEF ResetEntry
<1>5. CASE ResetUnknown
  BY <1>5 DEF ResetUnknown
<1>6. CASE InstallHandler
  BY <1>6 DEF InstallHandler
<1>7. CASE StartTimer
  BY <1>7 DEF StartTimer
<1>8. CASE PeriodicFlush \/ PeriodicFlushed
  BY <1>8 DEF PeriodicFlush, PeriodicFlushed
<1>9. CASE StopTimer \/ IgnoreSignal
  BY <1>9 DEF StopTimer, IgnoreSignal
<1>10. CASE FinalFlush \/ PythonTraces \/ ProfileReturned
  BY <1>10 DEF FinalFlush, PythonTraces, ProfileReturned
<1>11. ASSUME NEW th \in Threads, HandlerStep(th) PROVE CountersInv'
  BY <1>11 DEF HandlerStep
<1>12. CASE FlushStep
  BY <1>12 DEF FlushStep
<1>13. CASE UNCHANGED cpuVars
  BY <1>13 DEF cpuVars
<1> QED
  BY <1>1, <1>2, <1>3, <1>4, <1>5, <1>6, <1>7, <1>8, <1>9, <1>10, <1>11, <1>12, <1>13
  DEF CpuNext, CollectStep

LEMMA InitCollectorType == CpuInit => CollectorTypeInv
<1> SUFFICES ASSUME CpuInit PROVE CollectorTypeInv
  OBVIOUS
<1>1. TypeInv
  BY InitTypeInv DEF CpuInit
<1>2. FlagsInv
  BY Zenon DEF CpuInit, FlagsInv
<1>3. CountersInv
  BY SizeAssumption, CollectorAssumption DEF CpuInit, CountersInv
<1> QED
  BY <1>1, <1>2, <1>3 DEF CollectorTypeInv

\* Every step of a profile keeps the types.
LEMMA CollectorTypeStep == CollectorTypeInv /\ [CpuNext]_cpuVars => CollectorTypeInv'
<1> SUFFICES ASSUME CollectorTypeInv, [CpuNext]_cpuVars PROVE CollectorTypeInv'
  OBVIOUS
<1>1. rloc \in 0 .. MaxEntries
  BY DEF CollectorTypeInv, CountersInv
<1> QED
  BY <1>1, TableTypeStep, FlagsStep, CountersStep DEF CollectorTypeInv

(***************************************************************************)
(* Every variable keeps its type through any number of profiles, also when *)
(* a handler is still running as the table is reset under it: the reset,   *)
(* the handlers and Extract all stay within the table and its buffers.     *)
(***************************************************************************)
THEOREM CpuTypeCorrect == CpuSpec => []CpuTypeOK
<1>1. CpuSpec => []CollectorTypeInv
  BY InitCollectorType, CollectorTypeStep, PTL DEF CpuSpec
<1>2. CollectorTypeInv => CpuTypeOK
  BY DEF CollectorTypeInv, FlagsInv, CountersInv, CpuTypeOK, TypeInv
<1> QED
  BY <1>1, <1>2, PTL

-----------------------------------------------------------------------------
(* Resets, when no handler is late. *)

LEMMA InitQuiet == CpuInit => QuietInv
BY DEF CpuInit, Init, HandlerInit, ExtractInit, QuietInv

\* A handler starts only when the signal is pending, and none is left when the
\* last flush begins (profiler.cc:317-321).
LEMMA QuietStep ==
  ASSUME ~ LateHandlers, CollectorTypeInv, KernelInv, QuietInv, [CpuNext]_cpuVars
  PROVE  QuietInv'
<1> USE DEF QuietInv, kernelVars, collectorVars, CollectorGoto
<1>1. CASE UNCHANGED vars
  <2>1. UNCHANGED <<pc, xpc>>
    BY <1>1 DEF vars, handlerVars, extractVars
  <2>2. CASE Tick \/ UNCHANGED cpuVars
    BY <2>1, <2>2 DEF Tick, cpuVars
  <2>3. CASE InstallHandler \/ StartTimer \/ ProfileReturned
    BY <2>1, <2>3 DEF InstallHandler, StartTimer, ProfileReturned
  <2>4. CASE PeriodicFlushed \/ StopTimer \/ IgnoreSignal
    BY <2>1, <2>4 DEF PeriodicFlushed, StopTimer, IgnoreSignal
  <2>5. CASE cpc' = cpc
    BY <2>1, <2>5
  <2>6. CASE NewProfiler \/ ResetUnknown \/ PythonTraces
    BY <2>1, <2>6 DEF NewProfiler, ResetUnknown, PythonTraces
  <2>7. CASE PeriodicFlush \/ FinalFlush
    BY <2>1, <2>7 DEF PeriodicFlush, FinalFlush, HarvestStart
  <2> QED
    BY <2>2, <2>3, <2>4, <2>5, <2>6, <2>7
    DEF CpuNext, CollectStep, Deliver, HandlerStep, FlushStep, ResetEntry
<1>2. ASSUME NEW th \in Threads, NEW t \in Samples, Deliver(th, t) PROVE QuietInv'
  BY <1>2 DEF Deliver, Handle, KernelInv, extractVars
<1>3. ASSUME NEW th \in Threads, HandlerStep(th) PROVE QuietInv'
  <2>1. pc[th] # "idle"
    BY <1>3 DEF HandlerStep, AddStep, AddEnter, AddLoad, AddReserve, AddReserved,
      AddWrite, AddPublish, AddCompare, AddReload, AddBump, AddBumped, AddLeave,
      CountUnknown, Goto
  <2>2. xpc' = xpc
    BY <1>3 DEF HandlerStep, AddStep, AddEnter, AddLoad, AddReserve, AddReserved,
      AddWrite, AddPublish, AddCompare, AddReload, AddBump, AddBumped, AddLeave,
      CountUnknown, extractVars
  <2>3. cpc' = cpc
    BY <1>3 DEF HandlerStep
  <2> QED
    BY <2>1, <2>2, <2>3
<1>4. CASE FlushStep
  <2>1. xpc # "idle" /\ pc' = pc
    BY <1>4 DEF FlushStep, ExtractStep, ExtractLoad, ExtractNum, ExtractLock,
      ExtractCopy, ExtractSpin, ExtractRelease, handlerVars
  <2>2. cpc' = cpc
    BY <1>4 DEF FlushStep
  <2> QED
    BY <2>1, <2>2
<1>5. CASE NewProfiler \/ ResetEntry \/ ResetUnknown \/ PythonTraces
  BY <1>5 DEF NewProfiler, ResetEntry, ResetUnknown, PythonTraces, handlerVars,
              extractVars
<1>6. CASE PeriodicFlush \/ FinalFlush
  BY <1>6 DEF PeriodicFlush, FinalFlush, HarvestStart, handlerVars
<1> QED
  BY <1>1, <1>2, <1>3, <1>4, <1>5, <1>6, CollectorStep DEF CpuNext, CollectStep

\* With no handler in the table, clearing an entry takes it from nobody.
LEMMA ResetKeeps ==
  ASSUME CollectorTypeInv, QuietInv, IInv, ResetEntry
  PROVE  ActiveUpdatesExact' /\ LockInv'
<1>1. /\ \A th \in Threads : pc[th] = "idle" /\ pc'[th] = "idle"
      /\ xpc = "idle" /\ xpc' = "idle"
  BY DEF ResetEntry, QuietInv, handlerVars, extractVars
<1>2. rloc \in Slots
  BY ResetTypeInv DEF CollectorTypeInv, CountersInv
<1>3. /\ count' = [count EXCEPT ![rloc] = 0]
      /\ active' = [active EXCEPT ![rloc] = 0]
      /\ count \in [Slots -> Int] /\ active \in [Slots -> Int]
  BY DEF ResetEntry, CollectorTypeInv, TypeInv, TypeOK
<1>4. ActiveUpdatesExact'
  BY <1>1, <1>2, <1>3, ClearedActive DEF IInv
<1>5. \A s \in Slots : count'[s] >= kTraceCountLocked /\ count'[s] # kTraceCountLocked
  <2>1. \A s \in Slots : count[s] >= kTraceCountLocked /\ count[s] # kTraceCountLocked
    BY <1>1 DEF IInv, LockInv, OwnerInv, CountInv, Owns, ExtractorOwns
  <2> QED
    BY <1>2, <1>3, <2>1 DEF kTraceCountLocked
<1>6. LockInv'
  BY <1>1, <1>5
  DEF LockInv, OwnerInv, ExclusionInv, InspectInv, CountInv, Owns, Inspects,
      ExtractorOwns
<1> QED
  BY <1>4, <1>6

\* Totals are no part of the protocol.
LEMMA TotalsKeep ==
  ASSUME IInv, NewProfiler \/ ResetUnknown \/ PythonTraces
  PROVE  ActiveUpdatesExact' /\ LockInv'
<1>1. UNCHANGED <<count, active, pc, trace, probe, seen, xpc, xloc>>
  BY DEF NewProfiler, ResetUnknown, PythonTraces, tableVars, handlerVars, extractVars
<1>2. \A s \in Slots : Updating(s)' = Updating(s)
  BY <1>1 DEF Updating, Slot
<1>3. \A th \in Threads : Slot(th)' = Slot(th)
  BY <1>1 DEF Slot
<1> QED
  BY <1>1, <1>2, <1>3 DEF IInv, ActiveUpdatesExact, LockInv, OwnerInv, ExclusionInv,
    InspectInv, CountInv, Owns, Inspects, ExtractorOwns

\* Every step of a profile keeps the protocol of the multiset.
LEMMA ProfileStep ==
  ASSUME ~ LateHandlers, ProfileInv, [CpuNext]_cpuVars
  PROVE  ProfileInv'
<1> USE DEF ProfileInv
<1>1. CollectorTypeInv' /\ KernelInv' /\ QuietInv'
  BY CollectorTypeStep, KernelStep, QuietStep
<1>2. IInv'
  <2>1. CASE \/ \E th \in Threads : \E t \in Samples : Deliver(th, t)
             \/ \E th \in Threads : HandlerStep(th)
             \/ FlushStep \/ PeriodicFlush \/ FinalFlush
    BY <2>1, TableStep, TypeInvStep, ActiveStep, LockStep DEF IInv
  <2>2. CASE \/ Tick \/ InstallHandler \/ StartTimer \/ PeriodicFlushed \/ StopTimer
             \/ IgnoreSignal \/ ProfileReturned \/ UNCHANGED cpuVars
    BY <2>2, CollectorStep, TypeInvStep, ActiveStep, LockStep DEF IInv
  <2>3. CASE NewProfiler \/ ResetUnknown \/ PythonTraces
    BY <1>1, <2>3, TotalsKeep DEF IInv, CollectorTypeInv
  <2>4. CASE ResetEntry
    BY <1>1, <2>4, ResetKeeps DEF IInv, CollectorTypeInv
  <2> QED
    BY <2>1, <2>2, <2>3, <2>4 DEF CpuNext, CollectStep
<1> QED
  BY <1>1, <1>2

LEMMA InitProfile == CpuInit => ProfileInv
<1> SUFFICES ASSUME CpuInit PROVE ProfileInv
  OBVIOUS
<1>1. IInv
  BY InitTypeInv, InitActive, InitLock DEF CpuInit, IInv
<1> QED
  BY <1>1, InitCollectorType, InitKernel, InitQuiet DEF ProfileInv

(***************************************************************************)
(* If the delay before the last flush outlasts the handlers, as            *)
(* profiler.cc:319 assumes, active_updates counts the updaters at every    *)
(* instant of every profile, resets included: no later Extract can wait    *)
(* for a count that no handler will bring back to zero.                    *)
(***************************************************************************)
THEOREM ProfilesStayExact ==
  ASSUME ~ LateHandlers
  PROVE  CpuSpec => []ActiveUpdatesExact
<1>1. ProfileInv /\ [CpuNext]_cpuVars => ProfileInv'
  BY ProfileStep
<1>2. ProfileInv => ActiveUpdatesExact
  BY DEF ProfileInv, IInv
<1> QED
  BY <1>1, <1>2, InitProfile, PTL DEF CpuSpec

(***************************************************************************)
(* Under the same assumption what the multiset promises on its own it also *)
(* keeps from one profile to the next: the reset of the static table never *)
(* takes an entry from its owner nor clears one that is being read.        *)
(***************************************************************************)
THEOREM ResetsAreSafe ==
  ASSUME ~ LateHandlers
  PROVE  CpuSpec => [](LockedByOne /\ NoTornAccess)
<1>1. ProfileInv /\ [CpuNext]_cpuVars => ProfileInv'
  BY ProfileStep
<1>2. ProfileInv => LockedByOne /\ NoTornAccess
  BY LockHasOneOwner, ReservedIsUnread DEF ProfileInv
<1> QED
  BY <1>1, <1>2, InitProfile, PTL DEF CpuSpec

-----------------------------------------------------------------------------
(***************************************************************************)
(* What a profile accounts for.  Every Handle call of it is on its way to  *)
(* the table, in the table, on its way out of it, aggregated, or rejected; *)
(* the rejected ones add up to the unknown count.  Only samples without    *)
(* frames leave the table for nowhere.  No variable says how many samples  *)
(* of a trace were rejected, so that the invariant says that there are     *)
(* such numbers.                                                           *)
(***************************************************************************)

\* Handlers whose sample is not in the table yet.
Adding(t) == {th \in Threads : Operation(th) = "adding" /\ trace[th] = t}

\* The samples of t on their way, in the table and out of it.
Held(t) == aggregated[t] + InFlight(t) + PendingSamples(t) + Cardinality(Adding(t))

Balanced(rejected) ==
  \A t \in Samples :
    /\ Held(t) + rejected[t] <= sampled[t]
    /\ t # <<>> => Held(t) + rejected[t] = sampled[t]

\* Nothing but samples is counted.
SamplesOnly ==
  \A t \in Traces \ Samples : aggregated[t] + InFlight(t) = 0 /\ PendingSamples(t) = 0

SampledInv ==
  /\ \E rejected \in [Samples -> Nat] :
       SumFunctionOnSet(rejected, Samples) = unknown /\ Balanced(rejected)
  /\ SamplesOnly

\* What Reset has cleared by the time signals are handled.
FreshInv ==
  /\ cpc = "memset" => \A s \in Slots : s < rloc => count[s] = 0
  /\ cpc \in {"action", "start"} => unknown = 0 /\ \A s \in Slots : count[s] = 0
  /\ cpc \in {"memset", "action", "start"} =>
       /\ \A t \in Traces : aggregated[t] = 0
       /\ \A t \in Samples : sampled[t] = 0

\* The last flush leaves nothing behind it.
FlushedInv ==
  cpc = "lastflush" => \A s \in Slots : xpc = "idle" \/ s < xloc => count[s] = 0

\* TraceMultiset::Add only ever adds.
AggregatedInv == \A t \in Traces : aggregated[t] >= 0

\* Signals are handled, and the table is flushed.
Collecting == cpc \in {"sleep", "flush", "ignore", "drain", "lastflush"}

AccountInv ==
  /\ BagInv /\ FreshInv /\ FlushedInv /\ AggregatedInv
  /\ Collecting => SampledInv
  /\ ProfileAccountsForSamples

-----------------------------------------------------------------------------
(* Data: the samples held, when the bag changes. *)

LEMMA HeldTypes ==
  ASSUME IInv, BagInv, NEW t \in Traces
  PROVE  /\ aggregated[t] + InFlight(t) \in Int
         /\ PendingSamples(t) \in Nat
         /\ IsFiniteSet(Adding(t)) /\ Cardinality(Adding(t)) \in Nat
<1>1. aggregated[t] \in Int /\ InFlight(t) \in Int
  BY DEF IInv, TypeInv, TypeOK, InFlight
<1>2. IsFiniteSet(CountedSamples(t))
  BY DEF BagInv, CountedFinite
<1>3. IsFiniteSet(Adding(t))
  BY ThreadsAssumption, FS_Subset DEF Adding
<1> QED
  BY <1>1, <1>2, <1>3, FS_CardinalityType DEF PendingSamples

\* The same in the next state.
LEMMA HeldTypesNext ==
  ASSUME IInv', BagInv', NEW t \in Traces
  PROVE  /\ (aggregated[t] + InFlight(t))' \in Int
         /\ PendingSamples(t)' \in Nat
         /\ IsFiniteSet(Adding(t)') /\ Cardinality(Adding(t)') \in Nat
<1>1. aggregated'[t] \in Int /\ InFlight(t)' \in Int
  BY DEF IInv, TypeInv, TypeOK, InFlight
<1>2. IsFiniteSet(CountedSamples(t)')
  BY DEF BagInv, CountedFinite, Traces
<1>3. IsFiniteSet(Adding(t)')
  BY ThreadsAssumption, FS_Subset DEF Adding
<1>4. Cardinality(Adding(t))' = Cardinality(Adding(t)')
  OBVIOUS
<1> QED
  BY <1>1, <1>2, <1>3, <1>4, FS_CardinalityType DEF PendingSamples

\* One handler moves.
LEMMA AddingMoves ==
  ASSUME NEW th \in Threads, NEW t,
         \A x \in Threads \ {th} : Operation(x)' = Operation(x) /\ trace'[x] = trace[x]
  PROVE  Cardinality(Adding(t)') =
           Cardinality(Adding(t))
             + (IF Operation(th)' = "adding" /\ trace'[th] = t THEN 1 ELSE 0)
             - (IF Operation(th) = "adding" /\ trace[th] = t THEN 1 ELSE 0)
<1> DEFINE others == Adding(t) \ {th}
<1>1. IsFiniteSet(Adding(t)) /\ IsFiniteSet(others)
  BY ThreadsAssumption, FS_Subset DEF Adding
<1>2. Cardinality(others) \in Nat
  BY <1>1, FS_CardinalityType
<1>3. Adding(t) = IF Operation(th) = "adding" /\ trace[th] = t THEN others \cup {th}
                                                              ELSE others
  BY DEF Adding
<1>4. Adding(t)' = IF Operation(th)' = "adding" /\ trace'[th] = t THEN others \cup {th}
                                                                 ELSE others
  BY DEF Adding
<1>5. th \notin others
  OBVIOUS
<1> HIDE DEF others
<1>6. Cardinality(others \cup {th}) = Cardinality(others) + 1
  BY <1>1, <1>5, FS_AddElement
<1>7. Cardinality(Adding(t)) = Cardinality(others)
        + (IF Operation(th) = "adding" /\ trace[th] = t THEN 1 ELSE 0)
  BY <1>2, <1>3, <1>6
<1>8. Cardinality(Adding(t)') = Cardinality(others)
        + (IF Operation(th)' = "adding" /\ trace'[th] = t THEN 1 ELSE 0)
  BY <1>2, <1>4, <1>6
<1> QED
  BY <1>2, <1>7, <1>8

\* Equations of the mapped functions, value by value.
LEMMA BagPointwise ==
  /\ UNCHANGED [t \in Traces |-> PendingSamples(t)] =>
       \A t \in Traces : PendingSamples(t)' = PendingSamples(t)
  /\ UNCHANGED [t \in Traces |-> aggregated[t] + InFlight(t)] =>
       \A t \in Traces : (aggregated[t] + InFlight(t))' = aggregated[t] + InFlight(t)
  /\ UNCHANGED [th \in Threads |-> Operation(th)] =>
       \A th \in Threads : Operation(th)' = Operation(th)
<1>1. ASSUME UNCHANGED [t \in Traces |-> PendingSamples(t)], NEW t \in Traces
      PROVE  PendingSamples(t)' = PendingSamples(t)
  <2>1. [u \in Traces |-> PendingSamples(u)][t] = PendingSamples(t)
    OBVIOUS
  <2>2. [u \in Traces |-> PendingSamples(u)]'[t] = PendingSamples(t)'
    BY DEF Traces
  <2> QED
    BY <1>1, <2>1, <2>2
<1>2. ASSUME UNCHANGED [t \in Traces |-> aggregated[t] + InFlight(t)], NEW t \in Traces
      PROVE  (aggregated[t] + InFlight(t))' = aggregated[t] + InFlight(t)
  <2>1. [u \in Traces |-> aggregated[u] + InFlight(u)][t] = aggregated[t] + InFlight(t)
    OBVIOUS
  <2>2. [u \in Traces |-> aggregated[u] + InFlight(u)]'[t] = (aggregated[t] + InFlight(t))'
    BY DEF Traces
  <2> QED
    BY <1>2, <2>1, <2>2
<1>3. ASSUME UNCHANGED [th \in Threads |-> Operation(th)], NEW th \in Threads
      PROVE  Operation(th)' = Operation(th)
  <2>1. [u \in Threads |-> Operation(u)][th] = Operation(th)
    OBVIOUS
  <2>2. [u \in Threads |-> Operation(u)]'[th] = Operation(th)'
    OBVIOUS
  <2> QED
    BY <1>3, <2>1, <2>2
<1> QED
  BY <1>1, <1>2, <1>3

\* One handler goes from one operation to another.
LEMMA OperationPointwise ==
  ASSUME NEW th \in Threads, NEW o, NEW u, trace \in [Threads -> Traces],
         [x \in Threads |-> Operation(x)]' = [[x \in Threads |-> Operation(x)] EXCEPT ![th] = o],
         trace' = [trace EXCEPT ![th] = u]
  PROVE  /\ Operation(th)' = o /\ trace'[th] = u
         /\ \A x \in Threads \ {th} : Operation(x)' = Operation(x) /\ trace'[x] = trace[x]
<1>1. \A x \in Threads : Operation(x)' = IF x = th THEN o ELSE Operation(x)
  <2> SUFFICES ASSUME NEW x \in Threads
               PROVE  Operation(x)' = IF x = th THEN o ELSE Operation(x)
    OBVIOUS
  <2>1. [y \in Threads |-> Operation(y)]'[x] = Operation(x)'
    OBVIOUS
  <2>2. [[y \in Threads |-> Operation(y)] EXCEPT ![th] = o][x]
          = IF x = th THEN o ELSE Operation(x)
    OBVIOUS
  <2> QED
    BY <2>1, <2>2
<1> QED
  BY <1>1

\* A sample that a handler starts to add is held.
LEMMA BeginHolds ==
  ASSUME IInv, IInv', BagInv, BagInv', NEW th \in Threads, NEW u \in Samples,
         Bag!Begin(th, u)
  PROVE  /\ \A t \in Traces : Held(t)' = Held(t) + (IF t = u THEN 1 ELSE 0)
         /\ SamplesOnly => SamplesOnly'
         /\ unknown' = unknown
<1>1. \A t \in Traces : /\ PendingSamples(t)' = PendingSamples(t)
                        /\ (aggregated[t] + InFlight(t))' = aggregated[t] + InFlight(t)
  BY BagPointwise DEF Bag!Begin
<1>2. /\ Operation(th) = "idle" /\ Operation(th)' = "adding" /\ trace'[th] = u
      /\ \A x \in Threads \ {th} : Operation(x)' = Operation(x) /\ trace'[x] = trace[x]
  BY OperationPointwise DEF Bag!Begin, IInv, TypeInv, TypeOK
<1>3. ASSUME NEW t \in Traces PROVE Held(t)' = Held(t) + (IF t = u THEN 1 ELSE 0)
  <2>1. Cardinality(Adding(t)') = Cardinality(Adding(t)) + (IF t = u THEN 1 ELSE 0)
    <3>1. Cardinality(Adding(t)) \in Nat
      BY HeldTypes
    <3> QED
      BY <1>2, <3>1, AddingMoves
  <2> QED
    BY <1>1, <2>1, HeldTypes DEF Held
<1> QED
  BY <1>1, <1>3 DEF Bag!Begin, SamplesOnly, Traces

\* A recorded sample goes from the handler to the table, and is held as before.
LEMMA RecordHolds ==
  ASSUME IInv, IInv', BagInv, BagInv', NEW th \in Threads, Bag!Record(th)
  PROVE  /\ \A t \in Traces : Held(t)' = Held(t)
         /\ SamplesOnly => SamplesOnly'
         /\ unknown' = unknown
<1>1. /\ Operation(th) = "adding" /\ unknown' = unknown
      /\ UNCHANGED [t \in Traces |-> aggregated[t] + InFlight(t)]
      /\ [t \in Traces |-> PendingSamples(t)]' =
           [[t \in Traces |-> PendingSamples(t)] EXCEPT ![trace[th]] = @ + 1]
  BY DEF Bag!Record
<1>2. trace \in [Threads -> Traces] /\ trace[th] \in Samples
  BY <1>1 DEF IInv, TypeInv, TypeOK, LocalsInv, Operation
<1>3. /\ Operation(th)' # "adding"
      /\ \A x \in Threads \ {th} : Operation(x)' = Operation(x) /\ trace'[x] = trace[x]
  <2>1. CASE Bag!Finish(th)
    BY <1>2, <2>1, OperationPointwise DEF Bag!Finish
  <2>2. CASE /\ [u \in Threads |-> Operation(u)]' =
                  [[u \in Threads |-> Operation(u)] EXCEPT ![th] = "added"]
             /\ UNCHANGED trace
    <3>1. trace' = [trace EXCEPT ![th] = trace[th]]
      BY <1>2, <2>2
    <3> QED
      BY <1>2, <2>2, <3>1, OperationPointwise
  <2> QED
    BY <2>1, <2>2 DEF Bag!Record
<1>4. ASSUME NEW t \in Traces
      PROVE  PendingSamples(t)' = PendingSamples(t) + (IF t = trace[th] THEN 1 ELSE 0)
  <2>1. [u \in Traces |-> PendingSamples(u)]'[t] = PendingSamples(t)'
    BY DEF Traces
  <2>2. [[u \in Traces |-> PendingSamples(u)] EXCEPT ![trace[th]] = @ + 1][t]
          = PendingSamples(t) + (IF t = trace[th] THEN 1 ELSE 0)
    BY HeldTypes
  <2> QED
    BY <1>1, <2>1, <2>2
<1>5. ASSUME NEW t \in Traces
      PROVE  Cardinality(Adding(t)') = Cardinality(Adding(t))
                                         - (IF t = trace[th] THEN 1 ELSE 0)
  <2>1. Cardinality(Adding(t)) \in Nat
    BY HeldTypes
  <2> QED
    BY <1>1, <1>3, <2>1, AddingMoves
<1>6. \A t \in Traces : (aggregated[t] + InFlight(t))' = aggregated[t] + InFlight(t)
  BY <1>1, BagPointwise
<1>7. \A t \in Traces : Held(t)' = Held(t)
  BY <1>4, <1>5, <1>6, HeldTypes DEF Held
<1>8. SamplesOnly => SamplesOnly'
  BY <1>2, <1>4, <1>6 DEF SamplesOnly, Traces
<1> QED
  BY <1>1, <1>7, <1>8

\* Add returns true after its sample was recorded.
LEMMA ReturnHolds ==
  ASSUME IInv, IInv', BagInv, BagInv', NEW th \in Threads, Bag!ReturnTrue(th)
  PROVE  /\ \A t \in Traces : Held(t)' = Held(t)
         /\ SamplesOnly => SamplesOnly'
         /\ unknown' = unknown
<1>1. Operation(th) = "added" /\ Bag!Finish(th) /\ unknown' = unknown
  BY DEF Bag!ReturnTrue
<1>2. trace \in [Threads -> Traces]
  BY DEF IInv, TypeInv, TypeOK
<1>3. /\ Operation(th)' = "idle"
      /\ \A x \in Threads \ {th} : Operation(x)' = Operation(x) /\ trace'[x] = trace[x]
  BY <1>1, <1>2, OperationPointwise DEF Bag!Finish
<1>4. \A t \in Traces : /\ PendingSamples(t)' = PendingSamples(t)
                        /\ (aggregated[t] + InFlight(t))' = aggregated[t] + InFlight(t)
  BY BagPointwise DEF Bag!ReturnTrue
<1>5. ASSUME NEW t \in Traces PROVE Cardinality(Adding(t)') = Cardinality(Adding(t))
  <2>1. Cardinality(Adding(t)) \in Nat
    BY HeldTypes
  <2> QED
    BY <1>1, <1>3, <2>1, AddingMoves
<1>6. \A t \in Traces : Held(t)' = Held(t)
  BY <1>4, <1>5 DEF Held
<1> QED
  BY <1>1, <1>4, <1>6 DEF SamplesOnly, Traces

\* A rejected sample is held no longer, and is unknown instead.
LEMMA RejectDrops ==
  ASSUME IInv, IInv', BagInv, BagInv', NEW th \in Threads, Bag!Reject(th)
  PROVE  /\ \A t \in Traces : Held(t)' = Held(t) - (IF t = trace[th] THEN 1 ELSE 0)
         /\ SamplesOnly => SamplesOnly'
         /\ unknown' = unknown + 1
         /\ trace[th] \in Samples
<1>1. Operation(th) = "adding" /\ Bag!Finish(th) /\ unknown' = unknown + 1
  BY DEF Bag!Reject
<1>2. trace \in [Threads -> Traces] /\ trace[th] \in Samples
  BY <1>1 DEF IInv, TypeInv, TypeOK, LocalsInv, Operation
<1>3. /\ Operation(th)' = "idle"
      /\ \A x \in Threads \ {th} : Operation(x)' = Operation(x) /\ trace'[x] = trace[x]
  BY <1>1, <1>2, OperationPointwise DEF Bag!Finish
<1>4. \A t \in Traces : /\ PendingSamples(t)' = PendingSamples(t)
                        /\ (aggregated[t] + InFlight(t))' = aggregated[t] + InFlight(t)
  BY BagPointwise DEF Bag!Reject
<1>5. ASSUME NEW t \in Traces
      PROVE  Held(t)' = Held(t) - (IF t = trace[th] THEN 1 ELSE 0)
  <2>1. Cardinality(Adding(t)) \in Nat
    BY HeldTypes
  <2>2. Cardinality(Adding(t)') = Cardinality(Adding(t)) - (IF t = trace[th] THEN 1 ELSE 0)
    BY <1>1, <1>3, <2>1, AddingMoves
  <2> QED
    BY <1>4, <2>2, HeldTypes DEF Held
<1> QED
  BY <1>1, <1>2, <1>4, <1>5 DEF SamplesOnly, Traces

\* A harvest moves samples out of the table; those without frames are dropped.
LEMMA HarvestHolds ==
  ASSUME IInv, IInv', BagInv, BagInv', NEW u \in Traces, NEW n \in 1 .. PendingSamples(u),
         Bag!Harvest(u, n)
  PROVE  /\ \A t \in Traces : /\ Held(t)' <= Held(t)
                              /\ t # <<>> => Held(t)' = Held(t)
         /\ SamplesOnly => SamplesOnly'
         /\ unknown' = unknown
<1> DEFINE out == [t \in Traces |-> aggregated[t] + InFlight(t)]
<1>1. /\ unknown' = unknown /\ trace' = trace
      /\ \A x \in Threads : Operation(x)' = Operation(x)
      /\ [t \in Traces |-> PendingSamples(t)]' =
           [[t \in Traces |-> PendingSamples(t)] EXCEPT ![u] = @ - n]
      /\ out' = IF u = <<>> THEN out ELSE [out EXCEPT ![u] = @ + n]
  BY BagPointwise DEF Bag!Harvest
<1>2. n \in Nat /\ PendingSamples(u) \in Nat /\ n <= PendingSamples(u) /\ n > 0
  BY HeldTypes
<1>3. ASSUME NEW t \in Traces
      PROVE  PendingSamples(t)' = PendingSamples(t) - (IF t = u THEN n ELSE 0)
  <2>1. [v \in Traces |-> PendingSamples(v)]'[t] = PendingSamples(t)'
    BY DEF Traces
  <2>2. [[v \in Traces |-> PendingSamples(v)] EXCEPT ![u] = @ - n][t]
          = PendingSamples(t) - (IF t = u THEN n ELSE 0)
    BY HeldTypes
  <2> QED
    BY <1>1, <2>1, <2>2
<1>4. ASSUME NEW t \in Traces
      PROVE  (aggregated[t] + InFlight(t))'
               = aggregated[t] + InFlight(t) + (IF t = u /\ u # <<>> THEN n ELSE 0)
  <2>1. out[t] = aggregated[t] + InFlight(t) /\ out[t] \in Int
    BY HeldTypes
  <2>2. out'[t] = (aggregated[t] + InFlight(t))'
    BY DEF Traces
  <2>3. out \in [Traces -> Int]
    BY HeldTypes
  <2> HIDE DEF out
  <2>4. out'[t] = out[t] + (IF t = u /\ u # <<>> THEN n ELSE 0)
    BY <1>1, <1>2, <2>1, <2>3
  <2> QED
    BY <2>1, <2>2, <2>4
<1>5. ASSUME NEW t PROVE Cardinality(Adding(t)') = Cardinality(Adding(t))
  <2>1. Adding(t)' = Adding(t)
    BY <1>1 DEF Adding
  <2> QED
    BY <2>1
<1>6. ASSUME NEW t \in Traces PROVE Held(t)' <= Held(t) /\ (t # <<>> => Held(t)' = Held(t))
  BY <1>2, <1>3, <1>4, <1>5, HeldTypes DEF Held
<1>7. SamplesOnly => SamplesOnly'
  <2> SUFFICES ASSUME SamplesOnly, NEW t \in Traces \ Samples
               PROVE  (aggregated[t] + InFlight(t))' = 0 /\ PendingSamples(t)' = 0
    BY DEF SamplesOnly, Traces
  <2>1. aggregated[t] + InFlight(t) = 0 /\ PendingSamples(t) = 0
    BY DEF SamplesOnly
  <2>2. t # u
    BY <1>2, <2>1
  <2> QED
    BY <1>3, <1>4, <2>1, <2>2
<1> QED
  BY <1>1, <1>6, <1>7

\* A step that the bag does not notice.
LEMMA SilentHolds ==
  ASSUME UNCHANGED Bag!vars
  PROVE  /\ \A t \in Traces : Held(t)' = Held(t)
         /\ SamplesOnly => SamplesOnly'
         /\ unknown' = unknown
<1>1. /\ \A t \in Traces : /\ PendingSamples(t)' = PendingSamples(t)
                           /\ (aggregated[t] + InFlight(t))' = aggregated[t] + InFlight(t)
      /\ \A x \in Threads : Operation(x)' = Operation(x)
      /\ trace' = trace /\ unknown' = unknown
  BY BagPointwise DEF Bag!vars
<1>2. ASSUME NEW t \in Traces PROVE Held(t)' = Held(t)
  <2>1. Adding(t)' = Adding(t)
    BY <1>1 DEF Adding
  <2> QED
    BY <1>1, <2>1 DEF Held
<1> QED
  BY <1>1, <1>2 DEF SamplesOnly, Traces

-----------------------------------------------------------------------------
(* The balance of the samples while they are taken. *)

LEMMA HeldIsCount ==
  ASSUME IInv, BagInv, NEW t \in Traces PROVE Held(t) \in Int
BY HeldTypes DEF Held

LEMMA HeldIsCountNext ==
  ASSUME IInv', BagInv', NEW t \in Traces PROVE Held(t)' \in Int
<1>1. Held(t)' = (aggregated[t] + InFlight(t))' + PendingSamples(t)' + Cardinality(Adding(t)')
  BY DEF Held
<1> QED
  BY <1>1, HeldTypesNext

\* A step in which no sample is taken or rejected.
LEMMA BalanceKept ==
  ASSUME IInv, IInv', BagInv, BagInv', sampled \in [Samples -> Nat], SampledInv,
         \A t \in Traces : Held(t)' <= Held(t) /\ (t # <<>> => Held(t)' = Held(t)),
         SamplesOnly', unknown' = unknown, sampled' = sampled
  PROVE  SampledInv'
<1>1. PICK rejected \in [Samples -> Nat] :
        SumFunctionOnSet(rejected, Samples) = unknown /\ Balanced(rejected)
  BY DEF SampledInv
<1>2. Balanced(rejected)'
  <2> SUFFICES ASSUME NEW t \in Samples
               PROVE  /\ Held(t)' + rejected[t] <= sampled'[t]
                      /\ t # <<>> => Held(t)' + rejected[t] = sampled'[t]
    BY DEF Balanced
  <2>1. t \in Traces /\ Held(t) \in Int /\ Held(t)' \in Int
    BY SamplesAssumption, HeldIsCount, HeldIsCountNext
  <2>2. /\ Held(t) + rejected[t] <= sampled[t]
        /\ t # <<>> => Held(t) + rejected[t] = sampled[t]
    BY <1>1 DEF Balanced
  <2>3. rejected[t] \in Nat /\ sampled[t] \in Nat
    OBVIOUS
  <2> QED
    BY <2>1, <2>2, <2>3
<1> QED
  BY <1>1, <1>2 DEF SampledInv

\* A signal is handled (profiler.cc:134-157).
LEMMA BalanceDeliver ==
  ASSUME IInv, IInv', BagInv, BagInv', sampled \in [Samples -> Nat], SampledInv,
         NEW th \in Threads, NEW u \in Samples, Deliver(th, u)
  PROVE  SampledInv'
<1>1. Bag!Begin(th, u)
  BY HandleBegins DEF Deliver
<1>2. /\ \A t \in Traces : Held(t)' = Held(t) + (IF t = u THEN 1 ELSE 0)
      /\ SamplesOnly' /\ unknown' = unknown
  BY <1>1, BeginHolds DEF SampledInv
<1>3. PICK rejected \in [Samples -> Nat] :
        SumFunctionOnSet(rejected, Samples) = unknown /\ Balanced(rejected)
  BY DEF SampledInv
<1>4. Balanced(rejected)'
  <2> SUFFICES ASSUME NEW t \in Samples
               PROVE  /\ Held(t)' + rejected[t] <= sampled'[t]
                      /\ t # <<>> => Held(t)' + rejected[t] = sampled'[t]
    BY DEF Balanced
  <2>1. t \in Traces /\ Held(t) \in Int
    BY SamplesAssumption, HeldIsCount
  <2>2. /\ Held(t) + rejected[t] <= sampled[t]
        /\ t # <<>> => Held(t) + rejected[t] = sampled[t]
    BY <1>3 DEF Balanced
  <2>3. /\ rejected[t] \in Nat /\ sampled[t] \in Nat
        /\ sampled'[t] = sampled[t] + (IF t = u THEN 1 ELSE 0)
    <3>1. sampled' = [sampled EXCEPT ![u] = @ + 1]
      BY DEF Deliver
    <3>2. rejected[t] \in Nat /\ sampled[t] \in Nat
      OBVIOUS
    <3>3. CASE t = u
      BY <3>1, <3>2, <3>3
    <3>4. CASE t # u
      BY <3>1, <3>2, <3>4
    <3> QED
      BY <3>2, <3>3, <3>4
  <2>4. Held(t)' = Held(t) + (IF t = u THEN 1 ELSE 0)
    BY <1>2, <2>1
  <2> QED
    BY <2>1, <2>2, <2>3, <2>4
<1> QED
  BY <1>2, <1>3, <1>4 DEF SampledInv

\* A handler finds no room (profiler.cc:155-157).
LEMMA BalanceReject ==
  ASSUME IInv, IInv', BagInv, BagInv', sampled \in [Samples -> Nat], SampledInv,
         NEW th \in Threads, Bag!Reject(th), sampled' = sampled
  PROVE  SampledInv'
<1>1. /\ \A t \in Traces : Held(t)' = Held(t) - (IF t = trace[th] THEN 1 ELSE 0)
      /\ SamplesOnly' /\ unknown' = unknown + 1 /\ trace[th] \in Samples
  BY RejectDrops DEF SampledInv
<1>2. PICK u \in Samples : u = trace[th]
  BY <1>1
<1>3. PICK rejected \in [Samples -> Nat] :
        SumFunctionOnSet(rejected, Samples) = unknown /\ Balanced(rejected)
  BY DEF SampledInv
<1>4. PICK more : more = [rejected EXCEPT ![u] = @ + 1]
  OBVIOUS
<1>5. /\ more \in [Samples -> Nat] /\ more[u] = rejected[u] + 1
      /\ \A t \in Samples \ {u} : more[t] = rejected[t]
  BY <1>4
<1>6. SumFunctionOnSet(more, Samples) = unknown'
  <2>1. Sums(rejected, Samples) /\ Sums(more, Samples)
    BY <1>5, SampledAssumption DEF Sums
  <2>2. SumFunctionOnSet(more, Samples)
          = SumFunctionOnSet(rejected, Samples) - rejected[u] + more[u]
    BY <1>5, <2>1, SumUpdate
  <2>3. unknown \in Nat /\ rejected[u] \in Nat
    BY DEF IInv, TypeInv, TypeOK
  <2> QED
    BY <1>1, <1>3, <1>5, <2>2, <2>3
<1>7. Balanced(more)'
  <2> SUFFICES ASSUME NEW t \in Samples
               PROVE  /\ Held(t)' + more[t] <= sampled'[t]
                      /\ t # <<>> => Held(t)' + more[t] = sampled'[t]
    BY DEF Balanced
  <2>1. t \in Traces /\ Held(t) \in Int
    BY SamplesAssumption, HeldIsCount
  <2>2. /\ Held(t) + rejected[t] <= sampled[t]
        /\ t # <<>> => Held(t) + rejected[t] = sampled[t]
    BY <1>3 DEF Balanced
  <2>3. /\ rejected[t] \in Nat /\ sampled[t] \in Nat
        /\ more[t] = rejected[t] + (IF t = u THEN 1 ELSE 0)
    BY <1>5
  <2>4. Held(t)' = Held(t) - (IF t = u THEN 1 ELSE 0)
    BY <1>1, <1>2, <2>1
  <2> QED
    BY <2>1, <2>2, <2>3, <2>4
<1> QED
  BY <1>1, <1>5, <1>6, <1>7 DEF SampledInv

\* What the handlers and the flushes do with the samples keeps the balance.
LEMMA BalanceHandler ==
  ASSUME IInv, IInv', BagInv, BagInv', sampled \in [Samples -> Nat], SampledInv,
         NEW th \in Threads, AddStep(th), sampled' = sampled
  PROVE  SampledInv'
<1>1. CASE Bag!Reject(th)
  BY <1>1, BalanceReject
<1>2. CASE Bag!Record(th) \/ Bag!ReturnTrue(th) \/ UNCHANGED Bag!vars
  <2>1. /\ \A t \in Traces : Held(t)' = Held(t)
        /\ SamplesOnly' /\ unknown' = unknown
    BY <1>2, RecordHolds, ReturnHolds, SilentHolds DEF SampledInv
  <2>2. \A t \in Traces : Held(t)' <= Held(t) /\ (t # <<>> => Held(t)' = Held(t))
    BY <2>1, HeldIsCount
  <2> QED
    BY <2>1, <2>2, BalanceKept
<1> QED
  BY <1>1, <1>2, AddRefines

LEMMA BalanceFlush ==
  ASSUME IInv, IInv', BagInv, BagInv', sampled \in [Samples -> Nat], SampledInv,
         HarvestStart \/ ExtractStep, sampled' = sampled
  PROVE  SampledInv'
<1>1. CASE \E t \in Traces : \E n \in 1 .. PendingSamples(t) : Bag!Harvest(t, n)
  <2>1. PICK t \in Traces : \E n \in 1 .. PendingSamples(t) : Bag!Harvest(t, n)
    BY <1>1
  <2>2. PICK n \in 1 .. PendingSamples(t) : Bag!Harvest(t, n)
    BY <2>1
  <2> QED
    BY <2>2, HarvestHolds, BalanceKept DEF SampledInv
<1>2. CASE UNCHANGED Bag!vars
  <2>1. /\ \A t \in Traces : Held(t)' = Held(t)
        /\ SamplesOnly' /\ unknown' = unknown
    BY <1>2, SilentHolds DEF SampledInv
  <2>2. \A t \in Traces : Held(t)' <= Held(t) /\ (t # <<>> => Held(t)' = Held(t))
    BY <2>1, HeldIsCount
  <2> QED
    BY <2>1, <2>2, BalanceKept
<1> QED
  BY <1>1, <1>2, HarvestRefines

-----------------------------------------------------------------------------
(* Before the first sample, and after the last. *)

\* When no handler and no extraction runs over an empty table, all is aggregated.
LEMMA NothingHeld ==
  ASSUME \A s \in Slots : count[s] = 0, \A th \in Threads : pc[th] = "idle", xpc = "idle",
         TypeInv, NEW t \in Traces
  PROVE  /\ PendingSamples(t) = 0 /\ InFlight(t) = 0
         /\ Held(t) = aggregated[t]
<1>1. PendingSamples(t) = 0
  <2>1. \A s \in Slots : 1 .. count[s] = {}
    OBVIOUS
  <2>2. CountedSamples(t) = {}
    BY <2>1, CountedDef
  <2> QED
    BY <2>2, FS_EmptySet DEF PendingSamples
<1>2. InFlight(t) = 0
  BY DEF InFlight
<1>3. Cardinality(Adding(t)) = 0
  <2>1. Adding(t) = {}
    BY DEF Adding, Operation
  <2> QED
    BY <2>1, FS_EmptySet
<1>4. aggregated[t] \in Int
  BY DEF TypeInv, TypeOK
<1> QED
  BY <1>1, <1>2, <1>3, <1>4 DEF Held

\* The samples of a profile that has handled no signal balance.
LEMMA FreshBalances ==
  ASSUME TypeInv, QuietInv, FreshInv, cpc = "start"
  PROVE  SampledInv
<1>1. /\ \A s \in Slots : count[s] = 0
      /\ \A th \in Threads : pc[th] = "idle"
      /\ xpc = "idle" /\ unknown = 0
      /\ \A t \in Traces : aggregated[t] = 0
      /\ \A t \in Samples : sampled[t] = 0
  BY DEF QuietInv, FreshInv
<1>2. \A t \in Traces : PendingSamples(t) = 0 /\ InFlight(t) = 0 /\ Held(t) = 0
  BY <1>1, NothingHeld
<1>3. PICK none : none = [t \in Samples |-> 0]
  OBVIOUS
<1>4. none \in [Samples -> Nat] /\ \A t \in Samples : none[t] = 0
  BY <1>3
<1>5. SumFunctionOnSet(none, Samples) = 0
  BY <1>4, SumOfZeros, SampledAssumption
<1>6. Balanced(none)
  BY <1>1, <1>2, <1>4, SamplesAssumption DEF Balanced
<1>7. SamplesOnly
  BY <1>1, <1>2 DEF SamplesOnly
<1> QED
  BY <1>1, <1>4, <1>5, <1>6, <1>7 DEF SampledInv

LEMMA UnknownIsTrace == UnknownTrace \in Traces
<1>1. 1 \in 0 .. MaxFrames
  BY SizeAssumption, CollectorAssumption
<1>2. UnknownTrace \in [1 .. 1 -> Frames \cup {NullFrame}]
  BY DEF UnknownTrace
<1> QED
  BY <1>1, <1>2 DEF Traces

\* The report of samples that balance, when nothing is held any more
\* (profiler.cc:195-202).
LEMMA BalancedReport ==
  ASSUME IInv, sampled \in [Samples -> Nat], SampledInv, PythonTraces,
         \A t \in Traces : Held(t) = aggregated[t] /\ InFlight(t) = 0,
         \A t \in Samples : aggregated[t] >= 0
  PROVE  ProfileAccountsForSamples'
<1> DEFINE reported == aggregated'
           total(f, S) == SumFunctionOnSet(f, S)
<1>1. PICK rejected \in [Samples -> Nat] :
        total(rejected, Samples) = unknown /\ Balanced(rejected)
  BY DEF SampledInv
<1>2. /\ aggregated \in [Traces -> Int] /\ unknown \in Nat
      /\ UnknownTrace \in Traces \ Samples /\ Samples \subseteq Traces
      /\ IsFiniteSet(Samples)
  BY UnknownIsTrace, SampledAssumption, SamplesAssumption DEF IInv, TypeInv, TypeOK
<1>3. aggregated[UnknownTrace] = 0
  BY <1>2 DEF SampledInv, SamplesOnly
<1>4. /\ \A t \in Samples : reported[t] = aggregated[t]
      /\ reported[UnknownTrace] = unknown
  BY <1>2, <1>3 DEF PythonTraces
<1>5. \A t \in Samples : /\ reported[t] \in Int /\ reported[t] >= 0
                         /\ reported[t] + rejected[t] <= sampled[t]
                         /\ t # <<>> => reported[t] + rejected[t] = sampled[t]
  BY <1>1, <1>2, <1>4 DEF Balanced
<1>6. /\ Sums(rejected, Samples) /\ Sums(sampled, Samples) /\ Sums(reported, Samples)
      /\ Sums(reported, Samples \cup {UnknownTrace})
  <2>1. IsFiniteSet(Samples \cup {UnknownTrace})
    BY <1>2, FS_AddElement
  <2> QED
    BY <1>2, <1>4, <1>5, <2>1 DEF Sums
<1> HIDE DEF reported
<1>7. PICK both : both = [t \in Samples |-> reported[t] + rejected[t]]
  OBVIOUS
<1>8. \A t \in Samples : both[t] = reported[t] + rejected[t]
  BY <1>7
<1>9. total(reported, Samples \cup {UnknownTrace}) = unknown + total(reported, Samples)
  BY <1>2, <1>4, <1>6, SumAdd
<1>10. Sums(both, Samples) /\ total(both, Samples) = total(reported, Samples) + unknown
  BY <1>1, <1>6, <1>8, SumOfSums
<1>11. total(both, Samples) <= total(sampled, Samples)
  <2>1. \A t \in Samples : both[t] <= sampled[t]
    BY <1>5, <1>8
  <2> QED
    BY <1>6, <1>10, <2>1, SumMonotonic
<1>12. total(sampled, Samples \ {<<>>}) <= total(both, Samples)
  <2>1. Sums(both, Samples \ {<<>>}) /\ Sums(sampled, Samples \ {<<>>})
    BY <1>6, <1>10, FS_Subset DEF Sums
  <2>2. \A t \in Samples \ {<<>>} : both[t] = sampled[t]
    BY <1>5, <1>8
  <2>3. total(sampled, Samples \ {<<>>}) = total(both, Samples \ {<<>>})
    BY <2>1, <2>2, SumMonotonic
  <2>4. \A t \in Samples : both[t] >= 0
    BY <1>5, <1>8
  <2>5. total(both, Samples \ {<<>>}) <= total(both, Samples)
    BY <1>10, <2>4, SumWithout
  <2> QED
    BY <2>3, <2>5
<1>13. /\ total(reported, Samples) \in Int /\ total(sampled, Samples) \in Int
       /\ total(sampled, Samples \ {<<>>}) \in Int
  <2>1. Sums(sampled, Samples \ {<<>>})
    BY <1>6, FS_Subset DEF Sums
  <2> QED
    BY <1>6, <2>1, SumType
<1>14. total(reported, Samples \cup {UnknownTrace})
         \in total(sampled, Samples \ {<<>>}) .. total(sampled, Samples)
  <2> HIDE DEF total
  <2> QED
    BY <1>2, <1>9, <1>10, <1>11, <1>12, <1>13
<1>15. \A t \in Samples : reported[t] <= sampled[t]
  BY <1>5
<1>16. sampled' = sampled
  BY DEF PythonTraces
<1> QED
  BY <1>14, <1>15, <1>16 DEF ProfileAccountsForSamples, reported, UnknownTrace

-----------------------------------------------------------------------------
(* Every step of a profile. *)

\* Outside of a profile, and while it resets, is flushed last and is reported, no
\* handler runs and none starts; entries are extracted in flushes only.
LEMMA QuietSteps ==
  ASSUME KernelInv, QuietInv, cpc \notin {"sleep", "flush", "ignore", "drain"}
  PROVE  /\ \A th \in Threads : pc[th] = "idle"
         /\ ~ \E th \in Threads : \E t \in Samples : Deliver(th, t)
         /\ ~ \E th \in Threads : HandlerStep(th)
         /\ cpc # "lastflush" => xpc = "idle" /\ ~ FlushStep
<1>1. \A th \in Threads : pc[th] = "idle"
  BY DEF QuietInv
<1>2. \A th \in Threads : ~ HandlerStep(th)
  BY <1>1 DEF HandlerStep, AddStep, AddEnter, AddLoad, AddReserve, AddReserved,
    AddWrite, AddPublish, AddCompare, AddReload, AddBump, AddBumped, AddLeave,
    CountUnknown, Goto
<1>3. \A th \in Threads : \A t \in Samples : ~ Deliver(th, t)
  BY DEF Deliver, KernelInv
<1>4. cpc # "lastflush" => xpc = "idle" /\ ~ FlushStep
  BY DEF QuietInv, FlushStep, ExtractStep, ExtractLoad, ExtractNum, ExtractLock,
    ExtractCopy, ExtractSpin, ExtractRelease
<1> QED
  BY <1>1, <1>2, <1>3, <1>4

\* Clearing an entry that nobody uses takes its samples out of the table.
LEMMA ResetKeepsBag ==
  ASSUME ProfileInv, ProfileInv', BagInv, ResetEntry
  PROVE  BagInv'
<1>1. /\ \A th \in Threads : pc'[th] = "idle"
      /\ xpc' = "idle"
  BY DEF ResetEntry, ProfileInv, QuietInv, handlerVars, extractVars
<1>2. HandlerBagInv' /\ ExtractBagInv'
  BY <1>1 DEF HandlerBagInv, ExtractBagInv, ExtractorOwns
<1>3. /\ rloc \in Slots /\ count \in [Slots -> Int] /\ count' = [count EXCEPT ![rloc] = 0]
      /\ \A s \in Slots \ {rloc} : EntryTrace(s)' = EntryTrace(s)
  BY ResetTypeInv
  DEF ProfileInv, CollectorTypeInv, CountersInv, TypeInv, TypeOK, ResetEntry, EntryTrace
<1>4. ASSUME NEW t \in Traces PROVE IsFiniteSet(CountedSamples(t)')
  <2>1. CountedSamples(t)' \subseteq CountedSamples(t)
    <3> SUFFICES ASSUME NEW p, p \in CountedSamples(t)' PROVE p \in CountedSamples(t)
      OBVIOUS
    <3>1. PICK s \in Slots : EntryTrace(s)' = t /\ \E k \in 1 .. count'[s] : p = <<s, k>>
      BY CountedDefNext
    <3>2. s # rloc
      BY <1>3, <3>1
    <3> QED
      BY <1>3, <3>1, <3>2, CountedDef
  <2> QED
    BY <2>1, FS_Subset DEF BagInv, CountedFinite
<1> QED
  BY <1>2, <1>4 DEF BagInv, CountedFinite, Traces

LEMMA CpuBagStep ==
  ASSUME ProfileInv, ProfileInv', BagInv, [CpuNext]_cpuVars
  PROVE  BagInv'
<1>1. IInv /\ IInv'
  BY DEF ProfileInv
<1>2. CASE \/ \E th \in Threads : \E t \in Samples : Deliver(th, t)
           \/ \E th \in Threads : HandlerStep(th)
           \/ FlushStep \/ PeriodicFlush \/ FinalFlush
  BY <1>1, <1>2, TableStep, BagInvStep
<1>3. CASE \/ Tick \/ InstallHandler \/ StartTimer \/ PeriodicFlushed \/ StopTimer
           \/ IgnoreSignal \/ ProfileReturned \/ UNCHANGED cpuVars
  BY <1>1, <1>3, CollectorStep, BagInvStep
<1>4. CASE NewProfiler \/ ResetUnknown \/ PythonTraces
  <2>1. UNCHANGED <<count, numFrames, buffer, pc, trace, probe, xpc, xloc, xnum, xcount>>
    BY <1>4 DEF NewProfiler, ResetUnknown, PythonTraces, tableVars, handlerVars, extractVars
  <2>2. \A th \in Threads : EntryTrace(Slot(th))' = EntryTrace(Slot(th))
    BY <2>1 DEF EntryTrace, Slot
  <2>3. \A t : CountedSamples(t)' = CountedSamples(t)
    BY <2>1 DEF CountedSamples, EntryTrace, Slots
  <2> QED
    BY <2>1, <2>2, <2>3
    DEF BagInv, HandlerBagInv, ExtractBagInv, CountedFinite, ExtractorOwns, Traces
<1>5. CASE ResetEntry
  BY <1>5, ResetKeepsBag
<1> QED
  BY <1>2, <1>3, <1>4, <1>5 DEF CpuNext, CollectStep

\* Reset leaves nothing of the profile before (profiler.cc:183-193).
LEMMA FreshStep ==
  ASSUME ProfileInv, FreshInv, [CpuNext]_cpuVars
  PROVE  FreshInv'
<1>1. TypeOK /\ rloc \in 0 .. MaxEntries /\ KernelInv /\ QuietInv
  BY DEF ProfileInv, CollectorTypeInv, CountersInv, TypeInv
<1> USE DEF FreshInv, CollectorGoto
<1>2. CASE \/ Tick \/ StartTimer \/ PeriodicFlushed \/ StopTimer
           \/ IgnoreSignal \/ ProfileReturned \/ UNCHANGED cpuVars
  <2>1. UNCHANGED <<count, unknown, aggregated, sampled, rloc>>
    BY <1>2 DEF Tick, StartTimer, PeriodicFlushed, StopTimer, IgnoreSignal,
      ProfileReturned, cpuVars, collectorVars, vars, tableVars, handlerVars, extractVars
  <2>2. cpc' \in {"memset", "action", "start"} => cpc' = cpc
    BY <1>2 DEF Tick, StartTimer, PeriodicFlushed, StopTimer, IgnoreSignal,
      ProfileReturned, cpuVars, collectorVars
  <2> QED
    BY <2>1, <2>2
<1>3. CASE InstallHandler
  <2>1. /\ cpc = "action" /\ cpc' \in {"start", "memset"} /\ (cpc' = "memset" => rloc' = 0)
        /\ UNCHANGED <<count, unknown, aggregated, sampled>>
    BY <1>3 DEF InstallHandler, vars, tableVars, handlerVars, extractVars
  <2> QED
    BY <2>1
<1>4. CASE NewProfiler
  <2>1. \A s \in Slots : ~ (s < 0)
    BY DEF Slots
  <2>2. /\ cpc' = "memset" /\ rloc' = 0
        /\ aggregated' = [t \in Traces |-> 0] /\ sampled' = [t \in Samples |-> 0]
    BY <1>4 DEF NewProfiler
  <2> QED
    BY <2>1, <2>2
<1>5. CASE ResetEntry
  <2>1. /\ cpc = "memset" /\ cpc' = "memset" /\ rloc' = rloc + 1
        /\ count' = [count EXCEPT ![rloc] = 0] /\ count \in [Slots -> Int]
        /\ UNCHANGED <<aggregated, sampled>>
    BY <1>1, <1>5 DEF ResetEntry, TypeOK, extractVars
  <2>2. ASSUME NEW s \in Slots, s < rloc' PROVE count'[s] = 0
    <3>1. s = rloc \/ s < rloc
      BY <1>1, <2>1, <2>2 DEF Slots
    <3> QED
      BY <2>1, <3>1
  <2> QED
    BY <2>1, <2>2
<1>6. CASE ResetUnknown
  <2>1. /\ cpc = "memset" /\ cpc' = "action" /\ rloc = MaxEntries /\ unknown' = 0
        /\ UNCHANGED <<count, aggregated, sampled>>
    BY <1>6 DEF ResetUnknown, tableVars, extractVars
  <2>2. \A s \in Slots : s < rloc
    BY <2>1, SizeAssumption DEF Slots
  <2> QED
    BY <2>1, <2>2
<1>7. CASE PeriodicFlush \/ FinalFlush \/ PythonTraces
  BY <1>7 DEF PeriodicFlush, FinalFlush, PythonTraces
<1>8. CASE \/ \E th \in Threads : \E t \in Samples : Deliver(th, t)
           \/ \E th \in Threads : HandlerStep(th)
           \/ FlushStep
  <2>1. cpc' = cpc
    BY <1>8 DEF Deliver, HandlerStep, FlushStep, collectorVars
  <2>2. cpc \notin {"memset", "action", "start"}
    BY <1>1, <1>8, QuietSteps
  <2> QED
    BY <2>1, <2>2
<1> QED
  BY <1>2, <1>3, <1>4, <1>5, <1>6, <1>7, <1>8 DEF CpuNext, CollectStep

\* The last flush empties each entry it passes, and none fills again behind it
\* (profiler.cc:317-322).
LEMMA FlushedStep ==
  ASSUME ProfileInv, FlushedInv, [CpuNext]_cpuVars
  PROVE  FlushedInv'
<1>1. TypeOK /\ IInv /\ KernelInv /\ QuietInv
  BY DEF ProfileInv, CollectorTypeInv, TypeInv
<1> USE DEF FlushedInv, CollectorGoto
<1>2. CASE cpc' # "lastflush"
  BY <1>2
<1>3. CASE FinalFlush
  <2>1. \A s \in Slots : ~ (s < 0)
    BY DEF Slots
  <2> QED
    BY <1>3, <2>1 DEF FinalFlush, HarvestStart
<1>4. CASE cpc = "lastflush" /\ FlushStep
  <2>1. \A th \in Threads : pc[th] = "idle"
    BY <1>1, <1>4, QuietSteps
  <2>2. xloc \in Slots /\ count \in [Slots -> Int]
    BY <1>1 DEF TypeOK
  <2>3. CASE ExtractLoad \/ ExtractRelease
    <3>1. /\ count'[xloc] = 0 \/ (count'[xloc] > 0 /\ xpc' = "num" /\ xloc' = xloc)
          /\ \A s \in Slots \ {xloc} : count'[s] = count[s]
      <4>1. CASE ExtractLoad
        <5>1. count' = count /\ (count[xloc] > 0 => xpc' = "num" /\ xloc' = xloc)
          BY <2>2, <4>1 DEF ExtractLoad, tableVars
        <5>2. count[xloc] >= -1
          BY <1>1, <2>2 DEF IInv, LockInv, CountInv, kTraceCountLocked
        <5>3. count[xloc] # -1
          <6>1. ~ ExtractorOwns /\ \A th \in Threads : ~ Owns(th)
            BY <2>1, <4>1 DEF ExtractLoad, ExtractorOwns, Owns
          <6> QED
            BY <1>1, <2>2, <6>1 DEF IInv, LockInv, OwnerInv, kTraceCountLocked
        <5> QED
          BY <2>2, <5>1, <5>2, <5>3
      <4>2. CASE ExtractRelease
        BY <2>2, <4>2 DEF ExtractRelease
      <4> QED
        BY <2>3, <4>1, <4>2
    <3>2. \A s \in Slots : s < xloc => count[s] = 0
      BY <1>4
    <3>3. CASE xpc' = "num" /\ xloc' = xloc
      BY <2>2, <3>1, <3>2, <3>3 DEF Slots
    <3>4. CASE NextLocation /\ ~ (xpc' = "num" /\ xloc' = xloc)
      <4>1. \A s \in Slots : s <= xloc => count'[s] = 0
        BY <2>2, <3>1, <3>2, <3>4 DEF Slots
      <4>2. CASE xloc + 1 < MaxEntries
        <5>1. xpc' = "load" /\ xloc' = xloc + 1
          BY <3>4, <4>2 DEF NextLocation
        <5>2. \A s \in Slots : s < xloc + 1 => s <= xloc
          BY <2>2 DEF Slots
        <5> QED
          BY <4>1, <5>1, <5>2
      <4>3. CASE ~ (xloc + 1 < MaxEntries)
        <5>1. \A s \in Slots : s <= xloc
          BY <2>2, <4>3, SizeAssumption DEF Slots
        <5> QED
          BY <4>1, <5>1
      <4> QED
        BY <4>2, <4>3
    <3> QED
      BY <2>3, <3>3, <3>4 DEF ExtractLoad, ExtractRelease
  <2>4. CASE ExtractNum \/ ExtractLock \/ ExtractCopy \/ ExtractSpin
    <3>1. /\ xpc # "idle" /\ xpc' # "idle" /\ xloc' = xloc
          /\ \A s \in Slots \ {xloc} : count'[s] = count[s]
      BY <2>2, <2>4 DEF ExtractNum, ExtractLock, ExtractCopy, ExtractSpin, tableVars
    <3> QED
      BY <1>4, <2>2, <3>1 DEF Slots
  <2> QED
    BY <1>4, <2>3, <2>4 DEF FlushStep, ExtractStep
<1>5. CASE cpc = "lastflush" /\ cpc' = "lastflush" /\ ~ FlushStep
  <2>1. Tick \/ UNCHANGED cpuVars
    <3>1. /\ ~ \E th \in Threads : \E t \in Samples : Deliver(th, t)
          /\ ~ \E th \in Threads : HandlerStep(th)
      BY <1>1, <1>5, QuietSteps
    <3> QED
      BY <1>5, <3>1 DEF CpuNext, CollectStep, NewProfiler, ResetEntry, ResetUnknown,
        InstallHandler, StartTimer, PeriodicFlush, PeriodicFlushed, StopTimer,
        IgnoreSignal, FinalFlush, PythonTraces, ProfileReturned
  <2>2. UNCHANGED <<count, xpc, xloc>>
    BY <2>1 DEF Tick, cpuVars, vars, tableVars, extractVars
  <2> QED
    BY <1>5, <2>2
<1>6. cpc' = "lastflush" => cpc = "lastflush" \/ FinalFlush
  BY DEF CpuNext, CollectStep, Tick, Deliver, HandlerStep, FlushStep, NewProfiler,
    ResetEntry, ResetUnknown, InstallHandler, StartTimer, PeriodicFlush, PeriodicFlushed,
    StopTimer, IgnoreSignal, PythonTraces, ProfileReturned, cpuVars, collectorVars
<1> QED
  BY <1>2, <1>3, <1>4, <1>5, <1>6

LEMMA AggregatedStep ==
  ASSUME ProfileInv, AggregatedInv, [CpuNext]_cpuVars
  PROVE  AggregatedInv'
<1>1. aggregated \in [Traces -> Int] /\ unknown \in Nat /\ xcount \in Int
  BY DEF ProfileInv, CollectorTypeInv, TypeInv, TypeOK
<1>2. CASE aggregated' = aggregated
  BY <1>2 DEF AggregatedInv, Traces
<1>3. CASE NewProfiler
  BY <1>3 DEF NewProfiler, AggregatedInv, Traces
<1>4. CASE PythonTraces
  <2>1. \/ aggregated' = [aggregated EXCEPT ![UnknownTrace] = @ + unknown]
        \/ aggregated' = aggregated
    BY <1>4 DEF PythonTraces
  <2>2. ASSUME NEW t \in Traces PROVE aggregated'[t] >= 0
    <3>1. aggregated[t] \in Int /\ aggregated[t] >= 0
      BY <1>1 DEF AggregatedInv
    <3>2. aggregated'[t] = aggregated[t] \/ aggregated'[t] = aggregated[t] + unknown
      BY <1>1, <2>1
    <3> QED
      BY <1>1, <3>1, <3>2
  <2> QED
    BY <2>2 DEF AggregatedInv, Traces
<1>5. CASE FlushStep /\ ExtractRelease
  <2>1. ASSUME NEW t \in Traces PROVE aggregated'[t] >= 0
    <3>1. aggregated[t] \in Int /\ aggregated[t] >= 0
      BY <1>1 DEF AggregatedInv
    <3>2. \/ aggregated' = aggregated
          \/ xcount > 0 /\ aggregated' = [aggregated EXCEPT ![xframes] = @ + xcount]
      BY <1>5 DEF ExtractRelease, Aggregate
    <3>3. \/ aggregated'[t] = aggregated[t]
          \/ xcount > 0 /\ aggregated'[t] = aggregated[t] + xcount
      BY <1>1, <3>2
    <3> QED
      BY <1>1, <3>1, <3>3
  <2> QED
    BY <2>1 DEF AggregatedInv, Traces
<1>6. aggregated' = aggregated \/ NewProfiler \/ PythonTraces \/ (FlushStep /\ ExtractRelease)
  <2>1. CASE \/ Tick \/ InstallHandler \/ StartTimer \/ PeriodicFlushed \/ StopTimer
             \/ IgnoreSignal \/ ProfileReturned \/ UNCHANGED cpuVars
    BY <2>1, CollectorStep DEF vars, extractVars
  <2>2. CASE ResetEntry \/ ResetUnknown \/ PeriodicFlush \/ FinalFlush
    BY <2>2 DEF ResetEntry, ResetUnknown, PeriodicFlush, FinalFlush, HarvestStart, extractVars
  <2>3. ASSUME NEW th \in Threads, NEW t \in Samples, Deliver(th, t)
        PROVE  aggregated' = aggregated
    BY <2>3 DEF Deliver, Handle, extractVars
  <2>4. ASSUME NEW th \in Threads, HandlerStep(th) PROVE aggregated' = aggregated
    BY <2>4 DEF HandlerStep, AddStep, AddEnter, AddLoad, AddReserve, AddReserved,
      AddWrite, AddPublish, AddCompare, AddReload, AddBump, AddBumped, AddLeave,
      CountUnknown, extractVars
  <2>5. CASE FlushStep /\ ~ ExtractRelease
    BY <2>5 DEF FlushStep, ExtractStep, ExtractLoad, ExtractNum, ExtractLock,
      ExtractCopy, ExtractSpin
  <2> QED
    BY <2>1, <2>2, <2>3, <2>4, <2>5 DEF CpuNext, CollectStep
<1> QED
  BY <1>2, <1>3, <1>4, <1>5, <1>6

\* The balance holds from the first signal to the end of the last flush.
LEMMA SampledStep ==
  ASSUME ProfileInv, ProfileInv', AccountInv, BagInv', [CpuNext]_cpuVars, Collecting'
  PROVE  SampledInv'
<1>1. /\ IInv /\ IInv' /\ BagInv /\ BagInv' /\ sampled \in [Samples -> Nat]
      /\ TypeInv /\ QuietInv /\ KernelInv /\ FreshInv
  BY DEF ProfileInv, AccountInv, CollectorTypeInv, CountersInv
<1>2. ASSUME SampledInv, UNCHANGED <<vars, sampled>> PROVE SampledInv'
  <2>1. UNCHANGED Bag!vars
    BY <1>1, <1>2, StutterSilent
  <2>2. /\ \A t \in Traces : Held(t)' = Held(t)
        /\ SamplesOnly' /\ unknown' = unknown
    BY <1>2, <2>1, SilentHolds DEF SampledInv
  <2>3. \A t \in Traces : Held(t)' <= Held(t) /\ (t # <<>> => Held(t)' = Held(t))
    BY <1>1, <2>2, HeldIsCount
  <2> QED
    BY <1>1, <1>2, <2>2, <2>3, BalanceKept
<1>3. CASE Collecting
  <2>1. SampledInv
    BY <1>3 DEF AccountInv
  <2>2. ASSUME NEW th \in Threads, NEW t \in Samples, Deliver(th, t) PROVE SampledInv'
    BY <1>1, <2>1, <2>2, BalanceDeliver
  <2>3. ASSUME NEW th \in Threads, HandlerStep(th) PROVE SampledInv'
    BY <1>1, <2>1, <2>3, BalanceHandler DEF HandlerStep
  <2>4. CASE FlushStep \/ PeriodicFlush \/ FinalFlush
    BY <1>1, <2>1, <2>4, BalanceFlush DEF FlushStep, PeriodicFlush, FinalFlush
  <2>5. CASE \/ Tick \/ InstallHandler \/ StartTimer \/ PeriodicFlushed \/ StopTimer
             \/ IgnoreSignal \/ ProfileReturned \/ UNCHANGED cpuVars
    <3>1. UNCHANGED sampled
      BY <2>5 DEF Tick, InstallHandler, StartTimer, PeriodicFlushed, StopTimer,
        IgnoreSignal, ProfileReturned, cpuVars
    <3> QED
      BY <1>2, <2>1, <2>5, <3>1, CollectorStep
  <2>6. CASE NewProfiler \/ ResetEntry \/ ResetUnknown \/ PythonTraces
    BY <1>3, <2>6 DEF Collecting, CollectorGoto, NewProfiler, ResetEntry, ResetUnknown,
      PythonTraces
  <2> QED
    BY <2>2, <2>3, <2>4, <2>5, <2>6 DEF CpuNext, CollectStep
<1>4. CASE ~ Collecting
  <2>1. cpc # cpc'
    BY <1>4 DEF Collecting
  <2>2. cpc = "start" /\ StartTimer
    BY <1>4, <2>1 DEF Collecting, CpuNext, CollectStep, Tick, Deliver, HandlerStep,
      FlushStep, NewProfiler, ResetEntry, ResetUnknown, InstallHandler, StartTimer,
      PeriodicFlush, PeriodicFlushed, StopTimer, IgnoreSignal, FinalFlush, PythonTraces,
      ProfileReturned, cpuVars, collectorVars, CollectorGoto
  <2>3. SampledInv
    BY <1>1, <2>2, FreshBalances
  <2>4. UNCHANGED <<vars, sampled>>
    BY <2>2 DEF StartTimer
  <2> QED
    BY <1>2, <2>3, <2>4
<1> QED
  BY <1>3, <1>4

\* The profile is reported after the last flush, and stays as it is until it is
\* returned.
LEMMA ReportStep ==
  ASSUME ProfileInv, AccountInv, [CpuNext]_cpuVars
  PROVE  ProfileAccountsForSamples'
<1>1. /\ IInv /\ TypeInv /\ sampled \in [Samples -> Nat] /\ QuietInv /\ KernelInv
      /\ Samples \subseteq Traces
  BY SamplesAssumption DEF ProfileInv, CollectorTypeInv, CountersInv
<1>2. CASE PythonTraces
  <2>1. cpc = "lastflush" /\ xpc = "idle"
    BY <1>2 DEF PythonTraces, CollectorGoto
  <2>2. \A s \in Slots : count[s] = 0
    BY <2>1 DEF AccountInv, FlushedInv
  <2>3. \A th \in Threads : pc[th] = "idle"
    BY <1>1, <2>1 DEF QuietInv
  <2>4. \A t \in Traces : Held(t) = aggregated[t] /\ InFlight(t) = 0
    BY <1>1, <2>1, <2>2, <2>3, NothingHeld
  <2>5. SampledInv /\ \A t \in Samples : aggregated[t] >= 0
    BY <1>1, <2>1 DEF AccountInv, Collecting, AggregatedInv
  <2> QED
    BY <1>1, <1>2, <2>4, <2>5, BalancedReport
<1>3. CASE cpc = "report" /\ cpc' = "report"
  <2>1. ~ FlushStep /\ ~ (\E th \in Threads : \E t \in Samples : Deliver(th, t))
        /\ ~ \E th \in Threads : HandlerStep(th)
    BY <1>1, <1>3, QuietSteps
  <2>2. Tick \/ UNCHANGED cpuVars
    BY <1>3, <2>1 DEF CpuNext, CollectStep, NewProfiler, ResetEntry, ResetUnknown,
      InstallHandler, StartTimer, PeriodicFlush, PeriodicFlushed, StopTimer, IgnoreSignal,
      FinalFlush, PythonTraces, ProfileReturned, CollectorGoto
  <2>3. UNCHANGED <<aggregated, sampled>>
    BY <2>2 DEF Tick, cpuVars, vars, extractVars
  <2> QED
    BY <1>3, <2>3 DEF AccountInv, ProfileAccountsForSamples
<1>4. cpc' # "report" => ProfileAccountsForSamples'
  BY DEF ProfileAccountsForSamples
<1>5. cpc' = "report" => cpc = "report" \/ PythonTraces
  BY DEF CpuNext, CollectStep, Tick, Deliver, HandlerStep, FlushStep, NewProfiler,
    ResetEntry, ResetUnknown, InstallHandler, StartTimer, PeriodicFlush, PeriodicFlushed,
    StopTimer, IgnoreSignal, FinalFlush, ProfileReturned, cpuVars, collectorVars,
    CollectorGoto
<1> QED
  BY <1>2, <1>3, <1>4, <1>5

(***************************************************************************)
(* A CPU profile accounts for the samples taken during it, across flushes, *)
(* resets and earlier profiles, if no handler outlasts the delay before    *)
(* the last flush: no trace is reported more often than it was sampled,    *)
(* and the total, unknown samples included, lacks none but those without   *)
(* frames (stacktraces.cc:117-131, profiler.cc:134-158, 183-202, 292-327).  *)
(***************************************************************************)
THEOREM ProfilesAreAccounted ==
  ASSUME ~ LateHandlers
  PROVE  CpuSpec => []ProfileAccountsForSamples
<1>1. ProfileInv /\ [CpuNext]_cpuVars => ProfileInv'
  BY ProfileStep
<1>2. CpuInit => AccountInv
  <2> SUFFICES ASSUME CpuInit PROVE AccountInv
    OBVIOUS
  <2>1. BagInv
    BY InitBag DEF CpuInit
  <2>2. cpc = "idle" /\ \A t \in Traces : aggregated[t] = 0
    BY DEF CpuInit, Init, ExtractInit
  <2> QED
    BY <2>1, <2>2 DEF AccountInv, FreshInv, FlushedInv, AggregatedInv, Collecting,
      ProfileAccountsForSamples
<1>3. ProfileInv /\ ProfileInv' /\ AccountInv /\ [CpuNext]_cpuVars => AccountInv'
  <2> SUFFICES ASSUME ProfileInv, ProfileInv', AccountInv, [CpuNext]_cpuVars
               PROVE  AccountInv'
    OBVIOUS
  <2>1. BagInv'
    BY CpuBagStep DEF AccountInv
  <2>2. FreshInv' /\ FlushedInv' /\ AggregatedInv'
    BY FreshStep, FlushedStep, AggregatedStep DEF AccountInv
  <2>3. Collecting' => SampledInv'
    BY <2>1, SampledStep
  <2> QED
    BY <2>1, <2>2, <2>3, ReportStep DEF AccountInv
<1>4. AccountInv => ProfileAccountsForSamples
  BY DEF AccountInv
<1> QED
  BY <1>1, <1>2, <1>3, <1>4, InitProfile, PTL DEF CpuSpec
=============================================================================
