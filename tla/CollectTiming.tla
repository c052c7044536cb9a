---------------------------- MODULE CollectTiming ----------------------------
(***************************************************************************)
(* When Collect samples and when it returns: the laps of its loop, the     *)
(* finish line, the two absolute sleeps and the interval of ITIMER_PROF    *)
(* (profiler.cc, clock.h), with a thread of the program that calls fork.   *)
(* SIGPROF interrupts the sleeps of the profiling thread, and makes the    *)
(* kernel start a fork again unless the thread blocks it (profiler.h).     *)
(*                                                                         *)
(* Time is counted in nanoseconds, of which a second has kNanosPerSecond.  *)
(***************************************************************************)
EXTENDS Clock, FiniteSets

CONSTANTS
  StartTimes,     \* what the clock may show when Collect begins
  Durations,      \* duration_nanos_, as the server asks for it
  Periods,        \* period_nanos_ / 1000
  kMicrosPerSecond,
  IntMax,         \* the largest int
  flush_interval, \* below a second
  margin_laps,
  MaxLate,        \* bound: time per lap in which the profiling thread does not sleep
  ForkWork        \* steps of the kernel in a fork

ASSUME TimingAssumption ==
  /\ StartTimes \subseteq Nat /\ Durations \subseteq Int /\ Periods \subseteq Nat
  /\ kMicrosPerSecond \in Nat \ {0} /\ IntMax \in Nat \ {0}
  /\ flush_interval \in 1 .. kNanosPerSecond - 1
  /\ margin_laps \in Nat
  /\ margin_laps * flush_interval < kNanosPerSecond
  /\ MaxLate \in Nat /\ MaxLate + flush_interval <= margin_laps * flush_interval
  /\ ForkWork \in Nat

VARIABLES
  clock,     \* CLOCK_MONOTONIC
  start,     \* history: the clock when Collect began
  duration, period,
  timer,     \* it_interval of ITIMER_PROF, [sec, usec], both 0 if it is off
  pending,   \* SIGPROF is pending for the process
  cpc,       \* where the profiling thread is in Collect
  finish,    \* finish_line
  wake,      \* when the relative sleep ends
  left,      \* what the kernel reports as left of it
  slack,     \* time the lap may still lose outside of its sleep
  fpc,       \* where the forking thread is
  blocked,   \* it blocks SIGPROF
  work       \* steps left of its fork

forkVars   == <<fpc, blocked, work>>
kernelVars == <<timer, pending>>
lapVars    == <<wake, left, slack>>
inputVars  == <<start, duration, period>>
timingVars == <<clock, inputVars, kernelVars, cpc, finish, lapVars, forkVars>>

Off == [sec |-> 0, usec |-> 0]

Init ==
  /\ clock \in StartTimes /\ start = clock
  /\ duration \in Durations /\ period \in Periods
  /\ timer = Off /\ pending = FALSE
  /\ cpc = "start" /\ finish = NanosToTimeSpec(0)
  /\ wake = 0 /\ left = 0 /\ slack = 0
  /\ fpc = "prepare" /\ blocked = FALSE /\ work = ForkWork

Now == NanosToTimeSpec(clock)

Flushing == NanosToTimeSpec(flush_interval)

-----------------------------------------------------------------------------
\* The kernel.

\* Conversion to int.
ToInt(n) == ((n + IntMax + 1) % (2 * (IntMax + 1))) - (IntMax + 1)

\* setitimer's argument; division in C++ truncates.
Interval(usec) ==
  IF usec >= 0 THEN [sec |-> usec \div kMicrosPerSecond, usec |-> usec % kMicrosPerSecond]
  ELSE [sec |-> -((-usec) \div kMicrosPerSecond), usec |-> -((-usec) % kMicrosPerSecond)]

\* Mutated form: the result of setitimer is not looked at.
SettableAlways(interval) == TRUE

\* setitimer refuses an interval with a negative part.
Settable(interval) == interval.sec >= 0 /\ interval.usec \in 0 .. kMicrosPerSecond - 1

\* Does the profiling thread sleep in SleepFor, or in SleepUntil(t)?
Napping == cpc = "nap" /\ clock < wake
SleepsUntil(t) == Valid(t) /\ clock < Nanos(t)

\* The sleep of the profiling thread that the clock wakes it from, if any.
Asleep ==
  \/ Napping
  \/ cpc = "until" /\ SleepsUntil(finish)
  \/ cpc = "drain" /\ SleepsUntil(TimeAdd(finish, Flushing))

\* Time passes while the profiling thread sleeps; elsewhere a lap can lose slack.
Time ==
  /\ Asleep \/ slack > 0
  /\ clock' = clock + 1
  /\ slack' = IF Asleep THEN slack ELSE slack - 1
  /\ UNCHANGED <<inputVars, kernelVars, cpc, finish, wake, left, forkVars>>

\* The timer goes off.
Tick ==
  /\ timer # Off
  /\ pending' = TRUE
  /\ UNCHANGED <<clock, inputVars, timer, cpc, finish, lapVars, forkVars>>

\* SIGPROF is delivered to the profiling thread in clock_nanosleep, which returns
\* EINTR, and for a relative sleep the time left.
InterruptNap ==
  /\ pending /\ pending' = FALSE
  /\ Napping
  /\ cpc' = "napped"
  /\ left' = wake - clock
  /\ UNCHANGED <<clock, inputVars, timer, finish, wake, slack, forkVars>>

\* It is delivered to the forking thread: a fork in the kernel starts again.
InterruptFork ==
  /\ pending /\ pending' = FALSE
  /\ ~ blocked
  /\ work' = IF fpc = "fork" THEN ForkWork ELSE work
  /\ UNCHANGED <<clock, inputVars, timer, cpc, finish, lapVars, fpc, blocked>>

\* It is delivered to a thread that nothing here happens to, or to the profiling
\* thread in an absolute sleep, which is tried again.
InterruptOther ==
  /\ pending /\ pending' = FALSE
  /\ UNCHANGED <<clock, inputVars, timer, cpc, finish, lapVars, forkVars>>

-----------------------------------------------------------------------------
\* The profiling thread.

GoTo(from, to) == cpc = from /\ cpc' = to

\* Mutated form: the microseconds keep the whole seconds.
StartNoCarry ==
  /\ cpc = "start"
  /\ LET usec == ToInt(period)
         interval == [Interval(usec) EXCEPT !.usec = usec]
     IN  IF Settable(interval)
         THEN /\ cpc' = "loop" /\ timer' = interval
              /\ finish' = TimeAdd(Now, NanosToTimeSpec(duration))
         ELSE cpc' = "failed" /\ UNCHANGED <<timer, finish>>
  /\ slack' = MaxLate
  /\ UNCHANGED <<clock, inputVars, pending, wake, left, forkVars>>

\* Start: the period is narrowed to an int.  Collect returns nullptr when the
\* timer can not be set.  finish_line is computed.
Start ==
  /\ cpc = "start"
  /\ LET interval == Interval(ToInt(period))
     IN  IF Settable(interval)
         THEN /\ cpc' = "loop" /\ timer' = interval
              /\ finish' = TimeAdd(Now, NanosToTimeSpec(duration))
         ELSE cpc' = "failed" /\ UNCHANGED <<timer, finish>>
  /\ slack' = MaxLate
  /\ UNCHANGED <<clock, inputVars, pending, wake, left, forkVars>>

\* Mutated form: there is a margin of one lap.
AlmostThereOneLap == TimeLessThan(finish, TimeAdd(Now, Flushing))

\* The laps are multiplied field by field.
AlmostThere ==
  TimeLessThan(finish, TimeAdd(Now, [sec  |-> Flushing.sec * margin_laps,
                                     nsec |-> Flushing.nsec * margin_laps]))

\* A lap: SleepFor(flush_interval).
Lap ==
  /\ GoTo("loop", "nap")
  /\ ~ AlmostThere
  /\ wake' = clock + flush_interval
  /\ slack' = MaxLate
  /\ UNCHANGED <<clock, inputVars, kernelVars, finish, left, forkVars>>

\* The sleep goes on for the time left.
NapAgain ==
  /\ GoTo("napped", "nap")
  /\ wake' = clock + left /\ left' = 0
  /\ UNCHANGED <<clock, inputVars, kernelVars, finish, slack, forkVars>>

NapOver ==
  /\ GoTo("nap", "flush")
  /\ clock >= wake
  /\ wake' = 0
  /\ UNCHANGED <<clock, inputVars, kernelVars, finish, left, slack, forkVars>>

\* Flush allocates, which waits for the memory lock that a fork in the kernel holds.
Flush ==
  /\ GoTo("flush", "loop")
  /\ fpc # "fork"
  /\ UNCHANGED <<clock, inputVars, kernelVars, finish, lapVars, forkVars>>

LeaveLoop ==
  /\ GoTo("loop", "until")
  /\ AlmostThere
  /\ UNCHANGED <<clock, inputVars, kernelVars, finish, lapVars, forkVars>>

\* Mutated form: the sleep is not tried again when a signal interrupts it.
StopOnSignal ==
  /\ GoTo("until", "drain")
  /\ Valid(finish) /\ (clock >= Nanos(finish) \/ pending)
  /\ timer' = Off /\ pending' = FALSE
  /\ UNCHANGED <<clock, inputVars, finish, lapVars, forkVars>>

\* SleepUntil(finish_line) returns, and Stop disarms the timer and ignores SIGPROF.
Stop ==
  /\ GoTo("until", "drain")
  /\ Valid(finish) /\ clock >= Nanos(finish)
  /\ timer' = Off /\ pending' = FALSE
  /\ UNCHANGED <<clock, inputVars, finish, lapVars, forkVars>>

\* The delay for the last signals is over.  The last Flush.
LastFlush ==
  /\ GoTo("drain", "returned")
  /\ LET t == TimeAdd(finish, Flushing) IN Valid(t) /\ clock >= Nanos(t)
  /\ fpc # "fork"
  /\ UNCHANGED <<clock, inputVars, kernelVars, finish, lapVars, forkVars>>

CollectStep ==
  Start \/ Lap \/ NapAgain \/ NapOver \/ Flush \/ LeaveLoop \/ Stop \/ LastFlush

-----------------------------------------------------------------------------
\* The forking thread.

\* Mutated form: SIGPROF is not blocked.
PrepareNothing ==
  /\ fpc = "prepare" /\ fpc' = "fork"
  /\ UNCHANGED <<blocked, work>>

\* The handlers of pthread_atfork: BlockSigprof before,
Prepare ==
  /\ fpc = "prepare" /\ fpc' = "fork"
  /\ blocked' = TRUE
  /\ UNCHANGED work

\* the fork,
Fork ==
  /\ fpc = "fork"
  /\ IF work > 0 THEN work' = work - 1 /\ UNCHANGED fpc
                 ELSE fpc' = "parent" /\ UNCHANGED work
  /\ UNCHANGED blocked

\* UnblockSigprof after it, in the parent.
Parent ==
  /\ fpc = "parent" /\ fpc' = "forked"
  /\ blocked' = FALSE
  /\ UNCHANGED work

ForkStep ==
  /\ Prepare \/ Fork \/ Parent
  /\ UNCHANGED <<clock, inputVars, kernelVars, cpc, finish, lapVars>>

Next ==
  \/ Time \/ Tick \/ InterruptNap \/ InterruptFork \/ InterruptOther
  \/ CollectStep \/ ForkStep

Spec == Init /\ [][Next]_timingVars

\* Time passes, and the threads run, however many signals arrive.
FairSpec ==
  /\ Spec
  /\ SF_timingVars(Time)
  /\ WF_timingVars(CollectStep)
  /\ WF_timingVars(ForkStep)

-----------------------------------------------------------------------------
Sampling == {"loop", "nap", "napped", "flush", "until"}

TypeOK ==
  /\ clock \in Nat /\ start \in StartTimes /\ duration \in Durations /\ period \in Periods
  /\ timer \in [sec : Nat, usec : 0 .. kMicrosPerSecond - 1] /\ pending \in BOOLEAN
  /\ cpc \in Sampling \cup {"start", "drain", "returned", "failed"}
  /\ finish \in Timespec
  /\ wake \in Nat /\ left \in 0 .. flush_interval /\ slack \in 0 .. MaxLate
  /\ fpc \in {"prepare", "fork", "parent", "forked"} /\ blocked \in BOOLEAN
  /\ work \in 0 .. ForkWork

(***************************************************************************)
(* "Have a margin of multiple laps to ensure we do not overrun the finish  *)
(* line" (profiler.cc:281-283): no lap, however its sleep is interrupted,  *)
(* ends after the finish line, with the sum and the comparison of          *)
(* timespecs as they are.  Outside of its sleep a lap may lose MaxLate, at *)
(* most the margin less the flush interval of one lap.                     *)
(***************************************************************************)
NoOverrun == cpc \in {"nap", "napped", "flush"} => clock <= Nanos(finish)

(***************************************************************************)
(* "Blocks the current thread until the specified point in time"           *)
(* (clock.h:38): signals do not end the profile early; it is sampled for   *)
(* the whole duration, and the last signals have the whole delay of        *)
(* profiler.cc:319 after the finish line.                                  *)
(***************************************************************************)
WholeDuration ==
  /\ cpc \in {"drain", "returned"} => clock >= start + duration
  /\ cpc = "returned" => clock >= start + duration + flush_interval

(***************************************************************************)
(* The timer goes off once per period_nanos_ (profiler.h), also when this  *)
(* is a second or more, for every period whose microseconds fit an int:    *)
(* these never fail to be set, and are set as they were asked for.         *)
(***************************************************************************)
PeriodHonoured ==
  period \in 1 .. IntMax =>
    /\ cpc # "failed"
    /\ cpc \in Sampling => timer.sec * kMicrosPerSecond + timer.usec = period

(***************************************************************************)
(* "This will never end until the profiler thread stops sending the        *)
(* signal" (profiler.h:156-162) does not come true: a fork ends however    *)
(* much longer than the period it takes, and its thread is sampled again.  *)
(***************************************************************************)
ForkEnds == (fpc = "prepare") ~> (fpc = "forked" /\ ~ blocked)

\* The nanoseconds of a time and of a duration after it do not add up to exactly
\* one second, nor, where the duration is negative, to less than nothing.
AddsUp(time, nanos) ==
  (time % kNanosPerSecond) + Remainder(nanos) \in Nat \ {kNanosPerSecond}

(***************************************************************************)
(* Collect returns, with signals that interrupt its sleeps and forks that  *)
(* hold up its flushes, for every time it starts at and every duration but *)
(* those whose nanoseconds add up to a second, or to less than nothing, at *)
(* one of its two absolute sleeps: TimeAdd (clock.cc:25) leaves these sums *)
(* as they are, and SleepUntil (clock.h:40) repeats its call for ever.     *)
(***************************************************************************)
CollectReturnsIfAccepted ==
  AddsUp(start, duration) /\ AddsUp(start + duration, flush_interval)
    => <>(cpc \in {"returned", "failed"})
=============================================================================
