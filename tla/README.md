# TLA+ specification of the Cloud Profiler Python agent

The agent samples a running Python program. `googlecloudprofiler.start()`
creates a polling thread; the thread asks the profiler server for work and
collects CPU profiles (a native extension driven by `SIGPROF`) and wall-time
profiles (pure Python, driven by `SIGALRM`) inside the program that it
profiles. Everything that is hard about it is concurrency with a program that
does not know it is there: signal handlers that interrupt any thread at any
instruction, a lock-free table between them and the harvesting thread, a Python
signal handler that runs in the main thread between two bytecodes, and
a loop that must survive every failure of the network.

Paths below are relative to `src/googlecloudprofiler/`.

## 1. Inventory

| Component | Source | State it keeps | Operations | What makes it correct |
|---|---|---|---|---|
| Lock-free trace multiset | `src/stacktraces.h`, `.cc` | 2048 entries of frames, `count`, `active_updates`; the growable `TraceMultiset` | `Add` (signal handlers), `Extract`/`HarvestSamples` (profiling thread), `Reset` | each sample is counted once; no torn trace; `Add` never waits; `Extract` ends |
| CPU profiler | `src/profiler.h`, `.cc`, `_profiler.cc`, `cpu_profiler.py` | static table and `unknown_stack_count_`, disposition of `SIGPROF`, `ITIMER_PROF`, aggregated traces | `ProfileCPU`, `Reset`, `Collect`, `Start`, `Stop`, `Flush`, `Handle`, `PythonTraces` | the process survives; a profile accounts for its samples; `Collect` returns |
| Wall-time profiler | `pythonprofiler.py` | `_traces`, `_trace_count`, `_last_sample_time`, `_in_handler`, `_started`, an RLock, `ITIMER_REAL` | `profile`, `_handler`, `_stop_profiling`, `_reset` | no update after the stop; no exception in the program; ticks add up |
| Agent | `__init__.py`, `client.py`, `backoff.py` | `_started`, one `Client` with profilers, service, backoff; the polling thread | `start`, `Client.start`, poll, collect, upload, `next_backoff` | one polling thread that never ends; bounded backoff |
| Code deallocation hook, attribution of frames | `src/profiler.cc:64-92, 161-178, 203-278` | `deallocated_code_`, `tp_dealloc` | `CodeDealloc`, `Find`, resolution in `PythonTraces` | a sample is attributed to the function that ran |
| Clock and timing | `src/clock.h`, `.cc`, `profiler.cc:280-290` | none | `TimeAdd`, `AlmostThere`, `SleepUntil` | the finish line is met, no sleep is refused |
| Stack walk | `src/populate_frames.cc` | none | `PopulateFrames` | terminates and yields frames that existed |
| Fork handlers | `src/profiler.h:154-170`, `profiler.cc:340-354` | signal mask | block, unblock around fork | fork ends; `SIGPROF` is unblocked afterwards |
| Builder | `builder.py` | string, function, location tables | `populate_profile`, `emit` | decoding the tables yields the traces |
| Configuration, authentication, requests | `client.py:71-207, 230-259, 337-389` | attributes of the `Client` | `setup_auth`, `config`, metadata requests | the documented name and profilers, or an exception; interrupts reach the program |
| Logging; generated `profile_pb2.py`; `setup.py`, `kokoro/` | | | | not part of the behaviour |

How they interact: `start()` makes a `Client`, registers the `SIGALRM` handler
(main thread only) and spawns the polling thread. The polling thread calls
`profile()` of one profiler at a time. The CPU profiler owns static state, so
that one profile follows another over the same table; its signal handlers run
in every thread of the process. The wall profiler shares its attributes with
`_handler` in the main thread, protected in part by the GIL, by an RLock and by
two flags. Both hand a dictionary from traces to counts to `Builder`.

The hazards, each with its line and the properties that watch it, are in
`PROJECT.json`.

## 2. Modules

| Module | Models | Extends |
|---|---|---|
| `AsyncSafeTraceMultiset` | `Add`, `Extract`, `HarvestSamples`, and `Handle` as their caller | |
| `TraceBag` | what the multiset promises: a bag of samples | |
| `TraceBagRefinement` | the refinement mapping | `AsyncSafeTraceMultiset` |
| `AsyncSafeTraceMultisetProofs` | the theorems, and that every step of the multiset is one of `TraceBag` or none | `TraceBagRefinement` |
| `FiniteSums` | lemmas on sums over finite sets and on recursive functions, for the proofs | |
| `CpuCollector` | the life of CPU profiles around the multiset | `AsyncSafeTraceMultiset` |
| `CpuCollectorProofs` | its theorems, on top of those of the multiset | `CpuCollector`, `AsyncSafeTraceMultisetProofs`, `FiniteSums` |
| `Attribution` | `Collect` with `CodeDeallocHook` and `PythonTraces`, while code objects come and go | |
| `AttributionProofs` | its theorems | `Attribution`, `FiniteSums` |
| `ProfileBuilder` | `Builder` as operators, and a reader of the proto | |
| `CpuProfile` | `_build_profile` of the CPU profiler: the dictionaries of `Attribution` given to `Builder` | `Attribution`, `ProfileBuilder` |
| `CpuProfileProofs` | the theorems about `Builder` and about the profiles built | `CpuProfile`, `AttributionProofs` |
| `Clock` | `struct timespec` and `clock.cc` as operators | |
| `CollectTiming` | `Collect` in time: timer, sleeps, laps, a fork | `Clock` |
| `CollectTimingProofs` | theorems about both | `CollectTiming` |
| `WallProfiler` | `profile()` and `_handler` | |
| `WallProofs` | its theorems | `WallProfiler`, `FiniteSums` |
| `ClientConfig` | `start()` up to a configured client | |
| `Agent` | the rest of `start()`, polling threads, backoff | `ClientConfig` |
| `AgentProofs` | theorems about both | `Agent`, `FiniteSums` |
| `MCMultiset`, `MCCpu`, `MCCollectTiming`, `MCWall`, `MCAgent`, `MCAttribution` | constants for TLC | |

### AsyncSafeTraceMultiset

One step is one atomic operation on `count` or `active_updates`, or one copy or
comparison of a trace. A handler of thread `th` goes through

    enter -> load -> reserve -> reserved -> write -> publish -> (returned)
                  -> compare -> reload -> bump -> bumped -> (returned)
                  -> leave -> enter (next entry) or full -> (returned)

and the extraction through `load, num, lock, copy, spin, release` for each
location. The frames of an entry (`buffer`) keep what earlier traces left
behind beyond `num_frames`, as in the code. Both `compare_exchange_weak` may
fail spuriously. `trace.frames`, which always points into the entry, is left
out; `CalculateHash` is a constant function on the samples, so collisions are
chosen by the model; `Equal` compares values. The stack walk is a constant set
`Samples`, the empty trace included, which the walk yields when every frame is
incomplete.

Memory is assumed sequentially consistent. The code uses acquire and release
orders and relaxed compare-exchanges; behaviours that need weaker orders are
not explored.

A thread runs one handler at a time: the kernel blocks `SIGPROF` during its
handler. `Extract` has one caller at a time (stacktraces.h:59-60).

### CpuCollector

`cpc` follows the polling thread: `memset, action` (constructor, then once more
in `Collect`), `start, sleep, flush, ..., ignore, drain, lastflush, report`.
`Reset` clears the table entry by entry, since a `memset` is not atomic with
respect to handlers. The kernel is `armed`, `pending` and `disposition`;
`ITIMER_PROF` goes off at any time while armed. The duration is a choice of how
many flushes take place. `StartTimer` may fail, which leaves the handler
installed.

`LateHandlers` says whether a handler may still run when the final delay of
100 ms is over. The code can not guarantee that it does not, and the run
`cpu_late_handlers` shows what happens then; the other runs assume that the
delay is long enough, and say something about the code under that assumption.

### Attribution

A sample holds the addresses of code objects and instruction offsets; names and
lines are found when the profile is over. `live` and `object` are the memory of
the program: `Alloc` puts a code object at a free address, `CodeDealloc` takes it
away through `tp_dealloc`, which is the hook while `Collect` has it installed.
`cpc` follows `Collect` through `reset, hooked, sampling, loop, frame, returned`
or `failed`; `Unhook` is the destructor of the hook, on every way out.

A step of the program, or of the profiling thread while it holds the GIL, is
atomic. The program runs before and during sampling, and also between two frames
that `PythonTraces` resolves, since its allocations may start the garbage
collector, which can run code of the program. The handlers, the multiset and the
flushes, the subject of `CpuCollector`, are one step here (`Sample`,
`SampleUnknown`). Every code object is created once, so that a code object
names one life of its address.

A handler can walk through the remains of a frame and store the address of a
code object that is gone already (the reason for the checks in
`populate_frames.cc`). The model lets it. What such a profile says of the frame
is any name or `unknown`, and `NamedAfterOccupant` and `ReportExact` are about
profiles that met none of these (`stale` is a history variable);
`UnrecordedIsLive`, `HookReachesOriginal` and `NoSampleLost` are about all.
`ReportExact` also leaves out profiles in which an address was used twice:
there the code names all samples after the first of the code objects, which
`NamedAfterOccupant` allows and the source accepts.

`error` is the exception that `PyUnicode_AsUTF8` leaves set when it fails. An
exception left in a thread of the program that frees a code object is not
modelled.

### ProfileBuilder and CpuProfile

The proto is a record of tables and of the types of its values. The maps of
`Builder` from values to numbers are the inverses of its tables, so only the tables
are kept. The loops over frames and traces are folds. `AddTypes` adds the strings of
the types, as `populate_profile` does before any trace. `Represents` reads the
proto back by its documented format: types, stacks, counts and values.
`_build_profile` of `CpuProfile` builds the proto of a dictionary that `PythonTraces`
returned, and `ProfileReadsBack` says that every one of them reads back, whatever
order the dictionary is gone through in.

### WallProfiler

Time is counted in sampling periods. The main thread holds a stack of running
handlers, since `_handler` can itself be interrupted by the next signal. The
polling thread, and a nested handler, run only at the points in `SwitchPoints`:

  - `HandlerPoints`, every point: CPython 3.7, 3.8 and 3.9, which handle signals
    and drop the GIL between any two bytecodes (with few exceptions);
  - `CallPoints`: CPython 3.10 and later, which do so at the start of a function,
    after a call and at a jump back only.

`self` is the record of the attributes. An augmented assignment is a read and a
write. `recorded` is a history variable, the ticks attributed during the
profile. Missed ticks are those of lines 191-198 of the source.

The profile that is being built (`Iterate`) reads the live dict, as
`builder.py:64` does, and fails when its size changed.

### Clock and CollectTiming

A timespec is a record of two integers; the nanoseconds of a second are a
constant (20 in the runs), so that every kind of sum occurs in a small
instance. `NanosToTimeSpec` truncates as C++ does, `TimeAdd` carries as
`clock.cc` does. `Valid` is what `clock_nanosleep` accepts.

`cpc` follows `Collect` through `start, (loop, nap | napped, flush)*, until,
drain, returned`, or `failed` when `setitimer` refuses. `clock` advances at any
time; `slack` bounds how much of a lap the profiling thread spends outside of
its sleep (`MaxLate`), since no margin makes up for a thread that does not run.
The timer goes off whenever it is armed. Its signal goes to any thread: to the
profiling thread, whose relative sleep then starts again with the time left and
whose absolute sleep starts again as it was; to the forking thread, unless it
blocks the signal, where a fork in the kernel starts from the beginning; or to a
thread in which nothing follows. A fork holds the memory lock, so that a flush
waits for it. Sleeping until a time that is not valid never succeeds: the
step that would end the sleep is not enabled.

### ClientConfig and Agent

A client is a number, in the order in which `start()` calls got past the test of
`_started`. `spc` follows an application thread through `start()`: `auth,
profilers, project, service, zone, instance` in `ClientConfig`, then
`register, spawn, mark` in `Agent`; `ppc` follows a polling thread. Each call
has its own arguments, and the process an environment: credentials, the `GAE_`
and `K_` variables, the platform and what the metadata server would answer. A
request to it may fail at any time, after which the code goes on with `None`.
Names are model strings, and `ServiceNames` are those that the regular
expression of `config` accepts; a zone is a path whose last part counts.

The user may interrupt `start()` in the main thread at any time and any number of
times. In `retrieve_gce_metadata` the code catches the interrupt (`interrupt =
"sent"`); anywhere else it leaves `start()` (`"raised"`). The program, a notebook
for example, may then call `start()` again in the same thread. `abandoned` is a
history variable: the clients whose polling thread was running when an interrupt
left `start()` before `_started` was set (`__init__.py:131-133`).

A response of the server is a record that says which of the fields the code
reads are there; an error says whether it is a broken pipe and what delay it
carries. The envelope is counted in whole units with an integer
multiplier (a minimum of 1, a multiplier of 2 and a maximum of 2 or 3 in the runs, for
60 s, 1.3 and 3600 s).

## 3. Runs

| Run | Instance | Shows |
|---|---|---|
| `multiset` | 3 threads, one of them fair, 2 entries, 2 colliding samples, 3 handlers in all | `TypeOK`, `ActiveUpdatesExact`, `LockedByOne`, `NoTornAccess`, that the multiset implements `TraceBag` (`ImplementsBag`), `AddWaitFree` |
| `cpu_profile` | 2 threads, 1 entry, 3 samples (one empty), 2 profiles, 3 handlers in all, 2 flushes each | `CpuTypeOK`, `NeverKilled`, `ProfileAccountsForSamples`, `CollectReturns`, `HarvestTerminates` |
| `cpu_late_handlers` | the same with `LateHandlers` | violation of `ActiveUpdatesExact` |
| `attribution` | 2 addresses, 4 code objects, two of one function, one whose file name can not be encoded; 2 profiles of 2 samples | `TypeOK`, `UnrecordedIsLive`, `HookReachesOriginal`, `NamedAfterOccupant`, `ReportExact`, `NoSampleLost`, `ProfileReadsBack` |
| `attribution_unencodable` | the same, no allocation fails | violation of `TracesReturned` |
| `collect_timing` | seconds of 20, a flush every 2, 3 starts, 5 durations, 6 periods, one fork | `TypeOK`, `NoOverrun`, `WholeDuration`, `PeriodHonoured`, `ForkEnds`, `CollectReturnsIfAccepted` |
| `wall` | 2 stacks, 2 periods, 2 profiles, `CallPoints` | `TypeOK`, `StopWaitsForHandler`, `HandlerNeverRaises`, `NoReentry`, `ProfileAccountsForTicks`, `SampleTimeDoesNotDrift`, `ProfileReturns` |
| `wall_stop_race` | 1 stack, `HandlerPoints` | violation of `StopWaitsForHandler` |
| `agent` | 2 threads, 2 clients, 3 kinds of arguments with wall profiling or nothing enabled, 2 environments, interrupts, any kind of response and error | `AgentTypeOK`, `DeploymentAsDocumented`, `OnePollerUnlessAbandoned`, `WallHandlerIsCurrent`, `StartedMeansPolling`, `EnvelopeTracksFailures`, `PollsForeverIfSensible` |
| `agent_two_starts` | 2 threads, CPU only | violation of `OnePoller` |
| `agent_untyped` | 1 thread, any response | violation of `PollsForever` |
| `agent_interrupt` | 1 thread, interrupts | violation of `InterruptReachesProgram` |

Why the bounds are enough:

  - *Multiset.* Two entries give probing, wrap-around and the full table; three
    threads give a handler that reserves, one that inspects and one that probes
    past them, beside the harvest. `MaxCalls` bounds the handlers in all, not
    those at once. It makes them finite, so that `HarvestTerminates` finds a path of
    `Add` that forgets its `fetch_sub`, but says nothing of handlers that never
    leave `Extract` a moment without one. The samples collide, so that a handler must compare frames;
    the empty trace, whose entry has no frames, is in `cpu_profile`. Harvests are not bounded.
  - *CPU.* One entry makes every pair of traces compete and fills the table;
    two profiles show what one leaves to the next.
  - *Attribution.* Two addresses and four code objects let one address be used
    three times, by a function that was there before too; a trace has
    two frames, so that the program can run between them; two profiles show
    what one leaves to the next. Three samples per profile were tried as well.
    `SmallSpec` fixes which code objects are there at first, without loss: the
    others are created in any order.
  - *Wall.* Two periods with one period of overrun give missed ticks, late
    handlers and a timer re-armed after the target time. `SampleTimeDoesNotDrift`
    was tried with five periods and with three nested handlers as well.
    `NoReentry` is checked with `CallPoints` here, and proved for all switch points.
  - *Timing.* The starts 3, 13 and 18 and the durations 7, 13 and 25, with a flush
    interval of 2, give sums below, at and above a second, of the finish line
    and of the delay after it, laps that cross a second, and a finish line
    already within the margin (`0`) or in the past (`-5`). Microseconds of 5 to
    the second and ints up to 7 give periods below, at and above a second, the
    largest int (7), one that becomes negative (8) and one that becomes 0 (16). A
    lap may lose as much as the margin of two laps allows (`MaxLate`).
    The starts 13 and 18 with the durations 7 and 0 meet a sum of exactly one second,
    at the finish line and after it: without its condition
    `CollectReturnsIfAccepted` fails.
  - *Agent.* Two clients allow a call that overlaps another, or follows one that
    failed or was interrupted, and two polling threads, when the first was left
    behind. In each environment the metadata server knows some of the answers, so
    that the clients that differ in the others alone are not told apart. There is no interrupt in
    `agent_two_starts` and `agent_untyped`, which have another cause to show. `MaxFailures` only limits how far the history variable counts; the
    envelope has reached its maximum by then (`AgentAssumption`).

Deadlock is checked for the multiset. The other systems really stop: after the
last profile, or with the polling thread dead or never spawned, when the bounds
on profiles or calls are reached.

Fairness:

  - *Handlers and the profiling thread* (`FairCpuSpec`): the kernel
    schedules every thread. Nothing is assumed of signals. In `LoneSpec` one
    handler alone is scheduled.
  - *Wall* (`FairSpec`): time passes, a running handler goes on, and the polling
    thread, which sleeps 10 ms at a time while it waits, gets the GIL again and
    again although the handler can take it between (strong fairness).
  - *Timing* (`FairSpec`): time passes however many signals arrive (strong
    fairness: the delivery of a signal may come first), and the profiling and the
    forking thread run. Nothing is assumed of the timer.
  - *Agent* (`FairSpec`): every wait of the polling thread ends (requests have
    a timeout, client.py:64; profiles return, as the other components
    show), and building the service succeeds if it is tried for ever.

## 4. What the checks found

  - **Late handlers** (`cpu_late_handlers`). `Reset` clears the static table
    while a handler of the previous profile may be in `Add`: `active_updates` is
    0 with one updater, which is where the trace ends. The `fetch_sub` that
    follows makes it -1, and the spin of the next `Extract` then waits
    for a value that no one restores.
  - **Unencodable name** (`attribution_unencodable`). `GetFuncLoc` replaces a name
    that is not valid UTF-8 by `unknown` but leaves the exception set, and
    `PythonTraces` takes it for a failure of its own: when the next trace merges
    into an earlier one the profile is dropped, and otherwise the dictionary is
    returned with an exception set, which CPython turns into a `SystemError`.
    `profiler.h:117` promises a dictionary.
  - **Stop race** (`wall_stop_race`). The test and the store of `_in_handler` are
    separate bytecodes. In CPython 3.7 to 3.9 `_stop_profiling` can overtake the
    handler between them. With the same constants `HandlerNeverRaises` and
    `ProfileAccountsForTicks` fail too: `_reset` sets `_last_sample_time` to
    `None` under the handler, which raises `TypeError` and leaves the lock held.
    `StopWaits` proves that this is the only cause.
  - **Untyped response** (`agent_untyped`). `profile_type` is unbound in the
    except clause of `_collect_and_upload_profile`; the polling thread ends.
  - **Overlapping starts** (`agent_two_starts`). `_started` is set at the end of
    `start()`; with wall profiling disabled two calls can overlap. With wall
    profiling enabled `signal.signal` refuses any thread but the main one, which
    is what keeps the second polling thread away (`agent`, and `OneThreadPolls`
    for any number of calls), except for the next case.
  - **Interrupted start.** A Ctrl+C between the start of the polling thread in
    `client.start()` and `_started = True`, as in the wait of `Thread.start`,
    leaves the thread running with the flag unset. The next call, in the same
    thread, makes a second polling thread and takes `SIGALRM` for its own profiler.
    `OnePoller` therefore fails in `agent` too; the run checks
    `OnePollerUnlessAbandoned` and `WallHandlerIsCurrent`, which say that nothing
    else does this.
  - **Unsleepable delay.** `time.sleep` in the except clause (`client.py:333`)
    raises for a delay of the server that is negative or too large, and the polling
    thread ends. `agent` has such a delay among its errors: `PollsForever` fails
    there, `PollsForeverIfSensible` leaves out these delays and untyped responses.
  - **Swallowed interrupt** (`agent_interrupt`). `client.py:47-49` argues that
    catching `BaseException` is safe because it happens in the daemon thread.
    `retrieve_gce_metadata` does it in the thread that called `start()`: a Ctrl+C
    during a request to the metadata server, which has no timeout, is logged as a
    failed request and `start()` goes on.
  - **Exact second** (`CarryIsMissedAtOneSecond`, a theorem). `TimeAdd` carries when the
    nanoseconds exceed a second, not when they reach it. A sum of exactly one second
    is not a valid timespec, `clock_nanosleep` refuses it, and `SleepUntil`, which
    repeats its call whatever the error, repeats it for ever.
    The theorem says that no other sum of valid timespecs has this fate;
    `collect_timing` shows that `Collect` returns for every start and duration
    unless it occurs, or the duration is negative enough for negative nanoseconds
    (`CollectReturnsIfAccepted`). About one start in
    10^9 meets it.
  - **Long period** (`ToInt`). The microseconds of the period are
    narrowed to `int` (`profiler.cc:330`): beyond 2147483 ms the timer is refused,
    has another period (4294968 ms become 704 microseconds) or stays off (536870912
    ms become 0). `PeriodHonoured` says that all others are kept, and
    nothing of these.
  - **Name of the service** (`agent`). The docstring of `start()`
    (`__init__.py:51`) has `K_VERSION` as the fallback for the service; the code reads
    `K_SERVICE` (`client.py:176-177`), as the docstring of `config` says, which is the
    one that `DeploymentAsDocumented` takes.

Two behaviours that are by design and shape the properties: `_trace_count` can
exceed the periods that passed, because a late handler counts a tick whose
signal is counted again (hence `Max({Duration, recorded})` in
`ProfileAccountsForTicks`), and a signal tripped before a profile started is
counted in it once `_started` is set.

## 5. Proofs

`AsyncSafeTraceMultisetProofs` proves, for every finite set of threads, every set
of samples, every hash function and every table size:

| Theorem | Statement |
|---|---|
| `TypeCorrect` | `Spec => []TypeOK` |
| `ActiveExact` | `Spec => []ActiveUpdatesExact` |
| `SingleOwner` | `Spec => []LockedByOne` |
| `NoTear` | `Spec => []NoTornAccess` |
| `Inductive` | `Spec => []IInv` |

Assumptions: `SizeAssumption`, `ThreadsAssumption`, `SamplesAssumption` of
`AsyncSafeTraceMultiset`, which TLC evaluates in every run of a module that
extends it.

None of the three properties is inductive alone. `IInv` adds:

  - the locals of each handler agree with its program counter (`LocalsInv`): a
    thread that is inside `Add` has a trace, and its probe is in the table
    until the table is exhausted;
  - a locked entry has exactly one owner (`OwnerInv`, `ExclusionInv`): the
    handler that won the compare-exchange, or `Extract`;
  - the key step, `InspectInv`: while a handler inspects an entry or has yet to
    bump it, no handler owns it. A handler can only reserve an entry whose count
    is 0; the count of an inspected entry goes to 0 only in `ExtractRelease`; and
    `Extract` releases only after it read `active_updates = 0`, which by
    `CountInv` means that no handler is between its `fetch_add` and its
    `fetch_sub`, hence none inspects.

So the argument rests on `ActiveUpdatesExact`, which is proved first with lemmas
on cardinalities (`SignIn`, `SignOut`, `ActiveStep`), and the ownership
invariant is then proved relative to it. Each lemma treats one action.

The second half of the module shows what all of this is for, the refinement of `TraceBag`:

| Theorem | Statement |
|---|---|
| `MultisetImplementsBag` | `Spec => ImplementsBag`: under the refinement mapping the multiset behaves as `TraceBag`, in which a sample is recorded at once and harvested whole |

The samples of the abstract bag are those that the table counts, as pairs of an
entry and a number (`CountedSamples`); those that `Extract` has taken and not yet given
to its caller (`InFlight`) count as harvested. `BagInv` adds to `IInv` that a handler about to count a sample
finds its own trace in the entry (`HandlerBagInv`) and that `Extract` knows the length
of the trace whose samples it takes (`ExtractBagInv`); both are what `LockedByOne`
is worth to the caller. Then every step of a handler is `Begin`, `Record`, `ReturnTrue` or
`Reject` of the bag, or changes nothing of it (`HandleBegins`, `AddRefines`); the exchange of `Extract` that locks
an entry is its harvest (`HarvestRefines`), and everything else is silent.

`AttributionProofs` proves, for every set of addresses and of code objects, all
names and lines, all samples and numbers of profiles:

| Theorem | Statement |
|---|---|
| `UnrecordedCodeIsLive` | `Spec => []UnrecordedIsLive` |
| `HookIsSound` | `Spec => []HookReachesOriginal` |
| `NamesAreOfOccupants` | `Spec => []NamedAfterOccupant` |
| `SamplesAreKept` | `Spec => []NoSampleLost` |
| `ReportIsExact` | `Spec => []ReportExact` |
| `AttributionTypeCorrect` | `Spec => []TypeOK` |

The assumption is `AttributionAssumption`. The first two follow from
`AttributionInv`, which adds the types of the memory (`HeapInv`) and that every
code object that Collect met when it began is still there when the hook is
constructed (`ResetInv`): without it the constructor, which clears what is
recorded, could forget a code object. The third needs `NamedInv`: what is recorded for an address is
the name of a code object that was there while `Collect` ran (`OccupantInv`),
and every address in a trace has had a code object unless the profile is stale
(`SampledInv`, `TraceInv`). The interesting step is `ResolveFrame`: an address
that is not recorded is live with its only occupant, by `UnrecordedIsLive`, so
that the name and the line are of one code object; an address that is recorded
gives the name of some occupant and no line.

`NoSampleLost` is a balance (`CountedInv`): the dictionary so far and the counts of the
traces that are still to be stored add up to the samples, whichever traces merge
into one entry of the dictionary. `ReportExact` refines the balance to one for every
sequence of functions (`RanInv`), with the same sums restricted to the traces
that show it; it needs that a resolved frame has the name of the code object that
was there when it was sampled, which is the last one at its address as long as no
address is used twice (`ObjectInv`). `TypeOK`, whose substance is that no count is 0 or
beyond the samples taken, then follows from the same sums.

`CpuProfileProofs` follows these dictionaries through `Builder`:

| Theorem | Statement |
|---|---|
| `BuilderReadsBack` | for any traces, types and period, what `populate_profile` builds satisfies `Represents` |
| `ProfilesReadBack` | `Spec => []ProfileReadsBack` |

`BuilderReadsBack` is about data only: any function from finite sequences of frames to
counts, of any size. The folds of the model are recursive functions on the positions
still to be folded; that such a function exists, and that it is a chain of steps, one
for each element, is `FoldSolvable` and the lemmas after it, by induction over finite
sets. Along the chain three facts are kept:

  - a table holds nothing twice, and only grows (`Interned`, `Longer`), so that a
    number, once given, always stands for the same entry;
  - every number in an entry refers to an entry of the table it is for
    (`Referring`), so that what a later step adds can not change what is read;
  - a frame that was added has a location whose line and function are those of the
    frame (`HasFrame`, `FrameReadBack`).

Hence a sample reads back as its trace when it is added (`SampleAdded`) and from then on
(`ReadingStays`). The strings of the types come first and stay (`StringsStay`), and an
enumeration of the dictionary names each trace once (`OrderNamesAll`), so that the
samples are the traces, each with its count. `ProfilesReadBack` then needs that
what `Attribution` returns is such a dictionary: its keys are finite sequences of
frames with names and lines of code objects or the ones for unknown
frames (`DictionaryInv`, on top of the types proved in `AttributionProofs`).

`CpuCollectorProofs` carries the multiset through profiles that follow each
other, for any number of profiles, flushes, threads and samples:

| Theorem | Statement |
|---|---|
| `SignalsNeverKill` | `CpuSpec => []NeverKilled` |
| `CpuTypeCorrect` | `CpuSpec => []CpuTypeOK` |
| `ProfilesStayExact` | `~ LateHandlers` gives `CpuSpec => []ActiveUpdatesExact` |
| `ResetsAreSafe` | `~ LateHandlers` gives `CpuSpec => [](LockedByOne /\ NoTornAccess)` |
| `ProfilesAreAccounted` | `~ LateHandlers` gives `CpuSpec => []ProfileAccountsForSamples` |

`KernelInv` relates timer, pending signal and disposition to `cpc`; it needs no
other invariant, so that `NeverKilled` holds whatever the handlers do.
The next two rest on `ProfileInv`, which adds `QuietInv` to the invariants of the
multiset: no handler runs outside of the time between the start of the timer and
the last flush, and no entry is extracted outside of a flush. That is what lets
`Reset` clear entries without regard to counts: the entry that it clears has no
updater (`ClearedActive`). Without `~ LateHandlers` `QuietInv` fails, as
`cpu_late_handlers` shows.

The last one counts samples. `unknown` has forgotten which traces were rejected, so
that `SampledInv` says that numbers `rejected` exist, one for each trace, which add up
to `unknown` and complete, for every trace, what is held (in the aggregate, taken
by `Extract`, counted in the table, or in the hands of a handler) to what was sampled.
A trace without frames is the exception: `Extract` skips it. Every step of
the multiset keeps this balance because it is a step of `TraceBag`, so that the
proof never looks at an atomic operation again. The rest is what happens at
the borders: `Reset` leaves nothing of the profile before (`FreshInv`), and the last
flush, with no handler left to add behind it, leaves nothing in the table
(`FlushedInv`). TLC checked `AccountInv` on the instance of `cpu_profile` first.

Assumptions: `CollectorAssumption`, `SampledAssumption` (the samples are finitely
many, and none of them is the trace that stands for unknown ones) and those of the
multiset.

`CollectTimingProofs` works over all integers and every length of the second:

| Theorem | Statement |
|---|---|
| `CarryIsMissedAtOneSecond` | of valid `t1`, `t2`, `TimeAdd(t1, t2)` is valid exactly if `t1.nsec + t2.nsec # kNanosPerSecond` |
| `LapsEndInTime` | `Spec => []NoOverrun` |
| `SignalsDoNotShorten` | `Spec => []WholeDuration` |
| `PeriodIsHonoured` | `Spec => []PeriodHonoured` |
| `TimingTypeCorrect` | `Spec => []TypeOK` |

Assumptions: `ClockAssumption`, and `TimingAssumption`, whose substance is that the
margin is less than a second, as its fields are multiplied without a carry, and
covers a flush interval and `MaxLate`. `TimingInv` says that the finish line is
`duration` after the start, in nanoseconds (`FinishInv`: sums keep their value
even where the carry is missed), and that what a lap may still take, sleep left
and slack, ends before it (`LapInv`). `TimeLessThan` compares fields, which
is the order of the values only for normal timespecs; the lemmas show that
where the finish line is not normal the comparison errs towards leaving the loop.
`TypeOK` needs that no sleep is longer than the interval between flushes,
interrupted or not (`NapInv`), and that the interval given to `setitimer` is in its
range for every int (`IntervalType`).

`WallProofs` holds for handlers nested to any depth and any number of profiles:

| Theorem | Statement |
|---|---|
| `FlagPreventsReentry` | `Spec => []NoReentry` |
| `StopWaits` | `"set" \notin SwitchPoints` gives `Spec => []StopWaitsForHandler` |
| `HandlerIsSilent` | `"set" \notin SwitchPoints` gives `Spec => []HandlerNeverRaises` |
| `NoDrift` | `"set" \notin SwitchPoints` gives `Spec => []SampleTimeDoesNotDrift` |
| `ProfileKeepsTicks` | `"set" \notin SwitchPoints` gives `Spec => []ProfileAccountsForTicks` |
| `WallTypeCorrect` | `Spec => []TypeOK` |

The first follows from `WallInv`: a handler past its store of `_in_handler` finds
those on top of it at their test, and is not itself on top of such a one. The
condition of the next four is that the GIL is not handed over, and no signal
handled, between the test and the store. `StopInv` then adds that nothing but
handlers at their test is left while the polling thread serializes
(`QuietInv`), who holds the RLock (`LockInv`), and that a handler
about to subtract `_last_sample_time` still has it (`TimeInv`).

`NoDrift` is not inductive as a bound: a handler adds at least one period even
when none has passed. `DriftInv` bounds `_last_sample_time` together with the
handlers that may yet add to it, those on the stack and a signal not yet
handled (`Due`): a tick of the clock that trips a signal pays for the period that its
handler will add. `ProfileKeepsTicks` needs that the traces and the count agree
with what was attributed between handlers, and how much they lag behind it while
one is between `_traces` and `_trace_count` (`TalliedInv`; by `NoReentry` only one is),
that a profile starts from nothing, and that `Builder` sees a dictionary which no
longer changes (`BuiltInv`).

`AgentProofs` holds for any number of threads, calls and clients, any
environment and any arguments:

| Theorem | Statement |
|---|---|
| `StartedIsPolling` | `Spec => []StartedMeansPolling` |
| `PollerHasTheSignal` | `Spec => []WallHandlerIsCurrent` |
| `OneThreadPolls` | `WallInAllCalls` gives `Spec => []OnePollerUnlessAbandoned` |
| `NamedAsDocumented` | `Spec => []DeploymentAsDocumented` |
| `EnvelopeFollowsFailures` | `Spec => []EnvelopeTracksFailures` |
| `AgentTypeCorrect` | `Spec => []AgentTypeOK` |

`StartInv` says that calls have clients of their own and what `config` has found
out by each point; `MarkInv` that a call about to set `_started` has a polling
thread, and that once it is set there is one with a client no call can
still drop. `HandlerInv` has the argument for the signal: a client with a wall
profiler that is past `register`, in its call or with its polling thread, and is not
abandoned, belongs to the main thread and handles `SIGALRM`. A second one would have
been registered by another call in the main thread, later; but the first call has left
`start()` by then, through `Mark`, so that the second was ignored, or through an
interrupt, so that the first is abandoned. A call that was past the test of `_started`
in another thread can not register. `FreshInv` adds that a client has no polling
thread before its call is at `mark`. If every call enables wall profiling, every polled client has a wall profiler
(`WallInv`), and as `SIGALRM` has one handler, there is one. Assumptions:
`ConfigAssumption`, `AgentAssumption`; `WallInAllCalls` (no call disables wall
profiling) can not be dropped, see `agent_two_starts`, nor the exception for abandoned
clients, see the interrupted start in section 4.

`NamesInv` follows a call through `config`: at each point what is already set is the
argument, or else what the environment says in the documented order, the version included;
`PlacedInv` has the zone and the instance, which are those of the metadata server, or none after a
failure or an interrupt of the request. `BackoffInv` says
that the envelope of the backoff in use is the initial one multiplied once for each
failure in a row, up to the maximum; a client has two, one while its service is
built and one after (`Tracks`), and the one used later is fresh until then. `Power` is
unfolded by `Powers`, and the maximum absorbs further failures because it is reached
by `MaxFailures` (`AgentAssumption`).

`FiniteSums` has what the proofs about counters share. The induction theorems of
the library take an operator as a parameter and cannot be used by the provers; the
module states induction with a set instead (`NatSetInduction`, `SubsetInduction`), from
which follow how recursive functions over the naturals unfold
(`PrimitiveRecursion`) and how `SumFunctionOnSet` behaves when an element is
removed, a value changed, a set split or two functions added (`SumRemove`,
`SumUpdate`, `SumUnion`, `SumOfSums`). Nothing is assumed in it.

Only model-checked: liveness, which is out of the prover's reach, like
`ENABLED`: `AddWaitFree`, `HarvestTerminates`, `CollectReturns`, `ForkEnds`,
`CollectReturnsIfAccepted`, `ProfileReturns` and `PollsForeverIfSensible`. All other
properties of the passing runs are theorems.

## 6. Not modelled

  - Weak memory: see above.
  - Two callers of `Extract`, and two profiles at once over the static state of the
    CPU profiler and `tp_dealloc`: excluded by stacktraces.h:59-60 and
    profiler.h:165-167, reachable only through two polling threads.
  - The stack walk. It is a loop over memory of CPython, whose layout and order of
    writes when a frame is pushed or popped are not in this repository; a model
    of them would be of an interpreter that this code only assumes. What the
    walk may return is a constant of the modules that use it, the addresses of
    freed code objects included.
  - The child of a fork, in which the timer is off and the other threads are gone.
  - A metadata server that never answers: `requests.get` has no timeout
    (`client.py:85`), so that no progress of `start()` is assumed or claimed.
  - Serialization of the proto (`emit`): protobuf and gzip.
  - HTTP headers and the discovery URL, log filters, logging, generated code, build
    and test scripts: input and output without shared state.
  - The `atexit` call that disarms `ITIMER_REAL`.

## 7. Plan

Done: the multiset with its refinement, CPU profiles, their timing and forks,
attribution, the builder, wall profiles, configuration and the agent; every safety
property with its proof. What remains:

 1. Two polling threads over the static state of the CPU profiler, with the hook
    installed over itself, as a run of what `agent_two_starts` leads to.
 2. `PopulateFrames`, for one version of CPython whose frame protocol is written
    down first.
