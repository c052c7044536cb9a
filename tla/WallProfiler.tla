---------------------------- MODULE WallProfiler ----------------------------
(***************************************************************************)
(* The wall-time profiler (pythonprofiler.py): the polling thread runs     *)
(* profile(), the main thread runs _handler whenever the interpreter finds *)
(* SIGALRM tripped.  A handler is itself Python code: the interpreter may  *)
(* hand the GIL to the polling thread, or run the handler again on top of  *)
(* itself, at the points of it in SwitchPoints.  CPython 3.7 to 3.9 does   *)
(* so between any two bytecodes, 3.10 and later only where a function      *)
(* starts and after a call.  A step reads or writes one attribute, or two  *)
(* when no other order of the accesses has another outcome.                *)
(*                                                                         *)
(* Time is counted in sampling periods.                                    *)
(***************************************************************************)
EXTENDS Integers, Sequences, FiniteSets, FiniteSetsExt

CONSTANTS
  Stacks,        \* call stacks of the main thread, as _record_trace sees them
  UnknownStack,  \* (('unknown', 'unknown', 0),)
  None,
  Duration,      \* duration_ns, in periods
  SwitchPoints,  \* the points of _handler where the interpreter may switch
  MaxNesting,    \* bound: handlers running on top of one another
  MaxOverrun,    \* bound: periods that pass after the target time
  MaxProfiles    \* bound: profiles collected

HandlerPoints == {"check", "set", "lock", "test", "diff", "advance", "store", "unlock",
                  "get", "put", "count", "add", "exit"}

ASSUME WallAssumption ==
  /\ Duration \in Nat \ {0}
  /\ UnknownStack \notin Stacks
  /\ SwitchPoints \subseteq HandlerPoints
  /\ MaxNesting \in Nat /\ MaxOverrun \in Nat /\ MaxProfiles \in Nat

VARIABLES
  \* The operating system and the interpreter.
  clock,        \* default_timer()
  armed,        \* ITIMER_REAL
  tripped,      \* SIGALRM arrived, its Python handler has not run yet
  \* The profiler and the main thread.
  self,         \* the attributes of WallProfiler
  stack,        \* running handlers with their locals, the innermost first
  raised,       \* a handler raised an exception into the program
  recorded,     \* history: ticks attributed to stacks during this profile
  \* The polling thread.
  ppc,          \* where profile() is
  closing,      \* _reset is the one of _serialize_and_clear_traces
  target,       \* target_time
  remaining,    \* profile_duration
  size,         \* entries of _traces when the iteration started
  todo,         \* entries not iterated over yet
  profile,      \* the samples of the profile being built
  profiles      \* profiles started

systemVars == <<clock, armed, tripped>>
mainVars   == <<stack, raised, recorded>>
loopVars   == <<closing, target, remaining, profiles>>
buildVars  == <<size, todo, profile>>
pollVars   == <<ppc, loopVars, buildVars>>
wallVars   == <<systemVars, self, mainVars, pollVars>>

NoTraces == <<>>   \* an empty dict: the function with empty domain

\* dict[k] = n
With(dict, k, n) == [j \in DOMAIN dict \cup {k} |-> IF j = k THEN n ELSE dict[j]]

\* _sample_time_lock, an RLock: how often the main thread holds it, 0 when it is
\* free, or held once by the polling thread.
HeldByPolling == -1

Init ==
  /\ clock = 0 /\ armed = FALSE /\ tripped = FALSE
  /\ self = [traces |-> NoTraces, dict |-> 0, in_handler |-> FALSE,
             started |-> FALSE, last_sample_time |-> None, trace_count |-> 0,
             lock |-> 0]
  /\ stack = <<>> /\ raised = FALSE /\ recorded = 0
  /\ ppc = "idle" /\ closing = FALSE /\ target = 0 /\ remaining = 0
  /\ size = 0 /\ todo = {} /\ profile = NoTraces /\ profiles = 0

-----------------------------------------------------------------------------
\* The operating system and the interpreter.

\* A period passes.  SIGALRM trips a flag, which absorbs further ones.
Tick ==
  /\ clock < target + MaxOverrun
  /\ clock' = clock + 1
  /\ tripped' = (tripped \/ armed)
  /\ UNCHANGED <<armed, self, mainVars, pollVars>>

\* The interpreter may leave the code that the main thread runs.
Switchable == stack # <<>> => Head(stack).pc \in SwitchPoints

\* The main thread finds SIGALRM tripped and calls _handler.
CallHandler(t) ==
  /\ tripped /\ Switchable /\ Len(stack) < MaxNesting
  /\ tripped' = FALSE
  /\ stack' = <<[pc |-> "check", trace |-> t, now |-> 0, ticks |-> 1, value |-> 0,
                 dict |-> 0]>> \o stack
  /\ UNCHANGED <<clock, armed, self, raised, recorded, pollVars>>

-----------------------------------------------------------------------------
\* The main thread in _handler.  me is the innermost handler.

me == Head(stack)

At(point) == stack # <<>> /\ me.pc = point

Become(handler) == stack' = <<handler>> \o Tail(stack)

GotoPoint(point) == Become([me EXCEPT !.pc = point])

ReturnFromHandler == stack' = Tail(stack)

\* Mutated form: reentry is not prevented.
HandlerCheckStartedOnly ==
  /\ At("check")
  /\ IF ~ self.started THEN ReturnFromHandler ELSE GotoPoint("set")
  /\ UNCHANGED <<raised, recorded, self>>

\* if not self._started or self._in_handler: return
HandlerCheck ==
  /\ At("check")
  /\ IF ~ self.started \/ self.in_handler THEN ReturnFromHandler ELSE GotoPoint("set")
  /\ UNCHANGED <<raised, recorded, self>>

\* self._in_handler = True, and _record_trace
HandlerSet ==
  /\ At("set")
  /\ self' = [self EXCEPT !.in_handler = TRUE]
  /\ GotoPoint("lock")
  /\ UNCHANGED <<raised, recorded>>

\* The lock is acquired and default_timer() called.
HandlerLock ==
  /\ At("lock")
  /\ self.lock # HeldByPolling
  /\ self' = [self EXCEPT !.lock = @ + 1]
  /\ Become([me EXCEPT !.pc = "test", !.now = clock])
  /\ UNCHANGED <<raised, recorded>>

\* The first sample since _last_sample_time was cleared counts for one tick.
HandlerTest ==
  /\ At("test")
  /\ IF self.last_sample_time = None
     THEN /\ self' = [self EXCEPT !.last_sample_time = me.now]
          /\ recorded' = recorded + 1
          /\ Become([me EXCEPT !.pc = "unlock", !.now = 0])
     ELSE GotoPoint("diff") /\ UNCHANGED <<recorded, self>>
  /\ UNCHANGED raised

\* Arithmetic on None raises a TypeError, which leaves every handler and enters
\* the program; the lock and _in_handler stay as they are.
RaiseTypeError == stack' = <<>> /\ raised' = TRUE

\* Mutated form: the tick of the current period is counted beside the missed ones.
HandlerDiffOneMore ==
  /\ At("diff")
  /\ \/ /\ self.last_sample_time # None
        /\ LET n == Max({1, 1 + me.now - self.last_sample_time})
           IN  /\ Become([me EXCEPT !.pc = "advance", !.now = 0, !.ticks = n])
               /\ recorded' = recorded + n
        /\ UNCHANGED raised
     \/ self.last_sample_time = None /\ RaiseTypeError /\ UNCHANGED recorded
  /\ UNCHANGED self

\* signal_tick_count: missed ticks are attributed to this stack.
HandlerDiff ==
  /\ At("diff")
  /\ \/ /\ self.last_sample_time # None
        /\ LET n == Max({1, me.now - self.last_sample_time})
           IN  /\ Become([me EXCEPT !.pc = "advance", !.now = 0, !.ticks = n])
               /\ recorded' = recorded + n
        /\ UNCHANGED raised
     \/ self.last_sample_time = None /\ RaiseTypeError /\ UNCHANGED recorded
  /\ UNCHANGED self

\* _last_sample_time += ...: the read and the write.
HandlerAdvance ==
  /\ At("advance")
  /\ \/ /\ self.last_sample_time # None
        /\ Become([me EXCEPT !.pc = "store", !.value = self.last_sample_time + me.ticks])
        /\ UNCHANGED raised
     \/ self.last_sample_time = None /\ RaiseTypeError
  /\ UNCHANGED <<recorded, self>>

HandlerStore ==
  /\ At("store")
  /\ self' = [self EXCEPT !.last_sample_time = me.value]
  /\ Become([me EXCEPT !.pc = "unlock", !.value = 0])
  /\ UNCHANGED <<raised, recorded>>

\* Mutated form: the lock stays with the main thread.
HandlerUnlockForgotten ==
  /\ At("unlock")
  /\ GotoPoint("get")
  /\ UNCHANGED <<raised, recorded, self>>

HandlerUnlock ==
  /\ At("unlock")
  /\ self' = [self EXCEPT !.lock = @ - 1]
  /\ GotoPoint("get")
  /\ UNCHANGED <<raised, recorded>>

\* self._traces[trace] += signal_tick_count: a defaultdict inserts what it lacks;
HandlerGet ==
  /\ At("get")
  /\ LET n == IF me.trace \in DOMAIN self.traces THEN self.traces[me.trace] ELSE 0
     IN  /\ Become([me EXCEPT !.pc = "put", !.dict = self.dict, !.value = n])
         /\ self' = [self EXCEPT !.traces = With(@, me.trace, n)]
  /\ UNCHANGED <<raised, recorded>>

\* the sum is stored in the same dict, garbage if _reset has replaced it.
HandlerPut ==
  /\ At("put")
  /\ self' = IF me.dict = self.dict
             THEN [self EXCEPT !.traces = With(@, me.trace, me.value + me.ticks)]
             ELSE self
  /\ Become([me EXCEPT !.pc = "count", !.dict = 0, !.value = 0])
  /\ UNCHANGED <<raised, recorded>>

\* self._trace_count += signal_tick_count: the read and the write.
HandlerCount ==
  /\ At("count")
  /\ Become([me EXCEPT !.pc = "add", !.value = self.trace_count])
  /\ UNCHANGED <<raised, recorded, self>>

HandlerAdd ==
  /\ At("add")
  /\ self' = [self EXCEPT !.trace_count = me.value + me.ticks]
  /\ GotoPoint("exit")
  /\ UNCHANGED <<raised, recorded>>

\* self._in_handler = False
HandlerExit ==
  /\ At("exit")
  /\ self' = [self EXCEPT !.in_handler = FALSE]
  /\ ReturnFromHandler
  /\ UNCHANGED <<raised, recorded>>

HandlerStep ==
  /\ \/ HandlerCheck \/ HandlerSet    \/ HandlerLock \/ HandlerTest
     \/ HandlerDiff  \/ HandlerAdvance \/ HandlerStore \/ HandlerUnlock
     \/ HandlerGet   \/ HandlerPut    \/ HandlerCount \/ HandlerAdd
     \/ HandlerExit
  /\ UNCHANGED <<systemVars, pollVars>>

-----------------------------------------------------------------------------
\* The polling thread in profile().

PollGoto(from, to) == ppc = from /\ ppc' = to

\* profile() is called; it starts with _reset.
ProfileStart ==
  /\ PollGoto("idle", "clear_traces")
  /\ profiles < MaxProfiles
  /\ profiles' = profiles + 1
  /\ closing' = FALSE
  /\ UNCHANGED <<armed, self, recorded, target, remaining, buildVars>>

\* _reset: three stores
ClearTraces ==
  /\ PollGoto("clear_traces", "clear_time")
  /\ self' = [self EXCEPT !.traces = NoTraces, !.dict = @ + 1]
  /\ UNCHANGED <<armed, recorded, loopVars, buildVars>>

ClearTime ==
  /\ PollGoto("clear_time", "clear_count")
  /\ self' = [self EXCEPT !.last_sample_time = None]
  /\ UNCHANGED <<armed, recorded, loopVars, buildVars>>

ClearCount ==
  /\ PollGoto("clear_count", IF closing THEN "return" ELSE "start")
  /\ self' = [self EXCEPT !.trace_count = 0]
  /\ target' = IF closing THEN target ELSE clock + Duration
  /\ UNCHANGED <<armed, recorded, closing, remaining, buildVars, profiles>>

\* _start_profiling
SetStarted ==
  /\ PollGoto("start", "arm")
  /\ self' = [self EXCEPT !.started = TRUE]
  /\ recorded' = 0
  /\ UNCHANGED <<armed, loopVars, buildVars>>

Arm ==
  /\ PollGoto("arm", "sleep")
  /\ armed' = TRUE
  /\ UNCHANGED <<self, recorded, loopVars, buildVars>>

\* time.sleep returns, maybe early; the lock is acquired.
WakeUp ==
  /\ PollGoto("sleep", "pause")
  /\ self.lock = 0
  /\ self' = [self EXCEPT !.lock = HeldByPolling]
  /\ UNCHANGED <<armed, recorded, loopVars, buildVars>>

\* The timer is off while default_timer() and the subtraction allocate.
Pause ==
  /\ PollGoto("pause", "rearm")
  /\ armed' = FALSE
  /\ remaining' = target - clock
  /\ UNCHANGED <<self, recorded, closing, target, buildVars, profiles>>

Rearm ==
  /\ PollGoto("rearm", "forget")
  /\ armed' = TRUE
  /\ UNCHANGED <<self, recorded, loopVars, buildVars>>

\* _last_sample_time = None; the lock is released; the loop is tested.
Forget ==
  /\ PollGoto("forget", IF remaining > 0 THEN "sleep" ELSE "disarm")
  /\ self' = [self EXCEPT !.last_sample_time = None, !.lock = 0]
  /\ UNCHANGED <<armed, recorded, loopVars, buildVars>>

\* _stop_profiling
Disarm ==
  /\ PollGoto("disarm", "stop")
  /\ armed' = FALSE
  /\ UNCHANGED <<self, recorded, loopVars, buildVars>>

ClearStarted ==
  /\ PollGoto("stop", "wait")
  /\ self' = [self EXCEPT !.started = FALSE]
  /\ UNCHANGED <<armed, recorded, loopVars, buildVars>>

\* Mutated form: the last handler is not waited for.
WaitSkipped ==
  /\ PollGoto("wait", "unknown")
  /\ UNCHANGED <<armed, self, recorded, loopVars, buildVars>>

\* while self._in_handler
Wait ==
  /\ PollGoto("wait", "unknown")
  /\ ~ self.in_handler
  /\ UNCHANGED <<armed, self, recorded, loopVars, buildVars>>

\* Mutated form: every expected tick is counted as unknown.
AddUnknownAll ==
  /\ PollGoto("unknown", "iterate")
  /\ LET unknown == Duration
         filled  == IF unknown > 0 THEN With(self.traces, UnknownStack, unknown)
                                   ELSE self.traces
     IN  /\ self' = [self EXCEPT !.traces = filled]
         /\ size' = Cardinality(DOMAIN filled)
         /\ todo' = DOMAIN filled
  /\ profile' = NoTraces
  /\ UNCHANGED <<armed, recorded, loopVars>>

\* unknown_trace_count; populate_profile starts to iterate over _traces.
AddUnknown ==
  /\ PollGoto("unknown", "iterate")
  /\ LET unknown == Duration - self.trace_count
         filled  == IF unknown > 0 THEN With(self.traces, UnknownStack, unknown)
                                   ELSE self.traces
     IN  /\ self' = [self EXCEPT !.traces = filled]
         /\ size' = Cardinality(DOMAIN filled)
         /\ todo' = DOMAIN filled
  /\ profile' = NoTraces
  /\ UNCHANGED <<armed, recorded, loopVars>>

\* One sample is added, or the iteration ends.  A dict whose size has changed
\* raises a RuntimeError, and profile() ends with it.
Iterate ==
  /\ ppc = "iterate"
  /\ IF Cardinality(DOMAIN self.traces) # size
     THEN ppc' = "idle" /\ profile' = NoTraces /\ UNCHANGED <<closing, todo>>
     ELSE \/ /\ todo = {}
             /\ ppc' = "clear_traces" /\ closing' = TRUE
             /\ UNCHANGED <<todo, profile>>
          \/ \E t \in todo :
               /\ profile' = With(profile, t, self.traces[t])
               /\ todo' = todo \ {t}
               /\ UNCHANGED <<ppc, closing>>
  /\ UNCHANGED <<armed, self, recorded, target, remaining, size, profiles>>

\* emit; the locals go out of scope.
ProfileReturn ==
  /\ PollGoto("return", "idle")
  /\ remaining' = 0 /\ size' = 0 /\ profile' = NoTraces
  /\ UNCHANGED <<armed, self, recorded, closing, target, todo, profiles>>

PollStep ==
  /\ Switchable
  /\ \/ ClearTraces \/ ClearTime \/ ClearCount \/ SetStarted \/ Arm \/ WakeUp
     \/ Pause \/ Rearm \/ Forget \/ Disarm \/ ClearStarted \/ Wait \/ AddUnknown
     \/ Iterate \/ ProfileReturn
  /\ UNCHANGED <<clock, tripped, stack, raised>>

Next ==
  \/ Tick
  \/ \E t \in Stacks : CallHandler(t)
  \/ HandlerStep
  \/ Switchable /\ ProfileStart /\ UNCHANGED <<clock, tripped, stack, raised>>
  \/ PollStep

Spec == Init /\ [][Next]_wallVars

\* Time passes, a running handler goes on, and the polling thread gets the GIL
\* again and again however often the handler runs.
FairSpec == Spec /\ WF_wallVars(Tick) /\ WF_wallVars(HandlerStep) /\ SF_wallVars(PollStep)

-----------------------------------------------------------------------------
TypeOK ==
  /\ clock \in Nat /\ target \in Nat /\ recorded \in Nat
  /\ armed \in BOOLEAN /\ tripped \in BOOLEAN /\ raised \in BOOLEAN
  /\ closing \in BOOLEAN
  /\ DOMAIN self.traces \subseteq Stacks \cup {UnknownStack}
  /\ self.last_sample_time \in Nat \cup {None}
  /\ self.trace_count \in Nat
  /\ self.lock \in HeldByPolling .. MaxNesting
  /\ Len(stack) <= MaxNesting
  /\ \A i \in 1 .. Len(stack) : stack[i].pc \in HandlerPoints
  /\ size \in Nat
  /\ profiles \in 0 .. MaxProfiles

\* The ticks of a dict of samples.
Ticks(samples) == SumFunction(samples)

\* profile() is past the wait for the last handler.
Serializing == ppc \in {"unknown", "iterate", "return"} \/ (closing /\ ppc # "idle")

(***************************************************************************)
(* _stop_profiling "waits for the last handler to finish": no handler will *)
(* change an attribute while the traces are serialized and cleared, so     *)
(* that the iteration cannot fail and _reset loses nothing.                *)
(***************************************************************************)
StopWaitsForHandler ==
  Serializing => \A i \in 1 .. Len(stack) : stack[i].pc = "check"

(***************************************************************************)
(* "Simply using a bool flag to prevent reentry is fine"                   *)
(* (pythonprofiler.py:175-177): although a handler may start between the   *)
(* test and the store of the flag, no two handlers are ever between their  *)
(* stores, so no += of one loses what another added.                       *)
(***************************************************************************)
NoReentry ==
  \A i, j \in 1 .. Len(stack) :
    stack[i].pc \notin {"check", "set"} /\ stack[j].pc \notin {"check", "set"} => i = j

(***************************************************************************)
(* The handler never raises an exception into the program it samples: no   *)
(* _reset clears _last_sample_time between its test and its use.           *)
(***************************************************************************)
HandlerNeverRaises == ~ raised

(***************************************************************************)
(* A profile holds every tick that a handler attributed to a stack since   *)
(* the profile started, and no other, and unknown ticks up to the number   *)
(* expected for the duration.                                              *)
(***************************************************************************)
ProfileAccountsForTicks ==
  ppc = "return" => Ticks(profile) = Max({Duration, recorded})

(***************************************************************************)
(* Attributing missed ticks does not drift: a handler that is late enough  *)
(* to see the next period counts it, and the signal of that period counts  *)
(* it again, but _last_sample_time runs ahead of the clock by at most the  *)
(* handlers due at one time, however long the profile is.                  *)
(***************************************************************************)
SampleTimeDoesNotDrift ==
  self.last_sample_time # None => self.last_sample_time <= clock + MaxNesting

(***************************************************************************)
(* profile() returns or raises: the wait for the last handler and for the  *)
(* lock of _last_sample_time ends.                                         *)
(***************************************************************************)
ProfileReturns == (ppc # "idle") ~> (ppc = "idle")
=============================================================================
