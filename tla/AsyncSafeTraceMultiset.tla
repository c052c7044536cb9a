----------------------- MODULE AsyncSafeTraceMultiset -----------------------
(***************************************************************************)
(* The fixed-size, lock-free multiset of stack traces that the SIGPROF     *)
(* handlers fill and the profiling thread empties (stacktraces.h,          *)
(* stacktraces.cc), together with the two callers that use it:             *)
(* Profiler::Handle, which adds one sampled trace, and HarvestSamples,     *)
(* which extracts every entry into the growable TraceMultiset.             *)
(*                                                                         *)
(* One step is one atomic access to shared memory, with the thread-local   *)
(* work around it; memory is sequentially consistent.  A copy or a         *)
(* comparison of a whole trace is an interval, the time a thread spends at *)
(* one program counter, and takes effect at its end; NoTornAccess says     *)
(* that no write interval overlaps a read interval of the same entry.      *)
(***************************************************************************)
EXTENDS Integers, Sequences, FiniteSets

CONSTANTS
  Threads,     \* threads in which a SIGPROF handler may run
  Frames,      \* CallFrame values (py_code, lineno)
  NullFrame,   \* the all-zero CallFrame that memset leaves in a buffer
  MaxFrames,   \* kMaxFramesToCapture
  Samples,     \* the traces that PopulateFrames can return
  Hash,        \* CalculateHash, a function on Samples
  MaxEntries,  \* kMaxStackTraces
  MaxCalls     \* bound: number of Handle calls explored

\* Sequences of at most MaxFrames frames: what a frame buffer can hold.
Traces == UNION {[1 .. n -> Frames \cup {NullFrame}] : n \in 0 .. MaxFrames}

Slots == 0 .. MaxEntries - 1

ASSUME SizeAssumption ==
  MaxEntries \in Nat \ {0} /\ MaxFrames \in Nat /\ MaxCalls \in Nat
ASSUME ThreadsAssumption == IsFiniteSet(Threads)
ASSUME SamplesAssumption == Samples \subseteq Traces /\ Hash \in [Samples -> Nat]

kTraceCountLocked == -1

VARIABLES
  \* traces_[s]: TraceData
  count,       \* count: 0 unused, kTraceCountLocked reserved, else samples
  active,      \* active_updates
  numFrames,   \* trace.num_frames
  buffer,      \* frame_buffer
  \* Profiler::Handle and AsyncSafeTraceMultiset::Add, per thread
  pc,          \* where the handler of the thread is
  trace,       \* the trace being added
  probe,       \* i, the number of entries already passed over
  seen,        \* count as reloaded before the compare-exchange
  unknown,     \* unknown_stack_count_
  calls,       \* number of Handle calls started
  \* HarvestSamples and AsyncSafeTraceMultiset::Extract
  xpc,         \* where the extraction is
  xloc,        \* i, the location being extracted
  xnum,        \* num_frames
  xcount,      \* c
  xframes,     \* frames
  aggregated   \* aggregated_traces_, the TraceMultiset

tableVars   == <<count, active, numFrames, buffer>>
handlerVars == <<pc, trace, probe, seen, unknown, calls>>
extractVars == <<xpc, xloc, xnum, xcount, xframes, aggregated>>
vars        == <<tableVars, handlerVars, extractVars>>

-----------------------------------------------------------------------------
\* The constructor: memset of the table; an empty TraceMultiset.
TableInit ==
  /\ count     = [s \in Slots |-> 0]
  /\ active    = [s \in Slots |-> 0]
  /\ numFrames = [s \in Slots |-> 0]
  /\ buffer    = [s \in Slots |-> [k \in 1 .. MaxFrames |-> NullFrame]]

HandlerInit ==
  /\ pc      = [th \in Threads |-> "idle"]
  /\ trace   = [th \in Threads |-> <<>>]
  /\ probe   = [th \in Threads |-> 0]
  /\ seen    = [th \in Threads |-> 0]
  /\ unknown = 0
  /\ calls   = 0

ExtractInit ==
  /\ xpc        = "idle"
  /\ xloc       = 0
  /\ xnum       = 0
  /\ xcount     = 0
  /\ xframes    = <<>>
  /\ aggregated = [t \in Traces |-> 0]

Init == TableInit /\ HandlerInit /\ ExtractInit

-----------------------------------------------------------------------------
\* The trace saved in entry s.
EntryTrace(s) == SubSeq(buffer[s], 1, numFrames[s])

\* idx: open addressing from the hash of the trace.
Slot(th) == (probe[th] + Hash[trace[th]]) % MaxEntries

Goto(th, from, to) ==
  /\ pc[th] = from
  /\ pc' = [pc EXCEPT ![th] = to]

\* The handler returns; its locals go out of scope.
Return(th) ==
  /\ pc'    = [pc EXCEPT ![th] = "idle"]
  /\ trace' = [trace EXCEPT ![th] = <<>>]
  /\ probe' = [probe EXCEPT ![th] = 0]
  /\ seen'  = [seen EXCEPT ![th] = 0]

\* SIGPROF interrupts the thread; PopulateFrames yields t; Add is called.
\* The signal is blocked while its handler runs, so a thread runs one at a time.
Handle(th, t) ==
  /\ calls < MaxCalls
  /\ Goto(th, "idle", "enter")
  /\ trace' = [trace EXCEPT ![th] = t]
  /\ calls' = calls + 1
  /\ UNCHANGED <<probe, seen, unknown, tableVars, extractVars>>

\* active_updates.fetch_add(1)
AddEnter(th) ==
  /\ Goto(th, "enter", "load")
  /\ active' = [active EXCEPT ![Slot(th)] = @ + 1]
  /\ UNCHANGED <<count, numFrames, buffer, trace, probe, seen, unknown, calls,
                 extractVars>>

\* The branch that the switch on the loaded count takes.
AddBranch(c) ==
  CASE c = 0                 -> "reserve"
    [] c = kTraceCountLocked -> "leave"
    [] OTHER                 -> "compare"

\* count.load()
AddLoad(th) ==
  /\ Goto(th, "load", AddBranch(count[Slot(th)]))
  /\ UNCHANGED <<trace, probe, seen, unknown, calls, tableVars, extractVars>>

\* count.compare_exchange_weak(0, kTraceCountLocked); it may fail spuriously.
AddReserve(th) ==
  /\ \/ /\ Goto(th, "reserve", "reserved")
        /\ count[Slot(th)] = 0
        /\ count' = [count EXCEPT ![Slot(th)] = kTraceCountLocked]
     \/ /\ Goto(th, "reserve", "leave")
        /\ UNCHANGED count
  /\ UNCHANGED <<active, numFrames, buffer, trace, probe, seen, unknown, calls,
                 extractVars>>

\* active_updates.fetch_sub(1), early: the entry is reserved.
AddReserved(th) ==
  /\ Goto(th, "reserved", "write")
  /\ active' = [active EXCEPT ![Slot(th)] = @ - 1]
  /\ UNCHANGED <<count, numFrames, buffer, trace, probe, seen, unknown, calls,
                 extractVars>>

\* The copy loop into frame_buffer; frames beyond num_frames stay as they were.
AddWrite(th) ==
  /\ Goto(th, "write", "publish")
  /\ buffer' = [buffer EXCEPT ![Slot(th)] =
                  [k \in 1 .. MaxFrames |->
                     IF k <= Len(trace[th]) THEN trace[th][k] ELSE @[k]]]
  /\ numFrames' = [numFrames EXCEPT ![Slot(th)] = Len(trace[th])]
  /\ UNCHANGED <<count, active, trace, probe, seen, unknown, calls, extractVars>>

\* count.store(1); return true
AddPublish(th) ==
  /\ pc[th] = "publish"
  /\ count' = [count EXCEPT ![Slot(th)] = 1]
  /\ Return(th)
  /\ UNCHANGED <<active, numFrames, buffer, unknown, calls, extractVars>>

\* num_frames and Equal()
AddCompare(th) ==
  /\ Goto(th, "compare", IF EntryTrace(Slot(th)) = trace[th] THEN "reload" ELSE "leave")
  /\ UNCHANGED <<trace, probe, seen, unknown, calls, tableVars, extractVars>>

\* count.load() again, and the test that Extract has not locked the entry.
AddReload(th) ==
  /\ \/ /\ Goto(th, "reload", "bump")
        /\ count[Slot(th)] # kTraceCountLocked
        /\ seen' = [seen EXCEPT ![th] = count[Slot(th)]]
     \/ /\ Goto(th, "reload", "leave")
        /\ count[Slot(th)] = kTraceCountLocked
        /\ UNCHANGED seen
  /\ UNCHANGED <<trace, probe, unknown, calls, tableVars, extractVars>>

\* Mutated form: a plain store in place of the compare-exchange.
AddBumpByStore(th) ==
  /\ Goto(th, "bump", "bumped")
  /\ count' = [count EXCEPT ![Slot(th)] = seen[th] + 1]
  /\ UNCHANGED <<active, numFrames, buffer, trace, probe, seen, unknown, calls,
                 extractVars>>

\* count.compare_exchange_weak(count, count + 1); it may fail spuriously.
AddBump(th) ==
  /\ \/ /\ Goto(th, "bump", "bumped")
        /\ count[Slot(th)] = seen[th]
        /\ count' = [count EXCEPT ![Slot(th)] = seen[th] + 1]
     \/ /\ Goto(th, "bump", "leave")
        /\ UNCHANGED count
  /\ UNCHANGED <<active, numFrames, buffer, trace, probe, seen, unknown, calls,
                 extractVars>>

\* active_updates.fetch_sub(1); return true
AddBumped(th) ==
  /\ pc[th] = "bumped"
  /\ active' = [active EXCEPT ![Slot(th)] = @ - 1]
  /\ Return(th)
  /\ UNCHANGED <<count, numFrames, buffer, unknown, calls, extractVars>>

\* Mutated form: the update is not signed off when nothing was done.
AddLeaveStillActive(th) ==
  /\ Goto(th, "leave", IF probe[th] + 1 < MaxEntries THEN "enter" ELSE "full")
  /\ probe' = [probe EXCEPT ![th] = @ + 1]
  /\ UNCHANGED <<trace, seen, unknown, calls, tableVars, extractVars>>

\* Mutated form: one probe too many.
AddLeaveOneTooFar(th) ==
  /\ Goto(th, "leave", IF probe[th] + 1 <= MaxEntries THEN "enter" ELSE "full")
  /\ active' = [active EXCEPT ![Slot(th)] = @ - 1]
  /\ probe' = [probe EXCEPT ![th] = @ + 1]
  /\ UNCHANGED <<count, numFrames, buffer, trace, seen, unknown, calls, extractVars>>

\* Mutated form: wait for the entry instead of moving on to the next one.
AddLeaveAndRetry(th) ==
  /\ Goto(th, "leave", "enter")
  /\ active' = [active EXCEPT ![Slot(th)] = @ - 1]
  /\ UNCHANGED <<count, numFrames, buffer, trace, probe, seen, unknown, calls,
                 extractVars>>

\* active_updates.fetch_sub(1) after doing nothing; on to the next entry, or
\* return false after the last one.
AddLeave(th) ==
  /\ Goto(th, "leave", IF probe[th] + 1 < MaxEntries THEN "enter" ELSE "full")
  /\ active' = [active EXCEPT ![Slot(th)] = @ - 1]
  /\ probe' = [probe EXCEPT ![th] = @ + 1]
  /\ UNCHANGED <<count, numFrames, buffer, trace, seen, unknown, calls, extractVars>>

\* Handle: Add returned false, the sample is counted as unknown.
CountUnknown(th) ==
  /\ pc[th] = "full"
  /\ unknown' = unknown + 1
  /\ Return(th)
  /\ UNCHANGED <<calls, tableVars, extractVars>>

AddStep(th) ==
  \/ AddEnter(th)   \/ AddLoad(th)    \/ AddReserve(th) \/ AddReserved(th)
  \/ AddWrite(th)   \/ AddPublish(th) \/ AddCompare(th) \/ AddReload(th)
  \/ AddBump(th)    \/ AddBumped(th)  \/ AddLeave(th)   \/ CountUnknown(th)

-----------------------------------------------------------------------------
\* Flush calls HarvestSamples: Extract is called on location 0.
HarvestStart ==
  /\ xpc = "idle"
  /\ xpc' = "load"
  /\ xloc' = 0
  /\ UNCHANGED <<xnum, xcount, xframes, aggregated, tableVars, handlerVars>>

\* The loop moves to the next location, or HarvestSamples returns.
NextLocation ==
  /\ IF xloc + 1 < MaxEntries
     THEN xpc' = "load" /\ xloc' = xloc + 1
     ELSE xpc' = "idle" /\ xloc' = 0
  /\ xnum' = 0
  /\ xcount' = 0
  /\ xframes' = <<>>

\* count.load(); an unused or reserved entry is skipped.
ExtractLoad ==
  /\ xpc = "load"
  /\ IF count[xloc] <= 0
     THEN NextLocation
     ELSE xpc' = "num" /\ UNCHANGED <<xloc, xnum, xcount, xframes>>
  /\ UNCHANGED <<aggregated, tableVars, handlerVars>>

\* trace.num_frames, capped by max_frames
ExtractNum ==
  /\ xpc = "num"
  /\ xpc' = "lock"
  /\ xnum' = IF numFrames[xloc] > MaxFrames THEN MaxFrames ELSE numFrames[xloc]
  /\ UNCHANGED <<xloc, xcount, xframes, aggregated, tableVars, handlerVars>>

\* Mutated form: the count loaded first is stored over, not exchanged.
ExtractLockByStore ==
  /\ xpc = "lock"
  /\ xpc' = "copy"
  /\ xcount' = 1
  /\ count' = [count EXCEPT ![xloc] = kTraceCountLocked]
  /\ UNCHANGED <<xloc, xnum, xframes, aggregated, active, numFrames, buffer,
                 handlerVars>>

\* c = count.exchange(kTraceCountLocked)
ExtractLock ==
  /\ xpc = "lock"
  /\ xpc' = "copy"
  /\ xcount' = count[xloc]
  /\ count' = [count EXCEPT ![xloc] = kTraceCountLocked]
  /\ UNCHANGED <<xloc, xnum, xframes, aggregated, active, numFrames, buffer,
                 handlerVars>>

\* The copy loop out of the entry.
ExtractCopy ==
  /\ xpc = "copy"
  /\ xpc' = "spin"
  /\ xframes' = SubSeq(buffer[xloc], 1, xnum)
  /\ UNCHANGED <<xloc, xnum, xcount, aggregated, tableVars, handlerVars>>

\* Mutated form: the entry is released without waiting for inspecting threads.
ExtractNoSpin ==
  /\ xpc = "spin"
  /\ xpc' = "release"
  /\ UNCHANGED <<xloc, xnum, xcount, xframes, aggregated, tableVars, handlerVars>>

\* The spin loop: left when active_updates.load() is 0.
ExtractSpin ==
  /\ xpc = "spin"
  /\ active[xloc] = 0
  /\ xpc' = "release"
  /\ UNCHANGED <<xloc, xnum, xcount, xframes, aggregated, tableVars, handlerVars>>

\* TraceMultiset::Add by HarvestSamples, which drops a trace without frames.
Aggregate(t, n) ==
  aggregated' = IF Len(t) > 0 /\ n > 0 THEN [aggregated EXCEPT ![t] = @ + n]
                                       ELSE aggregated

\* count.store(0); the extracted trace is added to the TraceMultiset.
ExtractRelease ==
  /\ xpc = "release"
  /\ count' = [count EXCEPT ![xloc] = 0]
  /\ Aggregate(xframes, xcount)
  /\ NextLocation
  /\ UNCHANGED <<active, numFrames, buffer, handlerVars>>

ExtractStep ==
  \/ ExtractLoad \/ ExtractNum  \/ ExtractLock
  \/ ExtractCopy \/ ExtractSpin \/ ExtractRelease

-----------------------------------------------------------------------------
Next ==
  \/ \E th \in Threads : \E t \in Samples : Handle(th, t)
  \/ \E th \in Threads : AddStep(th)
  \/ HarvestStart
  \/ ExtractStep

Spec == Init /\ [][Next]_vars

\* The kernel keeps running every handler, and the profiling thread: no step of
\* Add or Extract waits except the spin on active_updates.
FairSpec ==
  /\ Spec
  /\ \A th \in Threads : WF_vars(AddStep(th))
  /\ WF_vars(ExtractStep)

-----------------------------------------------------------------------------
\* Threads between fetch_add and fetch_sub on active_updates of entry s.
Updating(s) ==
  {th \in Threads :
     /\ pc[th] \in {"load", "reserve", "reserved", "compare", "reload", "bump",
                    "bumped", "leave"}
     /\ Slot(th) = s}

\* Threads that won the reservation of entry s and have not published it yet.
Reserving(s) ==
  {th \in Threads : pc[th] \in {"reserved", "write", "publish"} /\ Slot(th) = s}

\* Threads that read, or rely on having read, the trace of entry s.
Inspecting(s) ==
  {th \in Threads : pc[th] \in {"compare", "reload", "bump"} /\ Slot(th) = s}

\* The profiling thread holds the lock on entry s.
Extracting(s) == xpc \in {"copy", "spin", "release"} /\ xloc = s

PCs == {"idle", "enter", "load", "reserve", "reserved", "write", "publish",
        "compare", "reload", "bump", "bumped", "leave", "full"}

XPCs == {"idle", "load", "num", "lock", "copy", "spin", "release"}

TypeOK ==
  /\ count \in [Slots -> Int]
  /\ active \in [Slots -> Int]
  /\ numFrames \in [Slots -> 0 .. MaxFrames]
  /\ buffer \in [Slots -> [1 .. MaxFrames -> Frames \cup {NullFrame}]]
  /\ pc \in [Threads -> PCs]
  /\ trace \in [Threads -> Traces]
  /\ probe \in [Threads -> 0 .. MaxEntries]
  /\ seen \in [Threads -> Int]
  /\ unknown \in Nat
  /\ calls \in 0 .. MaxCalls
  /\ xpc \in XPCs
  /\ xloc \in Slots
  /\ xnum \in 0 .. MaxFrames
  /\ xcount \in Int
  /\ xframes \in Traces
  /\ aggregated \in [Traces -> Int]

(***************************************************************************)
(* active_updates is the "number of active attempts to increase the        *)
(* counter on the trace" (stacktraces.h:104), at every instant and on      *)
(* every path of Add, early returns included.                              *)
(***************************************************************************)
ActiveUpdatesExact == \A s \in Slots : active[s] = Cardinality(Updating(s))

(***************************************************************************)
(* An entry is locked exactly while one thread owns it: a handler that     *)
(* reserved it in Add, or the profiling thread in Extract, never two.      *)
(***************************************************************************)
LockedByOne ==
  \A s \in Slots :
    /\ count[s] = kTraceCountLocked <=> Reserving(s) # {} \/ Extracting(s)
    /\ Cardinality(Reserving(s)) <= 1
    /\ ~ (Reserving(s) # {} /\ Extracting(s))

(***************************************************************************)
(* No entry is rewritten while another thread inspects its trace: not      *)
(* while Add compares it, and not from the moment Extract reads num_frames *)
(* until it has copied the frames.  This is what the wait for              *)
(* active_updates in Extract is for (stacktraces.h:67-69).                 *)
(***************************************************************************)
NoTornAccess ==
  \A s \in Slots :
    Reserving(s) # {} =>
      /\ Inspecting(s) = {}
      /\ ~ (xloc = s /\ xpc \in {"num", "lock", "copy"})

(***************************************************************************)
(* Every extraction ends: the entry that Extract locks is released, since  *)
(* the additions that keep it waiting are bounded in number and never wait *)
(* for Extract themselves (the spin of stacktraces.cc:95-99).              *)
(***************************************************************************)
HarvestTerminates == (xpc # "idle") ~> (xpc = "idle")
=============================================================================
