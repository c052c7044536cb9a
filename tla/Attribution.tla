---------------------------- MODULE Attribution ----------------------------
(***************************************************************************)
(* How a CPU profile names the frames it sampled.  A signal handler stores *)
(* the address of a code object and an instruction offset; the names and   *)
(* lines are looked up when the profile is over, by PythonTraces.  In      *)
(* between the program frees code objects and creates others at their      *)
(* addresses: CodeDeallocHook, put in PyCode_Type.tp_dealloc for the time  *)
(* of Collect, records the name of each code object that is freed.         *)
(*                                                                         *)
(* A step of the program, or of the profiling thread while it holds the    *)
(* GIL, is atomic.  The handlers, the multiset and the flushes of module   *)
(* CpuCollector are one step that adds a sample to aggregated_traces_.     *)
(***************************************************************************)
EXTENDS Integers, Sequences, FiniteSets, Functions

CONSTANTS
  Addresses,    \* addresses of PyCodeObjects
  Null,         \* the null PyCodeObject pointer
  Codes,        \* code objects; bound: each is created at most once
  FuncLocOf,    \* the name and file name of each
  LineOf,       \* the line of each instruction offset of each
  Unencodable,  \* names that PyUnicode_AsUTF8 can not encode
  Samples,      \* traces the handler stores
  MayFail,      \* may setitimer and the allocations of PythonTraces fail?
  MaxSamples,   \* bound: samples of a profile
  MaxProfiles   \* bound: profiles collected

\* CallFrame.  A frame without a code object carries a CallTraceErrors code.
kUnknown   == 0
kNoPyState == -1
Frame(p, l) == [py_code |-> p, lineno |-> l]
UnknownTrace == << Frame(Null, kUnknown) >>

CallTraceErrorToName(e) ==
  [name |-> IF e = kNoPyState THEN "[Unknown - No Python thread state]" ELSE "[Unknown]",
   filename |-> ""]

IsEncodable(c) == {FuncLocOf[c].name, FuncLocOf[c].filename} \cap Unencodable = {}

\* GetFuncLoc of a live code object; each name is looked up by itself.
Readable(s) == IF s \in Unencodable THEN "unknown" ELSE s
GetFuncLoc(c) == [name |-> Readable(FuncLocOf[c].name),
                  filename |-> Readable(FuncLocOf[c].filename)]
UnknownLoc == [name |-> "unknown", filename |-> "unknown"]

FuncLocs == {GetFuncLoc(c) : c \in Codes} \cup {UnknownLoc}
              \cup {CallTraceErrorToName(e) : e \in {kUnknown, kNoPyState}}
Frames   == [py_code : Addresses, lineno : Nat]
              \cup {Frame(Null, kUnknown), Frame(Null, kNoPyState)}

ASSUME AttributionAssumption ==
  /\ Null \notin Addresses
  /\ \A c \in Codes : DOMAIN LineOf[c] \subseteq Nat
  /\ Samples \subseteq Seq(Frames)
  /\ UnknownTrace \notin Samples
  /\ MayFail \in BOOLEAN
  /\ MaxSamples \in Nat /\ MaxProfiles \in Nat

VARIABLES
  live,        \* addresses where a code object is
  object,      \* the code object that is, or was last, at an address
  created,     \* code objects created so far
  tp_dealloc,  \* PyCode_Type.tp_dealloc: "code_dealloc" or "CodeDealloc"
  old_code_dealloc,
  deallocated_code,
  cpc,         \* where the profiling thread is in Collect
  aggregated,  \* aggregated_traces_
  unknown,     \* unknown_stack_count_
  todo,        \* traces PythonTraces has yet to visit
  work,        \* the trace it visits
  py_frames,   \* its frames resolved so far
  py_traces,   \* the dictionary under construction
  error,       \* the profiling thread has a Python exception set
  profiles,    \* profiles started
  occupants,   \* history: <<address, code object>> pairs since Collect began
  stale,       \* history: a freed code object was sampled in this profile
  ran          \* history: how often each sequence of functions was sampled

heapVars    == <<live, object, created>>
hookVars    == <<tp_dealloc, old_code_dealloc, deallocated_code>>
sampleVars  == <<aggregated, unknown>>
reportVars  == <<todo, work, py_frames, py_traces, error>>
historyVars == <<occupants, stale, ran>>
vars == <<heapVars, hookVars, cpc, sampleVars, reportVars, profiles, historyVars>>

\* A map and the map with v at k.
EmptyMap == [k \in {} |-> 0]
Put(map, k, v) == [j \in DOMAIN map \cup {k} |-> IF j = k THEN v ELSE map[j]]
Lookup(map, k) == IF k \in DOMAIN map THEN map[k] ELSE 0

Init ==
  /\ live = Addresses
  /\ object \in [Addresses -> Codes] /\ IsInjective(object)
  /\ created = Range(object)
  /\ tp_dealloc = "code_dealloc" /\ old_code_dealloc = "none"
  /\ deallocated_code = EmptyMap
  /\ cpc = "idle"
  /\ aggregated = EmptyMap /\ unknown = 0
  /\ todo = {} /\ work = <<>> /\ py_frames = <<>> /\ py_traces = EmptyMap
  /\ error = FALSE
  /\ profiles = 0
  /\ occupants = {} /\ stale = FALSE /\ ran = EmptyMap

-----------------------------------------------------------------------------
\* The program.  It holds the GIL, which Collect releases while it sleeps and
\* which the garbage collector may release between two allocations of
\* PythonTraces.
ProgramRuns == cpc \in {"idle", "sampling", "loop", "frame"}

\* A code object is created at a free address, perhaps that of an earlier one.
Alloc(a, c) ==
  /\ ProgramRuns
  /\ a \notin live /\ c \notin created
  /\ live' = live \cup {a}
  /\ object' = [object EXCEPT ![a] = c]
  /\ created' = created \cup {c}
  /\ occupants' = IF cpc = "idle" THEN occupants ELSE occupants \cup {<<a, c>>}
  /\ UNCHANGED <<hookVars, cpc, sampleVars, reportVars, profiles, stale, ran>>

\* CodeDealloc: insert keeps the name already recorded for the address.
Recorded(a) ==
  IF a \in DOMAIN deallocated_code
    THEN deallocated_code
    ELSE Put(deallocated_code, a, GetFuncLoc(object[a]))

\* The code object at a is freed through tp_dealloc.  (That an unencodable name
\* leaves an exception in the thread that frees it is left out.)
CodeDealloc(a) ==
  /\ ProgramRuns
  /\ a \in live
  /\ live' = live \ {a}
  /\ deallocated_code' = IF tp_dealloc = "CodeDealloc" THEN Recorded(a)
                                                       ELSE deallocated_code
  /\ UNCHANGED <<object, created, tp_dealloc, old_code_dealloc, cpc, sampleVars,
                 reportVars, profiles, historyVars>>

-----------------------------------------------------------------------------
\* Collect, up to the release of the GIL.

CollectGoto(from, to) == cpc = from /\ cpc' = to

\* Nothing is aggregated or resolved.
NewReport ==
  /\ aggregated' = EmptyMap
  /\ todo' = {} /\ work' = <<>> /\ py_frames' = <<>> /\ py_traces' = EmptyMap
  /\ error' = FALSE
  /\ stale' = FALSE /\ ran' = EmptyMap

\* Mutated form: the names recorded in earlier profiles are kept.
NotCleared == deallocated_code

\* CodeDeallocHook::Reset
Cleared == EmptyMap

\* A new CPUProfiler, and its Reset.
Reset ==
  /\ CollectGoto("idle", "reset")
  /\ profiles < MaxProfiles
  /\ profiles' = profiles + 1
  /\ deallocated_code' = Cleared
  /\ unknown' = 0
  /\ NewReport
  /\ occupants' = {<<a, object[a]>> : a \in live}
  /\ UNCHANGED <<heapVars, tp_dealloc, old_code_dealloc>>

\* The constructor of CodeDeallocHook.
Hook ==
  /\ CollectGoto("reset", "hooked")
  /\ deallocated_code' = Cleared
  /\ old_code_dealloc' = tp_dealloc
  /\ tp_dealloc' = "CodeDealloc"
  /\ UNCHANGED <<heapVars, sampleVars, reportVars, profiles, historyVars>>

\* Mutated form: no destructor on the path of the error.
StartLeavingHook ==
  /\ \/ CollectGoto("hooked", "sampling")
     \/ MayFail /\ CollectGoto("hooked", "idle")
  /\ UNCHANGED <<heapVars, hookVars, sampleVars, reportVars, profiles, historyVars>>

\* Start, and the release of the GIL; or Start fails and Collect returns nullptr.
Start ==
  /\ \/ CollectGoto("hooked", "sampling")
     \/ MayFail /\ CollectGoto("hooked", "failed")
  /\ UNCHANGED <<heapVars, hookVars, sampleVars, reportVars, profiles, historyVars>>

-----------------------------------------------------------------------------
\* Samples.

Taken == SumFunction(aggregated) + unknown

IsLive(fr) == fr.py_code \in live \cup {Null}

\* What the profile should call a frame that is sampled now.
FunctionOf(fr) == IF fr.py_code = Null THEN CallTraceErrorToName(fr.lineno)
                                       ELSE GetFuncLoc(object[fr.py_code])
FunctionsOf(t) == [i \in DOMAIN t |-> FunctionOf(t[i])]
Count(map, k) == Put(map, k, Lookup(map, k) + 1)

\* A handler samples t.  Its walk can meet the remains of a freed frame.
Sample(t) ==
  /\ cpc = "sampling" /\ Taken < MaxSamples
  /\ aggregated' = Count(aggregated, t)
  /\ IF \A i \in DOMAIN t : IsLive(t[i])
       THEN ran' = Count(ran, FunctionsOf(t)) /\ stale' = stale
       ELSE stale' = TRUE /\ ran' = ran
  /\ UNCHANGED <<heapVars, hookVars, cpc, unknown, reportVars, profiles, occupants>>

\* A handler finds no room in the multiset.
SampleUnknown ==
  /\ cpc = "sampling" /\ Taken < MaxSamples
  /\ unknown' = unknown + 1
  /\ ran' = Count(ran, FunctionsOf(UnknownTrace))
  /\ UNCHANGED <<heapVars, hookVars, cpc, aggregated, reportVars, profiles,
                 occupants, stale>>

-----------------------------------------------------------------------------
\* PythonTraces.

\* Mutated form: samples without room are not reported.
StopWithoutUnknown ==
  /\ CollectGoto("sampling", "loop")
  /\ todo' = DOMAIN aggregated
  /\ UNCHANGED <<heapVars, hookVars, sampleVars, work, py_frames, py_traces, error,
                 profiles, historyVars>>

\* Mutated form: the hook goes out of scope when the GIL is taken again.
StopAndUnhook ==
  /\ CollectGoto("sampling", "loop")
  /\ tp_dealloc' = old_code_dealloc
  /\ todo' = DOMAIN aggregated
  /\ UNCHANGED <<heapVars, old_code_dealloc, deallocated_code, sampleVars, work,
                 py_frames, py_traces, error, profiles, historyVars>>

\* Stop, the GIL is taken again, and the unknown samples join the others.
Stop ==
  /\ CollectGoto("sampling", "loop")
  /\ aggregated' = IF unknown > 0
                     THEN Put(aggregated, UnknownTrace,
                              Lookup(aggregated, UnknownTrace) + unknown)
                     ELSE aggregated
  /\ todo' = DOMAIN aggregated'
  /\ UNCHANGED <<heapVars, hookVars, unknown, work, py_frames, py_traces, error,
                 profiles, historyVars>>

\* Mutated form: the frames of the trace before are not dropped.
NextTraceKeepsFrames(t) ==
  /\ CollectGoto("loop", "frame")
  /\ t \in todo
  /\ todo' = todo \ {t}
  /\ work' = t
  /\ UNCHANGED <<heapVars, hookVars, sampleVars, py_frames, py_traces, error,
                 profiles, historyVars>>

\* The loop over aggregated_traces_, whose order is not specified.
NextTrace(t) ==
  /\ CollectGoto("loop", "frame")
  /\ t \in todo
  /\ todo' = todo \ {t}
  /\ work' = t
  /\ py_frames' = <<>>
  /\ UNCHANGED <<heapVars, hookVars, sampleVars, py_traces, error, profiles,
                 historyVars>>

NextFrame == work[Len(py_frames) + 1]
Resolve(loc, lineno) ==
  py_frames' = Append(py_frames, [name |-> loc.name, filename |-> loc.filename,
                                  line |-> lineno])

\* A frame without a code object is named by its error code.
ErrorFrame ==
  /\ NextFrame.py_code = Null
  /\ Resolve(CallTraceErrorToName(NextFrame.lineno), NextFrame.lineno)
  /\ UNCHANGED error

\* Find: the code object was freed meanwhile, and its line table with it.
DeallocatedFrame ==
  /\ NextFrame.py_code \in DOMAIN deallocated_code
  /\ Resolve(deallocated_code[NextFrame.py_code], 0)
  /\ UNCHANGED error

\* The names come from the code object that is there now.
LiveFrame ==
  /\ NextFrame.py_code \in live \ DOMAIN deallocated_code
  /\ LET c == object[NextFrame.py_code]
     IN  /\ Resolve(GetFuncLoc(c), LineOf[c][NextFrame.lineno])
         /\ error' = (error \/ ~IsEncodable(c))

\* There is none: the memory fails the test of GetFuncLoc, or still looks like
\* a code object and yields any name and line.
StaleFrame ==
  /\ NextFrame.py_code \in Addresses \ (live \cup DOMAIN deallocated_code)
  /\ \/ Resolve(UnknownLoc, 0)
     \/ \E c \in Codes : Resolve(GetFuncLoc(c), LineOf[c][NextFrame.lineno])
  /\ UNCHANGED error

ResolveFrame ==
  /\ cpc = "frame" /\ Len(py_frames) < Len(work)
  /\ ErrorFrame \/ DeallocatedFrame \/ LiveFrame \/ StaleFrame
  /\ UNCHANGED <<heapVars, hookVars, cpc, sampleVars, todo, work, py_traces,
                 profiles, historyVars>>

\* Mutated form: a trace that reads like an earlier one replaces it.
StoreOverwrites ==
  /\ CollectGoto("frame", "loop")
  /\ Len(py_frames) = Len(work)
  /\ py_traces' = Put(py_traces, py_frames, aggregated[work])
  /\ UNCHANGED <<heapVars, hookVars, sampleVars, todo, work, py_frames, error,
                 profiles, historyVars>>

\* Traces that read alike are merged; the test for an error of the conversion
\* of the earlier count sees any exception that is set.
StoreTrace ==
  /\ cpc = "frame" /\ Len(py_frames) = Len(work)
  /\ IF error /\ py_frames \in DOMAIN py_traces
       THEN cpc' = "failed" /\ UNCHANGED py_traces
       ELSE /\ cpc' = "loop"
            /\ py_traces' = Put(py_traces, py_frames,
                                Lookup(py_traces, py_frames) + aggregated[work])
  /\ UNCHANGED <<heapVars, hookVars, sampleVars, todo, work, py_frames, error,
                 profiles, historyVars>>

\* An allocation of the loop fails.
OutOfMemory ==
  /\ MayFail /\ cpc \in {"loop", "frame"}
  /\ cpc' = "failed"
  /\ error' = TRUE
  /\ UNCHANGED <<heapVars, hookVars, sampleVars, todo, work, py_frames, py_traces,
                 profiles, historyVars>>

PythonTracesReturns ==
  /\ CollectGoto("loop", "returned")
  /\ todo = {}
  /\ UNCHANGED <<heapVars, hookVars, sampleVars, reportVars, profiles, historyVars>>

\* The destructor of CodeDeallocHook, on every way out of Collect.  What is
\* local to Collect, and the CPUProfiler with its aggregated traces, go too.
Unhook ==
  /\ CollectGoto("returned", "idle") \/ CollectGoto("failed", "idle")
  /\ tp_dealloc' = old_code_dealloc
  /\ NewReport
  /\ occupants' = {}
  /\ UNCHANGED <<heapVars, old_code_dealloc, deallocated_code, unknown, profiles>>

-----------------------------------------------------------------------------
Next ==
  \/ \E a \in Addresses : (\E c \in Codes : Alloc(a, c)) \/ CodeDealloc(a)
  \/ Reset \/ Hook \/ Start
  \/ (\E t \in Samples : Sample(t)) \/ SampleUnknown
  \/ Stop \/ (\E t \in todo : NextTrace(t)) \/ ResolveFrame \/ StoreTrace
  \/ OutOfMemory \/ PythonTracesReturns \/ Unhook

Spec == Init /\ [][Next]_vars

-----------------------------------------------------------------------------
TypeOK ==
  /\ live \subseteq Addresses /\ created \subseteq Codes
  /\ object \in [Addresses -> Codes]
  /\ tp_dealloc \in {"code_dealloc", "CodeDealloc"}
  /\ old_code_dealloc \in {"none", "code_dealloc", "CodeDealloc"}
  /\ DOMAIN deallocated_code \subseteq Addresses /\ Range(deallocated_code) \subseteq FuncLocs
  /\ cpc \in {"idle", "reset", "hooked", "sampling", "loop", "frame", "returned", "failed"}
  /\ DOMAIN aggregated \subseteq Samples \cup {UnknownTrace}
  /\ Range(aggregated) \subseteq 1 .. MaxSamples
  /\ unknown \in 0 .. MaxSamples
  /\ todo \subseteq DOMAIN aggregated
  /\ Len(py_frames) <= Len(work)
  /\ Range(py_traces) \subseteq 1 .. MaxSamples
  /\ error \in BOOLEAN /\ stale \in BOOLEAN
  /\ profiles \in 0 .. MaxProfiles
  /\ occupants \subseteq Addresses \X Codes

(***************************************************************************)
(* "Not recorded by CodeDeallocHook: assume live" (profiler.cc:234): every *)
(* code object of the program that existed while Collect ran is still at   *)
(* its address unless that address is recorded, so PythonTraces never      *)
(* takes freed memory, or a newcomer, for the code object of a sample.     *)
(***************************************************************************)
UnrecordedIsLive ==
  cpc # "idle" =>
    \A p \in occupants :
      p[1] \in DOMAIN deallocated_code \/ (p[1] \in live /\ object[p[1]] = p[2])

(***************************************************************************)
(* The hook is in place exactly while Collect needs it, and passes on to   *)
(* the function of the interpreter: it never calls itself, whatever        *)
(* profiles failed before.                                                 *)
(***************************************************************************)
HookReachesOriginal ==
  /\ tp_dealloc = "CodeDealloc" => old_code_dealloc = "code_dealloc"
  /\ tp_dealloc = "CodeDealloc" <=> cpc \notin {"idle", "reset"}

(***************************************************************************)
(* A frame is named after a code object that was at its address while      *)
(* Collect ran, with no line or with the line of that very code object,    *)
(* even if the address was reused; it never shows what an earlier profile  *)
(* recorded.  Profiles that sampled the remains of a freed frame apart.    *)
(***************************************************************************)
NamedAfterOccupant ==
  cpc = "frame" /\ ~stale =>
    \A i \in DOMAIN py_frames : work[i].py_code # Null =>
      \E p \in occupants :
        /\ p[1] = work[i].py_code
        /\ py_frames[i].name = GetFuncLoc(p[2]).name
        /\ py_frames[i].filename = GetFuncLoc(p[2]).filename
        /\ py_frames[i].line \in {0, LineOf[p[2]][work[i].lineno]}

Reused == \E p, q \in occupants : p[1] = q[1] /\ p # q
Names(fs) == [i \in DOMAIN fs |-> [name |-> fs[i].name, filename |-> fs[i].filename]]

(***************************************************************************)
(* The dictionary says of every sequence of functions how often it was     *)
(* sampled, unknown samples included, if no address was reused meanwhile:  *)
(* whatever was freed, and whichever traces were merged.                   *)
(***************************************************************************)
ReportExact ==
  cpc = "returned" /\ ~stale /\ ~Reused =>
    \A k \in DOMAIN ran \cup {Names(fs) : fs \in DOMAIN py_traces} :
      Lookup(ran, k)
        = SumFunctionOnSet(py_traces, {fs \in DOMAIN py_traces : Names(fs) = k})

(***************************************************************************)
(* No sample is lost or invented by merging, stale or reused addresses or  *)
(* not: the counts of the dictionary add up to the samples of the profile. *)
(***************************************************************************)
NoSampleLost == cpc = "returned" => SumFunction(py_traces) = SumFunction(aggregated)

(***************************************************************************)
(* PythonTraces "returns the traces as a Python dictionary object, which   *)
(* maps a trace to its count" (profiler.h:117): as long as no allocation   *)
(* fails, it returns one, and not an exception.                            *)
(***************************************************************************)
TracesReturned == ~MayFail => cpc # "failed" /\ (cpc = "returned" => ~error)
=============================================================================
