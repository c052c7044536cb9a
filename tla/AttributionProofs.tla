------------------------- MODULE AttributionProofs -------------------------
(***************************************************************************)
(* The hook on the deallocation of code objects does its work for every    *)
(* set of addresses and code objects, any number of samples and profiles,  *)
(* and whatever fails.                                                     *)
(***************************************************************************)
EXTENDS Attribution, FiniteSums, TLAPS

\* The Profiler is Reset while the GIL is held, before the hook is in place:
\* until then every code object of the program is where it was.
ResetInv ==
  cpc = "reset" => \A p \in occupants : p[1] \in live /\ object[p[1]] = p[2]

HookInv == tp_dealloc \in {"code_dealloc", "CodeDealloc"} /\ HookReachesOriginal

HeapInv == live \subseteq Addresses /\ object \in [Addresses -> Codes]

\* The strengthening of UnrecordedIsLive that is inductive.
AttributionInv == HeapInv /\ HookInv /\ ResetInv /\ UnrecordedIsLive

-----------------------------------------------------------------------------
(***************************************************************************)
(* CodeDealloc leaves an address recorded, and forgets none: insert only   *)
(* adds to deallocated_code_.                                              *)
(***************************************************************************)
LEMMA RecordedDomain ==
  ASSUME NEW a
  PROVE  DOMAIN Recorded(a) = DOMAIN deallocated_code \cup {a}
BY DEF Recorded, Put

(***************************************************************************)
(* The hook is installed and removed on every path of Collect.             *)
(***************************************************************************)
LEMMA HookStep ==
  ASSUME HookInv, [Next]_vars
  PROVE  HookInv'
<1> USE DEF HookInv, HookReachesOriginal
<1>1. CASE \E a \in Addresses : (\E c \in Codes : Alloc(a, c)) \/ CodeDealloc(a)
  BY <1>1 DEF Alloc, CodeDealloc, hookVars
<1>2. CASE Reset \/ Hook \/ Start
  BY <1>2 DEF Reset, Hook, Start, CollectGoto, hookVars
<1>3. CASE (\E t \in Samples : Sample(t)) \/ SampleUnknown
  BY <1>3 DEF Sample, SampleUnknown, hookVars
<1>4. CASE Stop \/ \E t \in todo : NextTrace(t)
  BY <1>4 DEF Stop, NextTrace, CollectGoto, hookVars
<1>5. CASE ResolveFrame \/ StoreTrace \/ OutOfMemory \/ PythonTracesReturns
  BY <1>5 DEF ResolveFrame, StoreTrace, OutOfMemory, PythonTracesReturns, CollectGoto, hookVars
<1>6. CASE Unhook
  BY <1>6 DEF Unhook, CollectGoto
<1>7. CASE UNCHANGED vars
  BY <1>7 DEF vars, hookVars
<1> QED
  BY <1>1, <1>2, <1>3, <1>4, <1>5, <1>6, <1>7 DEF Next

(***************************************************************************)
(* Creating a code object disturbs none that is there.                     *)
(***************************************************************************)
LEMMA AllocStep ==
  ASSUME AttributionInv, NEW a \in Addresses, NEW c \in Codes, Alloc(a, c)
  PROVE  HeapInv' /\ ResetInv' /\ UnrecordedIsLive'
<1> USE DEF AttributionInv, Alloc, ProgramRuns, hookVars
<1>1. HeapInv'
  BY DEF HeapInv
<1>2. ResetInv'
  BY DEF ResetInv
<1>3. ASSUME cpc' # "idle", NEW p \in occupants'
      PROVE  p[1] \in DOMAIN deallocated_code' \/ (p[1] \in live' /\ object'[p[1]] = p[2])
  <2>1. CASE p = <<a, c>>
    BY <2>1 DEF HeapInv
  <2>2. CASE p \in occupants
    BY <1>3, <2>2 DEF HeapInv, UnrecordedIsLive
  <2> QED
    BY <1>3, <2>1, <2>2
<1> QED
  BY <1>1, <1>2, <1>3 DEF UnrecordedIsLive

(***************************************************************************)
(* A code object that is freed during a profile is recorded.               *)
(***************************************************************************)
LEMMA DeallocStep ==
  ASSUME AttributionInv, NEW a \in Addresses, CodeDealloc(a)
  PROVE  HeapInv' /\ ResetInv' /\ UnrecordedIsLive'
<1> USE DEF AttributionInv, CodeDealloc, ProgramRuns
<1>1. HeapInv' /\ ResetInv'
  BY DEF HeapInv, ResetInv
<1>2. ASSUME cpc' # "idle", NEW p \in occupants'
      PROVE  p[1] \in DOMAIN deallocated_code' \/ (p[1] \in live' /\ object'[p[1]] = p[2])
  <2>1. tp_dealloc = "CodeDealloc"
    BY <1>2 DEF HookInv, HookReachesOriginal
  <2>2. DOMAIN deallocated_code' = DOMAIN deallocated_code \cup {a}
    BY <2>1, RecordedDomain
  <2>3. p[1] \in DOMAIN deallocated_code \/ (p[1] \in live /\ object[p[1]] = p[2])
    BY <1>2 DEF UnrecordedIsLive, historyVars
  <2> QED
    BY <2>2, <2>3
<1> QED
  BY <1>1, <1>2 DEF UnrecordedIsLive

(***************************************************************************)
(* Collect starts from what the program holds, and clears the records only *)
(* before anything can be freed unrecorded.                                *)
(***************************************************************************)
LEMMA CollectStep ==
  ASSUME AttributionInv, Reset \/ Hook \/ Unhook
  PROVE  HeapInv' /\ ResetInv' /\ UnrecordedIsLive'
<1> USE DEF AttributionInv, CollectGoto, heapVars
<1>1. CASE Reset
  BY <1>1 DEF Reset, HeapInv, ResetInv, UnrecordedIsLive
<1>2. CASE Hook
  BY <1>2 DEF Hook, historyVars, HeapInv, ResetInv, UnrecordedIsLive
<1>3. CASE Unhook
  BY <1>3 DEF Unhook, HeapInv, ResetInv, UnrecordedIsLive
<1> QED
  BY <1>1, <1>2, <1>3

\* Every other step leaves the heap, the records and the occupants alone.
Elsewhere ==
  /\ UNCHANGED <<live, object, deallocated_code, occupants>>
  /\ cpc \notin {"idle", "reset"} \/ UNCHANGED cpc
  /\ cpc' \notin {"idle", "reset"} \/ UNCHANGED cpc

\* A step that leaves memory, hook and record alone disturbs nothing.
LEMMA ElsewhereStep ==
  ASSUME AttributionInv, Elsewhere
  PROVE  HeapInv' /\ ResetInv' /\ UnrecordedIsLive'
BY DEF AttributionInv, Elsewhere, HeapInv, ResetInv, UnrecordedIsLive

(***************************************************************************)
(* All steps but those of the program, of Reset and of the hook are such.  *)
(***************************************************************************)
LEMMA ElsewhereCases ==
  ASSUME [Next]_vars
  PROVE  \/ Elsewhere \/ Reset \/ Hook \/ Unhook
         \/ \E a \in Addresses : (\E c \in Codes : Alloc(a, c)) \/ CodeDealloc(a)
<1> USE DEF Elsewhere, heapVars, hookVars, historyVars
<1>1. CASE Start \/ (\E t \in Samples : Sample(t)) \/ SampleUnknown
  BY <1>1 DEF Start, Sample, SampleUnknown, CollectGoto
<1>2. CASE Stop \/ (\E t \in todo : NextTrace(t)) \/ ResolveFrame
  BY <1>2 DEF Stop, NextTrace, ResolveFrame, CollectGoto
<1>3. CASE StoreTrace \/ OutOfMemory \/ PythonTracesReturns
  BY <1>3 DEF StoreTrace, OutOfMemory, PythonTracesReturns, CollectGoto
<1>4. CASE UNCHANGED vars
  BY <1>4 DEF vars
<1> QED
  BY <1>1, <1>2, <1>3, <1>4 DEF Next

(***************************************************************************)
(* The invariant is inductive.                                             *)
(***************************************************************************)
LEMMA AttributionStep ==
  ASSUME AttributionInv, [Next]_vars
  PROVE  AttributionInv'
<1>1. HookInv'
  BY HookStep DEF AttributionInv
<1>2. HeapInv' /\ ResetInv' /\ UnrecordedIsLive'
  BY AllocStep, DeallocStep, CollectStep, ElsewhereStep, ElsewhereCases
<1> QED
  BY <1>1, <1>2 DEF AttributionInv

(***************************************************************************)
(* It holds at first, with a code object at every address.                 *)
(***************************************************************************)
LEMMA AttributionInit == Init => AttributionInv
BY DEF Init, AttributionInv, HeapInv, HookInv, HookReachesOriginal, ResetInv,
   UnrecordedIsLive

(***************************************************************************)
(* A code object sampled by a profile is either recorded as freed or still *)
(* at its address when PythonTraces looks for it (profiler.cc:225-242).    *)
(***************************************************************************)
THEOREM UnrecordedCodeIsLive == Spec => []UnrecordedIsLive
<1>1. AttributionInv => UnrecordedIsLive
  BY DEF AttributionInv
<1> QED
  BY <1>1, AttributionInit, AttributionStep, PTL DEF Spec

(***************************************************************************)
(* CodeDealloc is tp_dealloc exactly while Collect needs it, and never the *)
(* function it passes on to (profiler.h:57-67).                            *)
(***************************************************************************)
THEOREM HookIsSound == Spec => []HookReachesOriginal
<1>1. AttributionInv => HookReachesOriginal
  BY DEF AttributionInv, HookInv
<1> QED
  BY <1>1, AttributionInit, AttributionStep, PTL DEF Spec

-----------------------------------------------------------------------------
\* Towards NamedAfterOccupant.

AllTraces == Samples \cup {UnknownTrace}

\* What a frame can be resolved to.
PyLines == {kUnknown, kNoPyState} \cup {LineOf[c][o] : c \in Codes, o \in Nat}
PyFrame(loc, l) == [name |-> loc.name, filename |-> loc.filename, line |-> l]
PyFrames == {PyFrame(loc, l) : loc \in FuncLocs, l \in PyLines}

TraceInv ==
  /\ DOMAIN aggregated \subseteq AllTraces
  /\ todo \subseteq AllTraces
  /\ cpc = "frame" => work \in AllTraces
  /\ py_frames \in Seq(PyFrames)

\* The occupants are those that hold an address now and those that a name is
\* recorded of.
OccupantInv ==
  /\ occupants \subseteq Addresses \X Codes
  /\ cpc # "idle" =>
       /\ \A a \in live : <<a, object[a]>> \in occupants
       /\ \A a \in DOMAIN deallocated_code :
            \E p \in occupants : p[1] = a /\ deallocated_code[a] = GetFuncLoc(p[2])

\* Every frame of t was at an address that was occupied during the profile.
Known(t) ==
  \A i \in DOMAIN t : t[i].py_code # Null => \E p \in occupants : p[1] = t[i].py_code

SampledInv ==
  ~stale =>
    /\ \A t \in DOMAIN aggregated \cup todo : Known(t)
    /\ cpc = "frame" => Known(work)

NamedInv ==
  /\ AttributionInv /\ OccupantInv /\ TraceInv /\ SampledInv /\ NamedAfterOccupant

(***************************************************************************)
(* Every trace is a sequence of frames.                                    *)
(***************************************************************************)
LEMMA TracesAreSequences == AllTraces \subseteq Seq(Frames)
<1>1. Frame(Null, kUnknown) \in Frames
  BY DEF Frames
<1>2. UnknownTrace \in Seq(Frames)
  BY <1>1 DEF UnknownTrace
<1> QED
  BY <1>2, AttributionAssumption DEF AllTraces

(***************************************************************************)
(* The steps of the program and of Collect keep track of the occupants: an *)
(* address is recorded with the name of a code object that was there.      *)
(***************************************************************************)
LEMMA OccupantStep ==
  ASSUME AttributionInv, OccupantInv, [Next]_vars
  PROVE  OccupantInv'
<1> USE DEF AttributionInv, OccupantInv
<1>1. ASSUME NEW a \in Addresses, NEW c \in Codes, Alloc(a, c)
      PROVE  OccupantInv'
  <2> USE <1>1 DEF Alloc, hookVars
  <2>1. occupants' \subseteq Addresses \X Codes
    OBVIOUS
  <2>2. ASSUME cpc' # "idle", NEW b \in live'
        PROVE  <<b, object'[b]>> \in occupants'
    BY <2>2 DEF HeapInv
  <2>3. ASSUME cpc' # "idle", NEW b \in DOMAIN deallocated_code'
        PROVE  \E p \in occupants' : p[1] = b /\ deallocated_code'[b] = GetFuncLoc(p[2])
    BY <2>3
  <2> QED
    BY <2>1, <2>2, <2>3
<1>2. ASSUME NEW a \in Addresses, CodeDealloc(a)
      PROVE  OccupantInv'
  <2> USE <1>2 DEF CodeDealloc, historyVars
  <2>1. ASSUME cpc # "idle", NEW b \in DOMAIN deallocated_code'
        PROVE  \E p \in occupants : p[1] = b /\ deallocated_code'[b] = GetFuncLoc(p[2])
    <3>1. tp_dealloc = "CodeDealloc" => deallocated_code' = Recorded(a)
      OBVIOUS
    <3>2. CASE b \in DOMAIN deallocated_code
      <4>1. deallocated_code'[b] = deallocated_code[b]
        BY <3>2, <2>1 DEF Recorded, Put
      <4> QED
        BY <2>1, <3>2, <4>1
    <3>3. CASE b \notin DOMAIN deallocated_code
      <4>1. b = a /\ deallocated_code'[b] = GetFuncLoc(object[a])
        BY <3>3, <2>1 DEF Recorded, Put
      <4>2. <<a, object[a]>> \in occupants
        BY <2>1
      <4> QED
        BY <4>1, <4>2
    <3> QED
      BY <3>2, <3>3
  <2> QED
    BY <2>1
<1>3. CASE Reset
  BY <1>3 DEF Reset, CollectGoto, heapVars, Cleared, EmptyMap, HeapInv
<1>4. CASE Hook
  BY <1>4 DEF Hook, CollectGoto, heapVars, historyVars, Cleared, EmptyMap
<1>5. CASE Unhook
  BY <1>5 DEF Unhook, CollectGoto
<1>6. CASE Elsewhere
  BY <1>6 DEF Elsewhere
<1> QED
  BY <1>1, <1>2, <1>3, <1>4, <1>5, <1>6, ElsewhereCases DEF Next

(***************************************************************************)
(* A resolved frame has the name of a code object, or of an error.         *)
(***************************************************************************)
LEMMA ResolvedFrame ==
  ASSUME AttributionInv, OccupantInv, TraceInv, ResolveFrame
  PROVE  \E f \in PyFrames : py_frames' = Append(py_frames, f)
<1> USE DEF ResolveFrame
<1>1. NextFrame \in Frames /\ Len(py_frames) + 1 \in DOMAIN work
  <2>1. work \in Seq(Frames) /\ py_frames \in Seq(PyFrames)
    BY TracesAreSequences DEF TraceInv
  <2> QED
    BY <2>1 DEF NextFrame
<1>2. ASSUME NEW loc \in FuncLocs, NEW l \in PyLines, Resolve(loc, l)
      PROVE  \E f \in PyFrames : py_frames' = Append(py_frames, f)
  <2>1. PyFrame(loc, l) \in PyFrames
    BY DEF PyFrames
  <2>2. py_frames' = Append(py_frames, PyFrame(loc, l))
    BY <1>2 DEF Resolve, PyFrame
  <2> QED
    BY <2>1, <2>2
<1>3. \A c \in Codes : GetFuncLoc(c) \in FuncLocs
  BY DEF FuncLocs
<1>4. UnknownLoc \in FuncLocs
  BY DEF FuncLocs
<1>5. 0 \in PyLines /\ {kUnknown, kNoPyState} \subseteq PyLines
       /\ \A c \in Codes, o \in Nat : LineOf[c][o] \in PyLines
  BY DEF PyLines, kUnknown
<1>6. NextFrame.py_code \in Addresses => NextFrame.lineno \in Nat
  BY <1>1, AttributionAssumption DEF Frames, Frame
<1>7. CASE ErrorFrame
  <2>1. NextFrame.lineno \in {kUnknown, kNoPyState}
    BY <1>1, <1>7, AttributionAssumption DEF ErrorFrame, Frames, Frame
  <2>2. CallTraceErrorToName(NextFrame.lineno) \in FuncLocs
    BY <2>1 DEF FuncLocs
  <2> QED
    BY <1>2, <1>5, <1>7, <2>1, <2>2 DEF ErrorFrame
<1>8. CASE DeallocatedFrame
  <2>1. deallocated_code[NextFrame.py_code] \in FuncLocs
    BY <1>3, <1>8 DEF DeallocatedFrame, OccupantInv
  <2> QED
    BY <1>2, <1>5, <1>8, <2>1 DEF DeallocatedFrame
<1>9. CASE LiveFrame
  <2> DEFINE c == object[NextFrame.py_code]
  <2>1. c \in Codes /\ NextFrame.lineno \in Nat
    BY <1>6, <1>9 DEF LiveFrame, AttributionInv, HeapInv
  <2>2. Resolve(GetFuncLoc(c), LineOf[c][NextFrame.lineno])
    BY <1>9 DEF LiveFrame
  <2> QED
    BY <1>2, <1>3, <1>5, <2>1, <2>2
<1>10. CASE StaleFrame
  BY <1>2, <1>3, <1>4, <1>5, <1>6, <1>10 DEF StaleFrame
<1> QED
  BY <1>7, <1>8, <1>9, <1>10

(***************************************************************************)
(* PythonTraces visits traces that were sampled, and resolves their frames *)
(* one by one.                                                             *)
(***************************************************************************)
LEMMA TraceStep ==
  ASSUME AttributionInv, OccupantInv, TraceInv, [Next]_vars
  PROVE  TraceInv'
<1> USE DEF TraceInv
<1>1. CASE \E a \in Addresses : (\E c \in Codes : Alloc(a, c)) \/ CodeDealloc(a)
  BY <1>1 DEF Alloc, CodeDealloc, sampleVars, reportVars
<1>2. CASE Reset \/ Unhook
  <2>1. NewReport /\ cpc' # "frame"
    BY <1>2 DEF Reset, Unhook, CollectGoto
  <2>2. DOMAIN aggregated' = {} /\ todo' = {} /\ py_frames' = <<>>
    BY <2>1 DEF NewReport, EmptyMap
  <2> QED
    BY <2>1, <2>2
<1>3. CASE Hook \/ Start \/ SampleUnknown
  BY <1>3 DEF Hook, Start, SampleUnknown, sampleVars, reportVars, CollectGoto
<1>4. ASSUME NEW t \in Samples, Sample(t)
      PROVE  TraceInv'
  BY <1>4 DEF Sample, reportVars, Count, Put, AllTraces
<1>5. CASE Stop
  BY <1>5 DEF Stop, CollectGoto, Put, AllTraces
<1>6. ASSUME NEW t \in todo, NextTrace(t)
      PROVE  TraceInv'
  BY <1>6 DEF NextTrace, CollectGoto, sampleVars
<1>7. CASE ResolveFrame
  <2>1. PICK f \in PyFrames : py_frames' = Append(py_frames, f)
    BY <1>7, ResolvedFrame
  <2>2. UNCHANGED <<aggregated, todo, work, cpc>>
    BY <1>7 DEF ResolveFrame, sampleVars
  <2> QED
    BY <2>1, <2>2
<1>8. CASE StoreTrace \/ OutOfMemory \/ PythonTracesReturns
  BY <1>8 DEF StoreTrace, OutOfMemory, PythonTracesReturns, CollectGoto, sampleVars, reportVars
<1>9. CASE UNCHANGED vars
  BY <1>9 DEF vars, sampleVars, reportVars
<1> QED
  BY <1>1, <1>2, <1>3, <1>4, <1>5, <1>6, <1>7, <1>8, <1>9 DEF Next

(***************************************************************************)
(* Unless stale frames were sampled, an address that was sampled had an    *)
(* occupant.                                                               *)
(***************************************************************************)
LEMMA SampledStep ==
  ASSUME AttributionInv, OccupantInv, TraceInv, SampledInv, [Next]_vars
  PROVE  SampledInv'
<1> USE DEF SampledInv
<1>1. ASSUME NEW t, Known(t), occupants \subseteq occupants'
      PROVE  Known(t)'
  BY <1>1 DEF Known
<1>2. CASE \E a \in Addresses : (\E c \in Codes : Alloc(a, c)) \/ CodeDealloc(a)
  <2>1. UNCHANGED <<aggregated, todo, work, cpc, stale>> /\ occupants \subseteq occupants'
    BY <1>2 DEF Alloc, CodeDealloc, sampleVars, reportVars, historyVars
  <2> QED
    BY <1>1, <2>1
<1>3. CASE Reset \/ Unhook
  BY <1>3 DEF Reset, Unhook, NewReport, EmptyMap, CollectGoto
<1>4. CASE Hook \/ Start \/ SampleUnknown \/ UNCHANGED vars
  <2>1. UNCHANGED <<aggregated, todo, work, occupants, stale>> /\ (cpc' = "frame" => cpc = "frame")
    BY <1>4 DEF Hook, Start, SampleUnknown, vars, sampleVars, reportVars, historyVars, CollectGoto
  <2> QED
    BY <1>1, <2>1
<1>5. ASSUME NEW t \in Samples, Sample(t)
      PROVE  SampledInv'
  <2>1. UNCHANGED <<cpc, todo, work, occupants>> /\ DOMAIN aggregated' = DOMAIN aggregated \cup {t}
    BY <1>5 DEF Sample, reportVars, Count, Put
  <2>2. ASSUME ~stale'
        PROVE  ~stale /\ Known(t)
    <3>1. ~stale /\ \A i \in DOMAIN t : IsLive(t[i])
      BY <1>5, <2>2 DEF Sample
    <3>2. \A a \in live : <<a, object[a]>> \in occupants
      BY <1>5 DEF Sample, OccupantInv
    <3> QED
      BY <3>1, <3>2 DEF Known, IsLive
  <2> QED
    BY <1>1, <2>1, <2>2
<1>6. CASE Stop
  <2>1. UNCHANGED <<occupants, stale>> /\ cpc' = "loop" /\ todo' = DOMAIN aggregated'
    BY <1>6 DEF Stop, CollectGoto, historyVars
  <2>2. DOMAIN aggregated' \subseteq DOMAIN aggregated \cup {UnknownTrace}
    BY <1>6 DEF Stop, Put
  <2>3. Known(UnknownTrace)
    BY DEF Known, UnknownTrace, Frame
  <2> QED
    BY <1>1, <2>1, <2>2, <2>3
<1>7. ASSUME NEW t \in todo, NextTrace(t)
      PROVE  SampledInv'
  <2>1. UNCHANGED <<aggregated, occupants, stale>> /\ work' = t /\ todo' \subseteq todo
    BY <1>7 DEF NextTrace, CollectGoto, sampleVars, historyVars
  <2> QED
    BY <1>1, <2>1
<1>8. CASE ResolveFrame \/ StoreTrace \/ OutOfMemory \/ PythonTracesReturns
  <2>1. UNCHANGED <<aggregated, todo, work, occupants, stale>> /\ (cpc' = "frame" => cpc = "frame")
    BY <1>8 DEF ResolveFrame, StoreTrace, OutOfMemory, PythonTracesReturns, CollectGoto,
                sampleVars, reportVars, historyVars
  <2> QED
    BY <1>1, <2>1
<1> QED
  BY <1>2, <1>3, <1>4, <1>5, <1>6, <1>7, <1>8 DEF Next

\* What NamedAfterOccupant says of frame f, resolved from fr.
Fits(f, fr) ==
  fr.py_code # Null =>
    \E p \in occupants :
      /\ p[1] = fr.py_code
      /\ f.name = GetFuncLoc(p[2]).name
      /\ f.filename = GetFuncLoc(p[2]).filename
      /\ f.line \in {0, LineOf[p[2]][fr.lineno]}

(***************************************************************************)
(* The frame resolved next is named after an occupant of its address.  It  *)
(* is not stale: its address had an occupant, which is recorded or live.   *)
(***************************************************************************)
LEMMA NextFrameFits ==
  ASSUME AttributionInv, OccupantInv, TraceInv, SampledInv, ResolveFrame, ~stale
  PROVE  \E f : py_frames' = Append(py_frames, f) /\ Fits(f, NextFrame)
<1> USE DEF ResolveFrame
<1>1. work \in Seq(Frames) /\ py_frames \in Seq(PyFrames)
  BY TracesAreSequences DEF TraceInv
<1>2. Len(py_frames) + 1 \in DOMAIN work /\ NextFrame = work[Len(py_frames) + 1]
  BY <1>1 DEF NextFrame
<1>3. ASSUME NEW loc, NEW l, Resolve(loc, l), Fits(PyFrame(loc, l), NextFrame)
      PROVE  \E f : py_frames' = Append(py_frames, f) /\ Fits(f, NextFrame)
  BY <1>3 DEF Resolve, PyFrame
<1>4. CASE ErrorFrame
  <2>1. Fits(PyFrame(CallTraceErrorToName(NextFrame.lineno), NextFrame.lineno), NextFrame)
    BY <1>4 DEF ErrorFrame, Fits
  <2> QED
    BY <1>3, <1>4, <2>1 DEF ErrorFrame
<1>5. CASE DeallocatedFrame
  <2> DEFINE a == NextFrame.py_code
  <2>1. PICK p \in occupants : p[1] = a /\ deallocated_code[a] = GetFuncLoc(p[2])
    BY <1>5 DEF DeallocatedFrame, OccupantInv
  <2>2. Fits(PyFrame(deallocated_code[a], 0), NextFrame)
    BY <2>1 DEF Fits, PyFrame
  <2> QED
    BY <1>3, <1>5, <2>2 DEF DeallocatedFrame
<1>6. CASE LiveFrame
  <2> DEFINE a == NextFrame.py_code
             c == object[a]
  <2>1. <<a, c>> \in occupants
    BY <1>6 DEF LiveFrame, OccupantInv
  <2>2. Fits(PyFrame(GetFuncLoc(c), LineOf[c][NextFrame.lineno]), NextFrame)
    BY <2>1 DEF Fits, PyFrame
  <2> QED
    BY <1>3, <1>6, <2>2 DEF LiveFrame
<1>7. ~StaleFrame
  <2> SUFFICES ASSUME StaleFrame
               PROVE  FALSE
    OBVIOUS
  <2>1. NextFrame.py_code # Null
    BY AttributionAssumption DEF StaleFrame
  <2>2. PICK p \in occupants : p[1] = NextFrame.py_code
    BY <1>2, <2>1 DEF SampledInv, Known
  <2> QED
    BY <2>2 DEF StaleFrame, AttributionInv, UnrecordedIsLive
<1> QED
  BY <1>4, <1>5, <1>6, <1>7

(***************************************************************************)
(* The frames resolved so far stay named after occupants.                  *)
(***************************************************************************)
LEMMA NamedStep ==
  ASSUME NamedInv, [Next]_vars
  PROVE  NamedAfterOccupant'
<1> USE DEF NamedInv
<1>1. SUFFICES ASSUME cpc' = "frame", ~stale',
                      NEW i \in DOMAIN py_frames'
               PROVE  Fits(py_frames[i], work[i])'
  BY DEF NamedAfterOccupant, Fits
<1>2. ASSUME UNCHANGED <<py_frames, work>>, cpc = "frame", ~stale, occupants \subseteq occupants'
      PROVE  Fits(py_frames[i], work[i])'
  BY <1>1, <1>2 DEF NamedAfterOccupant, Fits
<1>3. CASE \E a \in Addresses : (\E c \in Codes : Alloc(a, c)) \/ CodeDealloc(a)
  <2>1. UNCHANGED <<py_frames, work, cpc, stale>> /\ occupants \subseteq occupants'
    BY <1>3 DEF Alloc, CodeDealloc, reportVars, historyVars
  <2> QED
    BY <1>1, <1>2, <2>1
<1>4. CASE UNCHANGED vars
  <2>1. UNCHANGED <<py_frames, work, cpc, stale, occupants>>
    BY <1>4 DEF vars, reportVars, historyVars
  <2> QED
    BY <1>1, <1>2, <2>1
<1>5. CASE Reset \/ Hook \/ Start \/ Stop \/ StoreTrace \/ OutOfMemory
             \/ PythonTracesReturns \/ Unhook
  BY <1>1, <1>5 DEF Reset, Hook, Start, Stop, StoreTrace, OutOfMemory, PythonTracesReturns,
                    Unhook, CollectGoto
<1>6. CASE (\E t \in Samples : Sample(t)) \/ SampleUnknown
  BY <1>1, <1>6 DEF Sample, SampleUnknown
<1>7. ASSUME NEW t \in todo, NextTrace(t)
      PROVE  FALSE
  BY <1>1, <1>7 DEF NextTrace
<1>8. CASE ResolveFrame
  <2>1. UNCHANGED <<work, occupants, stale>> /\ cpc = "frame"
    BY <1>8 DEF ResolveFrame, historyVars
  <2>2. PICK f : py_frames' = Append(py_frames, f) /\ Fits(f, NextFrame)
    BY <1>1, <1>8, <2>1, NextFrameFits
  <2>3. py_frames \in Seq(PyFrames) /\ NextFrame = work[Len(py_frames) + 1]
    BY DEF TraceInv, NextFrame
  <2>4. CASE i = Len(py_frames) + 1
    <3>1. py_frames'[i] = f /\ work'[i] = NextFrame
      BY <2>1, <2>2, <2>3, <2>4
    <3> QED
      BY <2>1, <2>2, <3>1 DEF Fits
  <2>5. CASE i \in DOMAIN py_frames
    <3>1. py_frames'[i] = py_frames[i]
      BY <2>2, <2>3, <2>5
    <3> QED
      BY <1>1, <2>1, <2>5, <3>1 DEF NamedAfterOccupant, Fits
  <2> QED
    BY <2>2, <2>3, <2>4, <2>5
<1> QED
  BY <1>3, <1>4, <1>5, <1>6, <1>7, <1>8 DEF Next

\* At first nothing is sampled, recorded or resolved.
LEMMA NamedInit == Init => NamedInv
<1> SUFFICES ASSUME Init
             PROVE  NamedInv
  OBVIOUS
<1>1. OccupantInv /\ TraceInv /\ SampledInv /\ NamedAfterOccupant
  BY DEF Init, EmptyMap, OccupantInv, TraceInv, SampledInv, NamedAfterOccupant
<1> QED
  BY <1>1, AttributionInit DEF NamedInv

(***************************************************************************)
(* A profile that sampled no remains of a freed frame names every frame    *)
(* after a code object that was at its address during the profile, with    *)
(* the line of that code object or none (profiler.cc:213-257).             *)
(***************************************************************************)
THEOREM NamesAreOfOccupants == Spec => []NamedAfterOccupant
<1>1. NamedInv /\ [Next]_vars => NamedInv'
  BY AttributionStep, OccupantStep, TraceStep, SampledStep, NamedStep DEF NamedInv
<1>2. NamedInv => NamedAfterOccupant
  BY DEF NamedInv
<1> QED
  BY <1>1, <1>2, NamedInit, PTL DEF Spec

-----------------------------------------------------------------------------
\* Towards NoSampleLost and TypeOK.

\* A map of how often something happened.
Counts(map) == IsFiniteSet(DOMAIN map) /\ \A k \in DOMAIN map : map[k] \in Nat \ {0}

\* The sum of the counts of what is in R.
Share(map, R) == SumFunctionOnSet(map, DOMAIN map \cap R)

LEMMA PutEntry ==
  ASSUME NEW m, NEW k, NEW n
  PROVE  /\ DOMAIN Put(m, k, n) = DOMAIN m \cup {k} /\ Put(m, k, n)[k] = n
         /\ \A j \in DOMAIN m : j # k => Put(m, k, n)[j] = m[j]
BY DEF Put

LEMMA NothingCounted == Counts(EmptyMap) /\ DOMAIN EmptyMap = {}
<1>1. DOMAIN EmptyMap = {}
  BY DEF EmptyMap
<1> QED
  BY <1>1, FS_EmptySet DEF Counts

LEMMA ShareType ==
  ASSUME NEW m, Counts(m), NEW R
  PROVE  Sums(m, DOMAIN m \cap R) /\ Share(m, R) \in Nat
<1> DEFINE S == DOMAIN m \cap R
           z == [x \in S |-> 0]
<1>1. IsFiniteSet(S) /\ \A x \in S : m[x] \in Nat
  BY FS_Subset DEF Counts
<1>2. Sums(m, S) /\ Sums(z, S) /\ \A x \in S : z[x] = 0 /\ z[x] <= m[x]
  BY <1>1 DEF Sums
<1> HIDE DEF z, S
<1>3. SumFunctionOnSet(z, S) = 0
  BY <1>1, <1>2, SumOfZeros
<1>4. SumFunctionOnSet(z, S) <= SumFunctionOnSet(m, S) /\ SumFunctionOnSet(m, S) \in Int
  BY <1>2, SumMonotonic, SumType
<1> QED
  BY <1>2, <1>3, <1>4 DEF Share, S

(***************************************************************************)
(* An entry that is put adds to the sums it belongs to what it has more    *)
(* than the one it replaces.                                               *)
(***************************************************************************)
LEMMA PutShare ==
  ASSUME NEW m, Counts(m), NEW k, NEW n \in Nat \ {0}, NEW R
  PROVE  /\ Counts(Put(m, k, n))
         /\ Share(Put(m, k, n), R) = Share(m, R) + (IF k \in R THEN n - Lookup(m, k) ELSE 0)
<1> DEFINE e == Put(m, k, n)
           D == DOMAIN m
           S == D \cap R
<1>1. DOMAIN e = D \cup {k} /\ e[k] = n /\ \A j \in D : j # k => e[j] = m[j]
  BY DEF Put
<1> HIDE DEF e
<1>2. Counts(e)
  <2>1. IsFiniteSet(D \cup {k})
    BY FS_AddElement DEF Counts
  <2> QED
    BY <1>1, <2>1 DEF Counts
<1>3. Sums(m, S) /\ Share(m, R) = SumFunctionOnSet(m, S) /\ Share(m, R) \in Nat
  BY ShareType DEF Share
<1>4. Sums(e, (D \cup {k}) \cap R) /\ Share(e, R) = SumFunctionOnSet(e, (D \cup {k}) \cap R)
  BY <1>1, <1>2, ShareType DEF Share
<1>5. \A j \in D : m[j] \in Nat
  BY DEF Counts
<1>6. Share(e, R) = Share(m, R) + (IF k \in R THEN n - Lookup(m, k) ELSE 0)
  <2>1. CASE k \notin R
    <3>1. (D \cup {k}) \cap R = S /\ \A j \in S : m[j] = e[j]
      BY <1>1, <2>1
    <3>0. Share(e, R) = SumFunctionOnSet(e, S)
      BY <1>4, <3>1
    <3>2. Sums(e, S)
      BY <1>4, <3>1
    <3> HIDE DEF S
    <3>3. SumFunctionOnSet(m, S) = SumFunctionOnSet(e, S)
      BY <1>3, <3>1, <3>2, SumMonotonic
    <3> QED
      BY <1>3, <2>1, <3>0, <3>3
  <2>2. CASE k \in R /\ k \in D
    <3>1. (D \cup {k}) \cap R = S /\ k \in S /\ \A j \in S \ {k} : e[j] = m[j]
      BY <1>1, <2>2
    <3>0. Share(e, R) = SumFunctionOnSet(e, S)
      BY <1>4, <3>1
    <3>2. Sums(e, S)
      BY <1>4, <3>1
    <3>3. Lookup(m, k) = m[k] /\ m[k] \in Nat
      BY <1>5, <2>2 DEF Lookup
    <3> HIDE DEF S, D
    <3>4. SumFunctionOnSet(e, S) = SumFunctionOnSet(m, S) - m[k] + e[k]
      BY <1>3, <3>1, <3>2, SumUpdate
    <3> QED
      BY <1>1, <1>3, <2>2, <3>0, <3>3, <3>4
  <2>3. CASE k \in R /\ k \notin D
    <3>1. (D \cup {k}) \cap R = S \cup {k} /\ k \notin S /\ \A j \in S : m[j] = e[j]
      BY <1>1, <2>3
    <3>0. Share(e, R) = SumFunctionOnSet(e, S \cup {k})
      BY <1>4, <3>1
    <3>2. Sums(e, S \cup {k}) /\ Sums(e, S)
      BY <1>3, <1>4, <3>1 DEF Sums
    <3>3. Lookup(m, k) = 0
      BY <2>3 DEF Lookup
    <3> HIDE DEF S, D
    <3>4. SumFunctionOnSet(e, S \cup {k}) = e[k] + SumFunctionOnSet(e, S)
      BY <3>1, <3>2, SumAdd
    <3>5. SumFunctionOnSet(m, S) = SumFunctionOnSet(e, S)
      BY <1>3, <3>1, <3>2, SumMonotonic
    <3> QED
      BY <1>1, <1>3, <2>3, <3>0, <3>3, <3>4, <3>5
  <2> QED
    BY <2>1, <2>2, <2>3
<1> QED
  BY <1>2, <1>6 DEF e

\* All of it.
LEMMA TotalShare ==
  ASSUME NEW m, NEW R, DOMAIN m \subseteq R
  PROVE  SumFunction(m) = Share(m, R)
<1>1. DOMAIN m \cap R = DOMAIN m
  OBVIOUS
<1> QED
  BY <1>1 DEF Share, SumFunction

LEMMA PutTotal ==
  ASSUME NEW m, Counts(m), NEW k, NEW n \in Nat \ {0}
  PROVE  /\ SumFunction(m) \in Nat
         /\ SumFunction(Put(m, k, n)) = SumFunction(m) + n - Lookup(m, k)
<1> DEFINE R == DOMAIN m \cup {k}
           e == Put(m, k, n)
<1>1. DOMAIN e = R
  BY PutEntry
<1>2. k \in R /\ DOMAIN m \subseteq R
  OBVIOUS
<1> HIDE DEF R
<1>3. SumFunction(m) = Share(m, R) /\ SumFunction(e) = Share(e, R)
  <2> HIDE DEF e
  <2> QED
    BY <1>1, <1>2, TotalShare
<1>4. Share(e, R) = Share(m, R) + (IF k \in R THEN n - Lookup(m, k) ELSE 0)
  BY PutShare
<1>5. Share(m, R) \in Nat
  BY ShareType
<1>6. Lookup(m, k) \in Nat
  BY DEF Lookup, Counts
<1> QED
  BY <1>2, <1>3, <1>4, <1>5, <1>6

\* No count is more than the sum.
LEMMA CountBound ==
  ASSUME NEW m, Counts(m), NEW k \in DOMAIN m
  PROVE  m[k] <= SumFunction(m)
<1> DEFINE S == DOMAIN m
<1>1. Sums(m, S) /\ m[k] \in Nat
  BY DEF Counts, Sums
<1>2. SumFunction(m) = SumFunctionOnSet(m, S)
  BY DEF SumFunction
<1>3. Share(m, S \ {k}) \in Nat
  BY ShareType
<1>4. S \cap (S \ {k}) = S \ {k}
  OBVIOUS
<1>5. SumFunctionOnSet(m, S \ {k}) \in Nat
  BY <1>3, <1>4 DEF Share
<1>6. SumFunctionOnSet(m, S) = m[k] + SumFunctionOnSet(m, S \ {k})
  <2> HIDE DEF S
  <2>1. k \in S
    BY DEF S
  <2> QED
    BY <1>1, <2>1, SumRemove
<1> QED
  BY <1>1, <1>2, <1>5, <1>6

\* The traces whose counts the dictionary does not have yet.
Unstored == todo \cup (IF cpc = "frame" THEN {work} ELSE {})

\* What is counted where, on the way from the samples to the dictionary.
CountsInv ==
  /\ Counts(aggregated) /\ Counts(py_traces)
  /\ unknown \in 0 .. MaxSamples
  /\ SumFunction(aggregated) <= MaxSamples
  /\ cpc = "sampling" => Taken <= MaxSamples
  /\ cpc \in {"idle", "reset", "hooked"} => aggregated = EmptyMap
  /\ cpc \in {"reset", "hooked"} => unknown = 0
  /\ cpc \in {"idle", "reset", "hooked", "sampling"} => py_traces = EmptyMap
  /\ todo \subseteq DOMAIN aggregated
  /\ cpc = "frame" => work \in DOMAIN aggregated \ todo
  /\ cpc = "returned" => todo = {}

TotalInv ==
  /\ cpc \in {"loop", "frame", "returned"} =>
       SumFunction(py_traces) + SumFunctionOnSet(aggregated, Unstored) = SumFunction(aggregated)
  /\ SumFunction(py_traces) <= MaxSamples

CountedInv == CountsInv /\ TotalInv

LEMMA NothingTotal == SumFunction(EmptyMap) = 0
BY NothingCounted, SumEmpty DEF SumFunction

LEMMA TotalType ==
  ASSUME NEW m, Counts(m)
  PROVE  SumFunction(m) \in Nat
<1>1. SumFunction(m) = Share(m, DOMAIN m)
  BY TotalShare
<1> QED
  BY <1>1, ShareType

LEMMA LookupType ==
  ASSUME NEW m, Counts(m), NEW k
  PROVE  Lookup(m, k) \in Nat
BY DEF Counts, Lookup

LEMMA CountedInit == Init => CountedInv
<1> SUFFICES ASSUME Init PROVE CountedInv
  OBVIOUS
<1>1. MaxSamples \in Nat
  BY AttributionAssumption
<1>2. aggregated = EmptyMap /\ py_traces = EmptyMap /\ unknown = 0 /\ todo = {} /\ cpc = "idle"
  BY DEF Init
<1> QED
  BY <1>1, <1>2, NothingCounted, NothingTotal DEF CountedInv, CountsInv, TotalInv

(***************************************************************************)
(* A sample adds one to the counts, with room or without.                  *)
(***************************************************************************)
LEMMA SampleCounted ==
  ASSUME CountedInv, SampleUnknown \/ \E t \in Samples : Sample(t)
  PROVE  CountedInv'
<1> USE DEF CountedInv, CountsInv, TotalInv
<1>1. /\ MaxSamples \in Nat /\ SumFunction(aggregated) \in Nat
      /\ cpc = "sampling" /\ cpc' = "sampling" /\ Taken < MaxSamples
      /\ UNCHANGED <<todo, py_traces>>
  BY AttributionAssumption, TotalType DEF SampleUnknown, Sample, reportVars
<1>2. CASE SampleUnknown
  <2>1. aggregated' = aggregated /\ unknown' = unknown + 1
    BY <1>2 DEF SampleUnknown
  <2> QED
    BY <1>1, <2>1 DEF Taken
<1>3. ASSUME NEW t \in Samples, Sample(t)
      PROVE  CountedInv'
  <2> DEFINE n == Lookup(aggregated, t) + 1
  <2>1. aggregated' = Put(aggregated, t, n) /\ unknown' = unknown
    BY <1>3 DEF Sample, Count
  <2>2. n \in Nat \ {0} /\ Lookup(aggregated, t) \in Nat /\ n - Lookup(aggregated, t) = 1
    <3>1. Lookup(aggregated, t) \in Nat
      BY LookupType
    <3> QED
      BY <3>1
  <2> HIDE DEF n
  <2>3. Counts(aggregated') /\ DOMAIN aggregated' = DOMAIN aggregated \cup {t}
    BY <2>1, <2>2, PutShare, PutEntry
  <2>4. SumFunction(aggregated') = SumFunction(aggregated) + n - Lookup(aggregated, t)
    BY <2>1, <2>2, PutTotal
  <2>5. SumFunction(aggregated') = SumFunction(aggregated) + 1
    BY <1>1, <2>2, <2>4
  <2>6. SumFunction(aggregated)' = SumFunction(aggregated')
    OBVIOUS
  <2> QED
    BY <1>1, <2>1, <2>3, <2>5, <2>6 DEF Taken
<1> QED
  BY <1>2, <1>3

(***************************************************************************)
(* The unknown samples join the others, and all are still to be reported.  *)
(***************************************************************************)
LEMMA StopCounted ==
  ASSUME CountedInv, Stop
  PROVE  CountedInv'
<1> USE DEF CountedInv, CountsInv, TotalInv
<1>1. /\ MaxSamples \in Nat /\ SumFunction(aggregated) \in Nat
      /\ cpc = "sampling" /\ cpc' = "loop" /\ unknown' = unknown /\ py_traces' = EmptyMap
      /\ todo' = DOMAIN aggregated' /\ Taken <= MaxSamples /\ unknown \in Nat
  BY AttributionAssumption, TotalType DEF Stop, CollectGoto
<1>2. Counts(aggregated') /\ SumFunction(aggregated') = Taken
  <2>1. CASE unknown = 0
    BY <1>1, <2>1 DEF Stop, Taken
  <2>2. CASE unknown > 0
    <3> DEFINE n == Lookup(aggregated, UnknownTrace) + unknown
    <3>1. aggregated' = Put(aggregated, UnknownTrace, n)
      BY <2>2 DEF Stop
    <3>2. n \in Nat \ {0} /\ Lookup(aggregated, UnknownTrace) \in Nat
          /\ n - Lookup(aggregated, UnknownTrace) = unknown
      <4>1. Lookup(aggregated, UnknownTrace) \in Nat
        BY LookupType
      <4> QED
        BY <1>1, <2>2, <4>1
    <3> HIDE DEF n
    <3>3. Counts(aggregated')
      BY <3>1, <3>2, PutShare
    <3>4. SumFunction(aggregated') = SumFunction(aggregated) + n - Lookup(aggregated, UnknownTrace)
      BY <3>1, <3>2, PutTotal
    <3> QED
      BY <1>1, <3>2, <3>3, <3>4 DEF Taken
  <2> QED
    BY <1>1, <2>1, <2>2
<1>3. Unstored' = DOMAIN aggregated'
  BY <1>1 DEF Unstored
<1>4. SumFunctionOnSet(aggregated', DOMAIN aggregated') = SumFunction(aggregated')
  BY DEF SumFunction
<1>5. SumFunctionOnSet(aggregated, Unstored)' = SumFunction(aggregated')
  BY <1>3, <1>4
<1>6. SumFunction(aggregated') \in Nat /\ SumFunction(py_traces') = 0
  BY <1>1, <1>2, TotalType, NothingTotal
<1> QED
  BY <1>1, <1>2, <1>5, <1>6, NothingCounted

(***************************************************************************)
(* What a trace adds to the dictionary is what it was counted.             *)
(***************************************************************************)
LEMMA StoreCounted ==
  ASSUME CountedInv, StoreTrace
  PROVE  CountedInv'
<1> USE DEF CountedInv, CountsInv, TotalInv
<1>1. /\ MaxSamples \in Nat /\ SumFunction(aggregated) \in Nat /\ SumFunction(py_traces) \in Nat
      /\ cpc = "frame" /\ UNCHANGED <<aggregated, unknown, todo, work>>
  BY AttributionAssumption, TotalType DEF StoreTrace, sampleVars
<1>2. CASE cpc' = "failed" /\ py_traces' = py_traces
  BY <1>1, <1>2
<1>3. CASE cpc' = "loop" /\ py_traces' = Put(py_traces, py_frames,
                              Lookup(py_traces, py_frames) + aggregated[work])
  <2> DEFINE l == Lookup(py_traces, py_frames)
             w == aggregated[work]
             n == l + w
  <2>1. w \in Nat \ {0} /\ l \in Nat /\ n \in Nat \ {0} /\ n - l = w
    <3>1. w \in Nat \ {0}
      BY <1>1 DEF Counts
    <3>2. l \in Nat
      BY LookupType
    <3> QED
      BY <3>1, <3>2
  <2>2. Counts(py_traces') /\ SumFunction(py_traces') = SumFunction(py_traces) + n - l
    <3> HIDE DEF n
    <3>1. py_traces' = Put(py_traces, py_frames, n)
      BY <1>3 DEF n
    <3> QED
      BY <2>1, <3>1, PutShare, PutTotal
  <2>3. Unstored = todo \cup {work} /\ work \notin todo /\ Unstored' = todo
    BY <1>1, <1>3 DEF Unstored
  <2>4. Sums(aggregated, todo \cup {work}) /\ Sums(aggregated, todo)
    <3>1. todo \cup {work} \subseteq DOMAIN aggregated
      BY <1>1
    <3>2. IsFiniteSet(todo \cup {work}) /\ IsFiniteSet(todo)
      BY <3>1, FS_Subset DEF Counts
    <3> QED
      BY <3>1, <3>2 DEF Sums, Counts
  <2>5. SumFunctionOnSet(aggregated, todo \cup {work}) = w + SumFunctionOnSet(aggregated, todo)
    BY <2>3, <2>4, SumAdd
  <2>6. SumFunctionOnSet(aggregated, todo) \in Nat
    <3>1. DOMAIN aggregated \cap todo = todo
      OBVIOUS
    <3>2. Share(aggregated, todo) \in Nat
      BY ShareType
    <3> QED
      BY <3>1, <3>2 DEF Share
  <2> HIDE DEF l, w, n
  <2>7. SumFunctionOnSet(aggregated, Unstored) = w + SumFunctionOnSet(aggregated, todo)
    BY <2>3, <2>5
  <2>8. SumFunction(py_traces) + SumFunctionOnSet(aggregated, Unstored) = SumFunction(aggregated)
    BY <1>1
  <2>9. SumFunctionOnSet(aggregated, Unstored)' = SumFunctionOnSet(aggregated, todo)
    BY <1>1, <2>3
  <2>10. SumFunction(py_traces') = SumFunction(py_traces) + w
    BY <1>1, <2>1, <2>2 DEF n
  <2>11. /\ SumFunction(py_traces') + SumFunctionOnSet(aggregated, todo) = SumFunction(aggregated)
         /\ SumFunction(py_traces') <= MaxSamples
    BY <1>1, <2>1, <2>6, <2>7, <2>8, <2>10
  <2>12. TotalInv'
    BY <1>1, <2>9, <2>11
  <2> QED
    BY <1>1, <1>3, <2>2, <2>12
<1> QED
  BY <1>2, <1>3 DEF StoreTrace

LEMMA CountedStep ==
  ASSUME CountedInv, [Next]_vars
  PROVE  CountedInv'
<1> USE DEF CountedInv, CountsInv, TotalInv
<1>0. MaxSamples \in Nat
  BY AttributionAssumption
<1>1. CASE (\E a \in Addresses : (\E c \in Codes : Alloc(a, c)) \/ CodeDealloc(a))
             \/ ResolveFrame \/ UNCHANGED vars
  <2>1. UNCHANGED <<aggregated, unknown, todo, work, py_traces, cpc>>
    BY <1>1 DEF Alloc, CodeDealloc, ResolveFrame, vars, sampleVars, reportVars
  <2> QED
    BY <2>1 DEF Unstored, Taken
<1>2. CASE Reset \/ Unhook
  <2>1. /\ aggregated' = EmptyMap /\ py_traces' = EmptyMap /\ todo' = {}
        /\ cpc' \in {"reset", "idle"} /\ (unknown' = 0 \/ (cpc' = "idle" /\ unknown' = unknown))
    BY <1>2 DEF Reset, Unhook, NewReport, CollectGoto
  <2> QED
    BY <1>0, <2>1, NothingCounted, NothingTotal
<1>3. CASE Hook \/ Start
  <2>1. /\ UNCHANGED <<aggregated, unknown, todo, py_traces>> /\ aggregated = EmptyMap
        /\ unknown = 0
        /\ cpc \in {"reset", "hooked"} /\ cpc' \in {"hooked", "sampling", "failed"}
    BY <1>3 DEF Hook, Start, CollectGoto, sampleVars, reportVars
  <2> QED
    BY <1>0, <2>1, NothingCounted, NothingTotal DEF Taken
<1>4. CASE SampleUnknown \/ \E t \in Samples : Sample(t)
  BY <1>4, SampleCounted
<1>5. CASE Stop
  BY <1>5, StopCounted
<1>6. CASE StoreTrace
  BY <1>6, StoreCounted
<1>7. ASSUME NEW t \in todo, NextTrace(t)
      PROVE  CountedInv'
  <2>1. /\ UNCHANGED <<aggregated, unknown, py_traces>> /\ todo' = todo \ {t} /\ work' = t
        /\ cpc = "loop" /\ cpc' = "frame"
    BY <1>7 DEF NextTrace, CollectGoto, sampleVars
  <2>2. Unstored' = todo /\ Unstored = todo
    BY <1>7, <2>1 DEF Unstored
  <2>3. SumFunctionOnSet(aggregated, Unstored)' = SumFunctionOnSet(aggregated, Unstored)
    BY <2>1, <2>2
  <2> QED
    BY <1>7, <2>1, <2>3
<1>8. CASE OutOfMemory \/ PythonTracesReturns
  <2>1. /\ UNCHANGED <<aggregated, unknown, py_traces, todo, work>>
        /\ cpc' = "failed" \/ (cpc = "loop" /\ cpc' = "returned" /\ todo = {})
    BY <1>8 DEF OutOfMemory, PythonTracesReturns, CollectGoto, sampleVars, reportVars
  <2>2. cpc' = "returned" => SumFunctionOnSet(aggregated, Unstored)' = SumFunctionOnSet(aggregated, Unstored)
    <3>1. cpc' = "returned" => Unstored' = Unstored
      BY <2>1 DEF Unstored
    <3> QED
      BY <2>1, <3>1
  <2> QED
    BY <2>1, <2>2
<1> QED
  BY <1>1, <1>2, <1>3, <1>4, <1>5, <1>6, <1>7, <1>8 DEF Next

(***************************************************************************)
(* The counts of the dictionary that PythonTraces returns add up to the    *)
(* samples of the profile, whichever traces were merged, whatever was      *)
(* freed and whichever addresses were reused (profiler.cc:189-291).        *)
(***************************************************************************)
THEOREM SamplesAreKept == Spec => []NoSampleLost
<1>1. CountedInv => NoSampleLost
  <2> SUFFICES ASSUME CountedInv, cpc = "returned"
               PROVE  SumFunction(py_traces) = SumFunction(aggregated)
    BY DEF NoSampleLost
  <2>1. Unstored = {}
    BY DEF Unstored, CountedInv, CountsInv
  <2>2. SumFunctionOnSet(aggregated, Unstored) = 0
    BY <2>1, SumEmpty
  <2>3. SumFunction(py_traces) \in Nat
    BY TotalType DEF CountedInv, CountsInv
  <2> QED
    BY <2>2, <2>3 DEF CountedInv, TotalInv
<1> QED
  BY <1>1, CountedInit, CountedStep, PTL DEF Spec

-----------------------------------------------------------------------------
\* Towards TypeOK.

\* The types that the counts and the occupants do not give.
DeallocTypes ==
  DOMAIN deallocated_code \subseteq Addresses /\ Range(deallocated_code) \subseteq FuncLocs

ControlTypes ==
  /\ created \subseteq Codes
  /\ old_code_dealloc \in {"none", "code_dealloc", "CodeDealloc"}
  /\ cpc \in {"idle", "reset", "hooked", "sampling", "loop", "frame", "returned", "failed"}
  /\ Len(py_frames) <= Len(work)
  /\ profiles \in 0 .. MaxProfiles

FlagTypes == error \in BOOLEAN /\ stale \in BOOLEAN

WorkInv == work \in Seq(Frames)

LEMMA DeallocTypesStep ==
  ASSUME AttributionInv, DeallocTypes, [Next]_vars
  PROVE  DeallocTypes'
<1> USE DEF DeallocTypes, Range
<1>1. CASE \E a \in Addresses : CodeDealloc(a)
  <2>1. PICK a \in Addresses : CodeDealloc(a)
    BY <1>1
  <2>2. CASE deallocated_code' = deallocated_code
    BY <2>2
  <2>3. CASE deallocated_code' = Put(deallocated_code, a, GetFuncLoc(object[a]))
    <3>1. GetFuncLoc(object[a]) \in FuncLocs
      BY DEF AttributionInv, HeapInv, FuncLocs
    <3> QED
      BY <2>3, <3>1 DEF Put
  <2> QED
    BY <2>1, <2>2, <2>3 DEF CodeDealloc, Recorded
<1>2. CASE Reset \/ Hook
  <2>1. deallocated_code' = Cleared
    BY <1>2 DEF Reset, Hook
  <2>2. DOMAIN Cleared = {}
    BY NothingCounted DEF Cleared
  <2> QED
    BY <2>1, <2>2
<1>3. CASE ~ ((\E a \in Addresses : CodeDealloc(a)) \/ Reset \/ Hook)
  <2>1. deallocated_code' = deallocated_code
    BY <1>3 DEF Next, vars, Alloc, Start, Sample, SampleUnknown, Stop, NextTrace, ResolveFrame,
                StoreTrace, OutOfMemory, PythonTracesReturns, Unhook, hookVars
  <2> QED
    BY <2>1
<1> QED
  BY <1>1, <1>2, <1>3

LEMMA ControlTypesStep ==
  ASSUME HookInv, TraceInv, WorkInv, ControlTypes, [Next]_vars
  PROVE  ControlTypes' /\ WorkInv'
<1> USE DEF ControlTypes, WorkInv
<1>0. MaxProfiles \in Nat
  BY AttributionAssumption
<1>1. ASSUME NEW a \in Addresses, (\E c \in Codes : Alloc(a, c)) \/ CodeDealloc(a)
      PROVE  ControlTypes' /\ WorkInv'
  BY <1>1 DEF Alloc, CodeDealloc, hookVars, reportVars
<1>2. CASE Reset \/ Unhook
  <2>1. work' = <<>> /\ py_frames' = <<>>
    BY <1>2 DEF Reset, Unhook, NewReport
  <2> QED
    BY <1>0, <1>2, <2>1 DEF Reset, Unhook, CollectGoto, heapVars
<1>3. CASE Hook
  BY <1>3 DEF Hook, CollectGoto, heapVars, reportVars, HookInv
<1>4. CASE Start \/ SampleUnknown \/ (\E t \in Samples : Sample(t)) \/ Stop
             \/ StoreTrace \/ OutOfMemory \/ PythonTracesReturns
  <2>1. UNCHANGED <<created, old_code_dealloc, work, py_frames, profiles>>
    BY <1>4 DEF Start, Sample, SampleUnknown, Stop, StoreTrace, OutOfMemory,
                PythonTracesReturns, heapVars, hookVars, reportVars
  <2>2. cpc' \in {"idle", "reset", "hooked", "sampling", "loop", "frame", "returned", "failed"}
    BY <1>4 DEF Start, Sample, SampleUnknown, Stop, StoreTrace, OutOfMemory,
                PythonTracesReturns, CollectGoto
  <2> QED
    BY <2>1, <2>2
<1>5. ASSUME NEW t \in todo, NextTrace(t)
      PROVE  ControlTypes' /\ WorkInv'
  <2>1. t \in Seq(Frames)
    BY TracesAreSequences DEF TraceInv
  <2> QED
    BY <1>5, <2>1 DEF NextTrace, CollectGoto, heapVars, hookVars
<1>6. CASE ResolveFrame
  <2>1. \E f : py_frames' = Append(py_frames, f)
    BY <1>6 DEF ResolveFrame, ErrorFrame, DeallocatedFrame, LiveFrame, StaleFrame, Resolve
  <2>2. Len(py_frames') = Len(py_frames) + 1 /\ Len(py_frames) < Len(work) /\ Len(py_frames) \in Nat
        /\ Len(work) \in Nat
    BY <1>6, <2>1 DEF ResolveFrame, TraceInv
  <2> QED
    BY <1>6, <2>2 DEF ResolveFrame, heapVars, hookVars
<1>7. CASE UNCHANGED vars
  BY <1>7 DEF vars, heapVars, hookVars, reportVars
<1> QED
  BY <1>1, <1>2, <1>3, <1>4, <1>5, <1>6, <1>7 DEF Next

LEMMA FlagTypesStep ==
  ASSUME FlagTypes, [Next]_vars
  PROVE  FlagTypes'
<1> USE DEF FlagTypes
<1>1. ASSUME NEW a \in Addresses, (\E c \in Codes : Alloc(a, c)) \/ CodeDealloc(a)
      PROVE  FlagTypes'
  BY Zenon, <1>1 DEF Alloc, CodeDealloc, reportVars, historyVars
<1>2. CASE Reset \/ Unhook
  BY <1>2 DEF Reset, Unhook, NewReport
<1>3. CASE Hook \/ Start \/ Stop \/ StoreTrace \/ PythonTracesReturns
  BY Zenon, <1>3 DEF Hook, Start, Stop, StoreTrace, PythonTracesReturns, reportVars, historyVars
<1>4. ASSUME NEW t \in Samples, Sample(t)
      PROVE  FlagTypes'
  BY Zenon, <1>4 DEF Sample, reportVars
<1>5. CASE SampleUnknown
  BY Zenon, <1>5 DEF SampleUnknown, reportVars
<1>6. ASSUME NEW t \in todo, NextTrace(t)
      PROVE  FlagTypes'
  BY Zenon, <1>6 DEF NextTrace, historyVars
<1>7. CASE ResolveFrame
  <2>1. stale' = stale
    BY Zenon, <1>7 DEF ResolveFrame, historyVars
  <2>2. error' = error \/ error' \in BOOLEAN
    <3>1. CASE LiveFrame
      BY Zenon, <3>1 DEF LiveFrame
    <3>2. CASE ErrorFrame \/ DeallocatedFrame \/ StaleFrame
      BY Zenon, <3>2 DEF ErrorFrame, DeallocatedFrame, StaleFrame
    <3> QED
      BY <1>7, <3>1, <3>2 DEF ResolveFrame
  <2> QED
    BY Zenon, <2>1, <2>2
<1>8. CASE OutOfMemory
  BY Zenon, <1>8 DEF OutOfMemory, historyVars
<1>9. CASE UNCHANGED vars
  BY Zenon, <1>9 DEF vars, reportVars, historyVars
<1> QED
  BY <1>1, <1>2, <1>3, <1>4, <1>5, <1>6, <1>7, <1>8, <1>9 DEF Next

\* What makes TypeOK inductive.
TypedInv == NamedInv /\ CountedInv /\ DeallocTypes /\ ControlTypes /\ WorkInv /\ FlagTypes

LEMMA TypedInit == Init => TypedInv
<1> SUFFICES ASSUME Init PROVE TypedInv
  OBVIOUS
<1>1. DeallocTypes
  <2>1. deallocated_code = EmptyMap
    BY DEF Init
  <2> QED
    BY <2>1, NothingCounted DEF DeallocTypes, Range
<1>2. ControlTypes /\ WorkInv
  BY AttributionAssumption DEF Init, ControlTypes, WorkInv, Range
<1>3. FlagTypes
  BY DEF Init, FlagTypes
<1> QED
  BY <1>1, <1>2, <1>3, NamedInit, CountedInit DEF TypedInv

LEMMA TypedStep ==
  ASSUME TypedInv, [Next]_vars
  PROVE  TypedInv'
<1>1. NamedInv'
  BY AttributionStep, OccupantStep, TraceStep, SampledStep, NamedStep DEF TypedInv, NamedInv
<1>2. CountedInv' /\ DeallocTypes' /\ FlagTypes'
  BY CountedStep, DeallocTypesStep, FlagTypesStep DEF TypedInv, NamedInv
<1>3. ControlTypes' /\ WorkInv'
  BY ControlTypesStep DEF TypedInv, NamedInv, AttributionInv
<1> QED
  BY <1>1, <1>2, <1>3 DEF TypedInv

LEMMA CountsAreBounded ==
  ASSUME NEW m, Counts(m), MaxSamples \in Nat, SumFunction(m) <= MaxSamples
  PROVE  Range(m) \subseteq 1 .. MaxSamples
<1>1. ASSUME NEW k \in DOMAIN m PROVE m[k] \in 1 .. MaxSamples
  BY CountBound, TotalType DEF Counts
<1> QED
  BY <1>1 DEF Range

(***************************************************************************)
(* The state of the profile is well typed: above all no trace is reported  *)
(* with a count of zero or with more samples than were taken, and the      *)
(* names recorded are names, of addresses of code objects                  *)
(* (profiler.cc:126-135, 189-291).                                         *)
(***************************************************************************)
THEOREM AttributionTypeCorrect == Spec => []TypeOK
<1>1. TypedInv => TypeOK
  <2> SUFFICES ASSUME TypedInv PROVE TypeOK
    OBVIOUS
  <2>1. /\ Counts(aggregated) /\ Counts(py_traces) /\ MaxSamples \in Nat
        /\ SumFunction(aggregated) <= MaxSamples /\ SumFunction(py_traces) <= MaxSamples
        /\ unknown \in 0 .. MaxSamples /\ todo \subseteq DOMAIN aggregated
    BY AttributionAssumption DEF TypedInv, CountedInv, CountsInv, TotalInv
  <2>2. Range(aggregated) \subseteq 1 .. MaxSamples /\ Range(py_traces) \subseteq 1 .. MaxSamples
    BY <2>1, CountsAreBounded
  <2>3. live \subseteq Addresses /\ object \in [Addresses -> Codes]
        /\ tp_dealloc \in {"code_dealloc", "CodeDealloc"}
    BY DEF TypedInv, NamedInv, AttributionInv, HeapInv, HookInv
  <2>4. DOMAIN aggregated \subseteq Samples \cup {UnknownTrace} /\ occupants \subseteq Addresses \X Codes
    BY DEF TypedInv, NamedInv, TraceInv, AllTraces, OccupantInv
  <2>5. DeallocTypes /\ ControlTypes /\ FlagTypes
    BY DEF TypedInv
  <2> QED
    BY <2>1, <2>2, <2>3, <2>4, <2>5 DEF TypeOK, DeallocTypes, ControlTypes, FlagTypes
<1> QED
  BY <1>1, TypedInit, TypedStep, PTL DEF Spec

-----------------------------------------------------------------------------
\* Towards ReportExact.

\* No stale frame was sampled, and no address reused.
Settled == ~ stale /\ ~ Reused

\* Unless an address is reused, what occupied it is what was there last.
ObjectInv ==
  /\ \A a \in Addresses : object[a] \in created
  /\ \A p \in occupants : p[2] \in created
  /\ cpc = "idle" => occupants = {}
  /\ ~ Reused => \A p \in occupants : object[p[1]] = p[2]

\* The traces that show the sequence of functions k, and how often they were sampled.
Like(k) == {t \in AllTraces : FunctionsOf(t) = k}
Shown(T, k) == SumFunctionOnSet(aggregated, T \cap Like(k))

\* How often the dictionary shows it.
Reported(k) == SumFunctionOnSet(py_traces, {fs \in DOMAIN py_traces : Names(fs) = k})

NameOf(f) == [name |-> f.name, filename |-> f.filename]

ResolvedInv ==
  cpc = "frame" => \A i \in DOMAIN py_frames : NameOf(py_frames[i]) = FunctionOf(work[i])

\* What was run is what was sampled, and what is reported or still to be reported.
RanInv ==
  /\ cpc = "sampling" =>
       \A k : Lookup(ran, k) = Shown(DOMAIN aggregated, k)
                                 + (IF FunctionsOf(UnknownTrace) = k THEN unknown ELSE 0)
  /\ cpc \in {"loop", "frame", "returned"} =>
       \A k : Lookup(ran, k) = Reported(k) + Shown(Unstored, k)

ReportInv ==
  /\ Counts(ran)
  /\ cpc \in {"idle", "reset", "hooked"} => ran = EmptyMap
  /\ Settled => ResolvedInv /\ RanInv

LEMMA ObjectInit == Init => ObjectInv
BY DEF Init, ObjectInv, Range

LEMMA ObjectStep ==
  ASSUME AttributionInv, OccupantInv, ObjectInv, [Next]_vars
  PROVE  ObjectInv'
<1> USE DEF ObjectInv
<1>1. ASSUME NEW a \in Addresses, NEW c \in Codes, Alloc(a, c)
      PROVE  ObjectInv'
  <2>1. /\ created' = created \cup {c} /\ c \notin created /\ cpc' = cpc
        /\ object' = [object EXCEPT ![a] = c] /\ object \in [Addresses -> Codes]
        /\ occupants' = IF cpc = "idle" THEN occupants ELSE occupants \cup {<<a, c>>}
    BY <1>1 DEF Alloc, AttributionInv, HeapInv
  <2>2. \A b \in Addresses : object'[b] \in created'
    BY <2>1
  <2>3. \A p \in occupants' : p[2] \in created'
    BY <2>1
  <2>4. ASSUME ~ Reused', NEW p \in occupants'
        PROVE  object'[p[1]] = p[2]
    <3>1. occupants \subseteq occupants'
      BY <2>1
    <3>2. ~ Reused
      BY <2>4, <3>1 DEF Reused
    <3>3. cpc # "idle" /\ <<a, c>> \in occupants' /\ occupants' = occupants \cup {<<a, c>>}
      BY <2>1
    <3>4. CASE p = <<a, c>>
      BY <2>1, <3>4
    <3>5. CASE p # <<a, c>>
      <4>1. p \in occupants /\ p[1] \in Addresses
        BY <3>3, <3>5 DEF OccupantInv
      <4>2. p[1] # a
        BY <2>4, <3>3, <3>5 DEF Reused
      <4> QED
        BY <2>1, <3>2, <4>1, <4>2
    <3> QED
      BY <3>4, <3>5
  <2> QED
    BY <2>1, <2>2, <2>3, <2>4
<1>2. CASE Reset
  <2>1. /\ UNCHANGED <<object, created>> /\ cpc' = "reset"
        /\ occupants' = {<<a, object[a]>> : a \in live} /\ live \subseteq Addresses
    BY <1>2 DEF Reset, CollectGoto, heapVars, AttributionInv, HeapInv
  <2> QED
    BY <2>1
<1>3. CASE Unhook
  BY <1>3 DEF Unhook, heapVars
<1>4. CASE ~ ((\E a \in Addresses, c \in Codes : Alloc(a, c)) \/ Reset \/ Unhook)
  <2>1. UNCHANGED <<object, created, occupants>> /\ (cpc' = "idle" => cpc = "idle")
    BY <1>4 DEF Next, vars, CodeDealloc, Hook, Start, Sample, SampleUnknown, Stop, NextTrace,
                ResolveFrame, StoreTrace, OutOfMemory, PythonTracesReturns, CollectGoto,
                heapVars, historyVars
  <2> QED
    BY <2>1 DEF Reused
<1> QED
  BY <1>1, <1>2, <1>3, <1>4

LEMMA LookupPut ==
  ASSUME NEW m, NEW k, NEW n, NEW j
  PROVE  Lookup(Put(m, k, n), j) = IF j = k THEN n ELSE Lookup(m, j)
BY DEF Lookup, Put

LEMMA CountOne ==
  ASSUME NEW m, Counts(m), NEW k
  PROVE  /\ Counts(Count(m, k))
         /\ DOMAIN Count(m, k) = DOMAIN m \cup {k}
         /\ \A j : Lookup(Count(m, k), j) = Lookup(m, j) + (IF j = k THEN 1 ELSE 0)
         /\ \A R : Share(Count(m, k), R) = Share(m, R) + (IF k \in R THEN 1 ELSE 0)
<1> DEFINE n == Lookup(m, k) + 1
           e == Put(m, k, n)
<1>1. \A j : Lookup(m, j) \in Nat
  BY LookupType
<1>2. n \in Nat \ {0} /\ n - Lookup(m, k) = 1
  BY <1>1
<1>3. Count(m, k) = e
  BY DEF Count
<1> HIDE DEF n
<1>4. \A j : Lookup(e, j) = IF j = k THEN n ELSE Lookup(m, j)
  BY LookupPut
<1>5. Counts(e) /\ DOMAIN e = DOMAIN m \cup {k}
        /\ \A R : Share(e, R) = Share(m, R) + (IF k \in R THEN n - Lookup(m, k) ELSE 0)
  <2>1. DOMAIN e = DOMAIN m \cup {k}
    BY DEF Put
  <2>2. ASSUME NEW R
        PROVE  Counts(e) /\ Share(e, R) = Share(m, R) + (IF k \in R THEN n - Lookup(m, k) ELSE 0)
    BY <1>2, PutShare
  <2> HIDE DEF e
  <2> QED
    BY <2>1, <2>2
<1>6. \A j : Lookup(e, j) = Lookup(m, j) + (IF j = k THEN 1 ELSE 0)
  BY <1>1, <1>4 DEF n
<1> HIDE DEF e
<1>7. \A R : Share(e, R) = Share(m, R) + (IF k \in R THEN 1 ELSE 0)
  BY <1>2, <1>5
<1> QED
  BY <1>3, <1>5, <1>6, <1>7

(***************************************************************************)
(* Of a trace that was sampled, the program can not change what it shows   *)
(* but by reusing an address.                                              *)
(***************************************************************************)
LEMMA ShownStays ==
  ASSUME AttributionInv, OccupantInv, ObjectInv,
         NEW a \in Addresses, (\E c \in Codes : Alloc(a, c)) \/ CodeDealloc(a),
         cpc # "idle", ~ Reused', NEW t, Known(t)
  PROVE  \A i \in DOMAIN t : FunctionOf(t[i])' = FunctionOf(t[i])
<1> SUFFICES ASSUME NEW i \in DOMAIN t, t[i].py_code # Null
             PROVE  object'[t[i].py_code] = object[t[i].py_code]
  BY DEF FunctionOf
<1>1. PICK p \in occupants : p[1] = t[i].py_code
  BY DEF Known
<1>2. CASE CodeDealloc(a)
  BY <1>2 DEF CodeDealloc
<1>3. ASSUME NEW c \in Codes, Alloc(a, c) PROVE object'[t[i].py_code] = object[t[i].py_code]
  <2>1. /\ object' = [object EXCEPT ![a] = c] /\ object \in [Addresses -> Codes]
        /\ occupants' = occupants \cup {<<a, c>>} /\ c \notin created
    BY <1>3 DEF Alloc, AttributionInv, HeapInv
  <2>2. p # <<a, c>> /\ p \in Addresses \X Codes
    BY <1>1, <2>1 DEF ObjectInv, OccupantInv
  <2>3. p[1] # a
    BY <1>1, <2>1, <2>2 DEF Reused
  <2> QED
    BY <1>1, <2>1, <2>2, <2>3
<1> QED
  BY <1>2, <1>3

(***************************************************************************)
(* Nothing that a step leaves alone is shown otherwise afterwards.         *)
(***************************************************************************)
LEMMA NothingMoves ==
  ASSUME ReportInv, Settled' => Settled,
         UNCHANGED <<aggregated, unknown, todo, work, py_traces, py_frames, ran>>,
         \/ cpc' = cpc
         \/ cpc' = "failed"
         \/ cpc = "reset" /\ cpc' = "hooked"
         \/ cpc = "loop" /\ cpc' = "returned",
         \A t \in DOMAIN aggregated \cup {UnknownTrace} :
           Settled' /\ cpc' \in {"sampling", "loop", "frame", "returned"} =>
             \A i \in DOMAIN t : FunctionOf(t[i])' = FunctionOf(t[i]),
         CountsInv, TraceInv, WorkInv, ControlTypes
  PROVE  ReportInv'
<1> USE DEF ReportInv
<1>1. cpc' \in {"idle", "reset", "hooked"} => ran' = EmptyMap
  OBVIOUS
<1>2. SUFFICES ASSUME Settled', cpc' \in {"sampling", "loop", "frame", "returned"}
               PROVE  ResolvedInv' /\ RanInv'
  BY <1>1 DEF ResolvedInv, RanInv
<1>3. \A t \in DOMAIN aggregated \cup {UnknownTrace} : FunctionsOf(t)' = FunctionsOf(t)
  BY <1>2 DEF FunctionsOf
<1>4. ResolvedInv'
  <2>1. SUFFICES ASSUME cpc' = "frame", NEW i \in DOMAIN py_frames
                 PROVE  NameOf(py_frames[i])' = FunctionOf(work[i])'
    BY DEF ResolvedInv
  <2>2. cpc = "frame" /\ NameOf(py_frames[i]) = FunctionOf(work[i])
    BY <1>2, <2>1 DEF ResolvedInv
  <2>3. NameOf(py_frames[i])' = NameOf(py_frames[i])
    BY DEF NameOf
  <2>4. i \in DOMAIN work
    <3>1. Len(py_frames) <= Len(work) /\ py_frames \in Seq(PyFrames) /\ work \in Seq(Frames)
      BY DEF TraceInv, WorkInv, ControlTypes
    <3> QED
      BY <2>1, <3>1
  <2>5. work \in DOMAIN aggregated
    BY <2>2 DEF CountsInv
  <2>6. FunctionOf(work[i])' = FunctionOf(work[i])
    BY <1>2, <2>4, <2>5
  <2> QED
    BY <2>2, <2>3, <2>6
<1>5. ASSUME NEW k, NEW T, T \subseteq DOMAIN aggregated
      PROVE  SumFunctionOnSet(aggregated, T \cap Like(k)') = Shown(T, k)
  <2>1. T \cap Like(k)' = T \cap Like(k)
    BY <1>3, <1>5 DEF Like
  <2> QED
    BY <2>1 DEF Shown
<1>6. ASSUME NEW k
      PROVE  Lookup(ran, k)' = Lookup(ran, k) /\ Reported(k)' = Reported(k)
  BY DEF Lookup, Reported
<1>7. CASE cpc' = "sampling"
  <2>1. cpc = "sampling" /\ RanInv
    BY <1>2, <1>7
  <2>2. SUFFICES ASSUME NEW k
                 PROVE  Lookup(ran, k)' = Shown(DOMAIN aggregated, k)'
                           + (IF FunctionsOf(UnknownTrace)' = k THEN unknown' ELSE 0)
    BY <1>4, <1>7 DEF RanInv
  <2>3. Shown(DOMAIN aggregated, k)' = Shown(DOMAIN aggregated, k)
    BY <1>5 DEF Shown
  <2> QED
    BY <1>3, <1>6, <2>1, <2>3 DEF RanInv
<1>8. CASE cpc' # "sampling"
  <2>1. cpc \in {"loop", "frame", "returned"} /\ RanInv
    BY <1>2, <1>8
  <2>2. SUFFICES ASSUME NEW k
                 PROVE  Lookup(ran, k)' = Reported(k)' + Shown(Unstored, k)'
    BY <1>4, <1>8 DEF RanInv
  <2>3. Unstored' = Unstored /\ Unstored \subseteq DOMAIN aggregated
    BY <1>2, <2>1 DEF Unstored, CountsInv
  <2>4. Shown(Unstored, k)' = Shown(Unstored, k)
    BY <1>5, <2>3 DEF Shown
  <2> QED
    BY <1>6, <2>1, <2>4 DEF RanInv
<1> QED
  BY <1>4, <1>7, <1>8

\* What the steps of the report rest on.
ReportContext == TypedInv /\ ObjectInv /\ ReportInv

LEMMA SamplesAreKnown ==
  ASSUME ReportContext, ~ stale
  PROVE  \A t \in DOMAIN aggregated \cup {UnknownTrace} : Known(t)
<1>1. Known(UnknownTrace)
  BY DEF Known, UnknownTrace, Frame
<1> QED
  BY <1>1 DEF ReportContext, TypedInv, NamedInv, SampledInv

LEMMA ProgramReport ==
  ASSUME ReportContext, NEW a \in Addresses, (\E c \in Codes : Alloc(a, c)) \/ CodeDealloc(a)
  PROVE  ReportInv'
<1> USE DEF ReportContext
<1>1. /\ UNCHANGED <<aggregated, unknown, todo, work, py_traces, py_frames, ran, cpc, stale>>
      /\ occupants \subseteq occupants'
  BY DEF Alloc, CodeDealloc, sampleVars, reportVars, historyVars
<1>2. Settled' => Settled
  BY <1>1 DEF Settled, Reused
<1>3. /\ AttributionInv /\ OccupantInv /\ ObjectInv /\ CountsInv /\ TraceInv /\ WorkInv
      /\ ControlTypes /\ ReportInv
  BY DEF TypedInv, NamedInv, CountedInv
<1>4. ASSUME NEW t \in DOMAIN aggregated \cup {UnknownTrace},
             Settled', cpc' \in {"sampling", "loop", "frame", "returned"}
      PROVE  \A i \in DOMAIN t : FunctionOf(t[i])' = FunctionOf(t[i])
  <2>1. Known(t) /\ cpc # "idle" /\ ~ Reused'
    <3>1. ~ stale
      BY <1>2, <1>4 DEF Settled
    <3> QED
      BY <1>1, <1>4, <3>1, SamplesAreKnown DEF Settled
  <2> QED
    BY <1>3, <2>1, ShownStays
<1> QED
  BY <1>1, <1>2, <1>3, <1>4, NothingMoves

(***************************************************************************)
(* The steps of Collect that sample, store and resolve nothing.            *)
(***************************************************************************)
LEMMA ControlReport ==
  ASSUME ReportContext,
         Reset \/ Hook \/ Start \/ OutOfMemory \/ PythonTracesReturns \/ Unhook \/ UNCHANGED vars
  PROVE  ReportInv'
<1> USE DEF ReportContext
<1>1. CASE Reset \/ Unhook
  <2>1. ran' = EmptyMap /\ cpc' \in {"idle", "reset"}
    BY <1>1 DEF Reset, Unhook, NewReport, CollectGoto
  <2> QED
    BY <2>1, NothingCounted DEF ReportInv, ResolvedInv, RanInv
<1>2. CASE Start /\ cpc' = "sampling"
  <2>1. /\ UNCHANGED <<aggregated, unknown, ran>> /\ ran = EmptyMap /\ aggregated = EmptyMap
        /\ unknown = 0
    BY <1>2 DEF Start, CollectGoto, sampleVars, historyVars, ReportInv, TypedInv, CountedInv, CountsInv
  <2>2. ASSUME NEW k
        PROVE  Lookup(ran', k) = 0 /\ SumFunctionOnSet(aggregated', DOMAIN aggregated' \cap Like(k)') = 0
    <3>1. Lookup(EmptyMap, k) = 0
      BY NothingCounted DEF Lookup
    <3>2. DOMAIN aggregated' \cap Like(k)' = {}
      BY <2>1, NothingCounted
    <3> QED
      BY <2>1, <3>1, <3>2, SumEmpty
  <2>3. ResolvedInv'
    BY <1>2 DEF ResolvedInv
  <2>4. RanInv'
    <3>1. SUFFICES ASSUME NEW k
                   PROVE  Lookup(ran, k)' = Shown(DOMAIN aggregated, k)'
                             + (IF FunctionsOf(UnknownTrace)' = k THEN unknown' ELSE 0)
      BY <1>2 DEF RanInv
    <3> QED
      BY <2>1, <2>2 DEF Shown
  <2> QED
    BY <1>2, <2>1, <2>3, <2>4, NothingCounted DEF ReportInv
<1>3. CASE Hook \/ (Start /\ cpc' # "sampling") \/ OutOfMemory \/ PythonTracesReturns
             \/ UNCHANGED vars
  <2>1. /\ UNCHANGED <<aggregated, unknown, todo, work, py_traces, py_frames, ran, object,
                       occupants, stale>>
        /\ \/ cpc' = cpc
           \/ cpc' = "failed"
           \/ cpc = "reset" /\ cpc' = "hooked"
           \/ cpc = "loop" /\ cpc' = "returned"
    BY <1>3 DEF Hook, Start, OutOfMemory, PythonTracesReturns, CollectGoto, vars, heapVars,
                sampleVars, reportVars, historyVars
  <2>2. Settled' => Settled
    BY <2>1 DEF Settled, Reused
  <2>3. \A fr : FunctionOf(fr)' = FunctionOf(fr)
    BY <2>1 DEF FunctionOf
  <2>4. CountsInv /\ TraceInv /\ WorkInv /\ ControlTypes /\ ReportInv
    BY DEF TypedInv, NamedInv, CountedInv
  <2> QED
    BY <2>1, <2>2, <2>3, <2>4, NothingMoves
<1> QED
  BY <1>1, <1>2, <1>3 DEF Start, CollectGoto

\* A step that counts k as run.
LEMMA RanCounted ==
  ASSUME Counts(ran), NEW k, ran' = Count(ran, k)
  PROVE  /\ Counts(ran')
         /\ \A j : Lookup(ran', j) = Lookup(ran, j) + (IF j = k THEN 1 ELSE 0)
<1>1. /\ Counts(Count(ran, k))
      /\ \A j : Lookup(Count(ran, k), j) = Lookup(ran, j) + (IF j = k THEN 1 ELSE 0)
  BY CountOne
<1> QED
  BY <1>1

(***************************************************************************)
(* A sample counts as what it shows now.                                   *)
(***************************************************************************)
LEMMA SampleReport ==
  ASSUME ReportContext, SampleUnknown \/ \E t \in Samples : Sample(t)
  PROVE  ReportInv'
<1> USE DEF ReportContext
<1>1. /\ Counts(aggregated) /\ Counts(ran) /\ unknown \in Nat
      /\ cpc = "sampling" /\ cpc' = "sampling" /\ UNCHANGED <<object, occupants>>
  BY DEF SampleUnknown, Sample, heapVars, TypedInv, CountedInv, CountsInv, ReportInv
<1>2. /\ \A t : FunctionsOf(t)' = FunctionsOf(t)
      /\ \A k : Like(k)' = Like(k)
  <2>1. \A t : FunctionsOf(t)' = FunctionsOf(t)
    BY <1>1 DEF FunctionsOf, FunctionOf
  <2> QED
    BY <2>1 DEF Like
<1>3. \A k : Shown(DOMAIN aggregated, k) = Share(aggregated, Like(k))
             /\ Share(aggregated, Like(k)) \in Nat
             /\ Lookup(ran, k) \in Nat
  BY <1>1, ShareType, LookupType DEF Shown, Share
<1>4. \A k : Shown(DOMAIN aggregated, k)' = Share(aggregated', Like(k))
  <2> SUFFICES ASSUME NEW k PROVE Shown(DOMAIN aggregated, k)' = Share(aggregated', Like(k))
    OBVIOUS
  <2>1. Like(k)' = Like(k)
    BY <1>2
  <2> QED
    BY <2>1 DEF Shown, Share
<1>5. ASSUME SampleUnknown
      PROVE  ReportInv'
  <2>1. /\ UNCHANGED <<aggregated, stale>> /\ unknown' = unknown + 1
        /\ ran' = Count(ran, FunctionsOf(UnknownTrace))
    BY <1>5 DEF SampleUnknown
  <2>2. /\ Counts(ran')
        /\ \A k : Lookup(ran', k) = Lookup(ran, k) + (IF k = FunctionsOf(UnknownTrace) THEN 1 ELSE 0)
    <3> DEFINE f == FunctionsOf(UnknownTrace)
    <3> HIDE DEF f
    <3>1. ran' = Count(ran, f)
      BY <2>1 DEF f
    <3>2. Counts(ran') /\ \A k : Lookup(ran', k) = Lookup(ran, k) + (IF k = f THEN 1 ELSE 0)
      BY <1>1, <3>1, RanCounted
    <3> QED
      BY <3>2 DEF f
  <2>3. ASSUME Settled' PROVE RanInv'
    <3>1. RanInv
      BY <1>1, <2>1, <2>3 DEF ReportInv, Settled, Reused
    <3>2. SUFFICES ASSUME NEW k
                   PROVE  Lookup(ran', k) = Shown(DOMAIN aggregated, k)'
                             + (IF FunctionsOf(UnknownTrace) = k THEN unknown + 1 ELSE 0)
      BY <1>1, <1>2, <2>1 DEF RanInv, Lookup
    <3>3. Shown(DOMAIN aggregated, k)' = Shown(DOMAIN aggregated, k)
      BY <1>3, <1>4, <2>1
    <3>4. Lookup(ran, k) = Shown(DOMAIN aggregated, k)
                             + (IF FunctionsOf(UnknownTrace) = k THEN unknown ELSE 0)
      BY <1>1, <3>1 DEF RanInv
    <3> QED
      BY <1>1, <1>3, <2>2, <3>3, <3>4
  <2> QED
    BY <1>1, <2>2, <2>3 DEF ReportInv, ResolvedInv
<1>6. ASSUME NEW t \in Samples, Sample(t)
      PROVE  ReportInv'
  <2>1. aggregated' = Count(aggregated, t) /\ unknown' = unknown
    BY <1>6 DEF Sample
  <2>2. CASE stale'
    <3>1. ran' = Count(ran, FunctionsOf(t)) \/ ran' = ran
      BY <1>6 DEF Sample
    <3>2. Counts(ran')
      <4> DEFINE f == FunctionsOf(t)
      <4> HIDE DEF f
      <4>1. ran' = Count(ran, f) \/ ran' = ran
        BY <3>1 DEF f
      <4> QED
        BY <1>1, <4>1, RanCounted
    <3> QED
      BY <1>1, <2>2, <3>2 DEF ReportInv, Settled
  <2>3. CASE ~ stale'
    <3>1. ran' = Count(ran, FunctionsOf(t)) /\ stale' = stale
      BY <1>6, <2>3 DEF Sample
    <3>2. /\ Counts(ran')
          /\ \A k : Lookup(ran', k) = Lookup(ran, k) + (IF k = FunctionsOf(t) THEN 1 ELSE 0)
      <4> DEFINE f == FunctionsOf(t)
      <4> HIDE DEF f
      <4>1. ran' = Count(ran, f)
        BY <3>1 DEF f
      <4>2. Counts(ran') /\ \A k : Lookup(ran', k) = Lookup(ran, k) + (IF k = f THEN 1 ELSE 0)
        BY <1>1, <4>1, RanCounted
      <4> QED
        BY <4>2 DEF f
    <3>3. \A R : Share(aggregated', R) = Share(aggregated, R) + (IF t \in R THEN 1 ELSE 0)
      BY <1>1, <2>1, CountOne
    <3>4. ASSUME Settled' PROVE RanInv'
      <4>1. RanInv
        BY <1>1, <3>1, <3>4 DEF ReportInv, Settled, Reused
      <4>2. SUFFICES ASSUME NEW k
                     PROVE  Lookup(ran', k) = Shown(DOMAIN aggregated, k)'
                               + (IF FunctionsOf(UnknownTrace) = k THEN unknown ELSE 0)
        BY <1>1, <1>2, <2>1 DEF RanInv, Lookup
      <4>3. Shown(DOMAIN aggregated, k)' = Share(aggregated, Like(k)) + (IF t \in Like(k) THEN 1 ELSE 0)
        BY <1>4, <3>3
      <4>4. Lookup(ran, k) = Share(aggregated, Like(k))
                               + (IF FunctionsOf(UnknownTrace) = k THEN unknown ELSE 0)
        BY <1>1, <1>3, <4>1 DEF RanInv
      <4>5. t \in Like(k) <=> k = FunctionsOf(t)
        BY DEF Like, AllTraces
      <4> QED
        BY <1>1, <1>3, <3>2, <4>3, <4>4, <4>5
    <3> QED
      BY <1>1, <3>2, <3>4 DEF ReportInv, ResolvedInv
  <2> QED
    BY <2>2, <2>3
<1> QED
  BY <1>5, <1>6

(***************************************************************************)
(* The unknown samples become samples of the unknown trace.                *)
(***************************************************************************)
LEMMA StopReport ==
  ASSUME ReportContext, Stop
  PROVE  ReportInv'
<1> USE DEF ReportContext
<1>1. /\ Counts(aggregated) /\ unknown \in Nat /\ py_traces' = EmptyMap
      /\ cpc = "sampling" /\ cpc' = "loop" /\ UNCHANGED <<object, occupants, stale, ran, unknown>>
      /\ todo' = DOMAIN aggregated'
  BY DEF Stop, CollectGoto, heapVars, historyVars, TypedInv, CountedInv, CountsInv
<1>2. ASSUME Settled' PROVE RanInv'
  <2>1. RanInv
    BY <1>1, <1>2 DEF ReportInv, Settled, Reused
  <2>2. SUFFICES ASSUME NEW k
                 PROVE  Lookup(ran, k)' = Reported(k)' + Shown(Unstored, k)'
    BY <1>1 DEF RanInv
  <2>3. Reported(k)' = 0
    <3>1. {fs \in DOMAIN py_traces' : Names(fs) = k} = {}
      BY <1>1, NothingCounted
    <3> QED
      BY <3>1, SumEmpty DEF Reported
  <2>4. Like(k)' = Like(k)
    BY <1>1 DEF Like, FunctionsOf, FunctionOf
  <2>5. Shown(Unstored, k)' = Share(aggregated', Like(k))
    <3>1. Unstored' = DOMAIN aggregated'
      BY <1>1 DEF Unstored
    <3> QED
      BY <2>4, <3>1 DEF Shown, Share
  <2>6. Shown(DOMAIN aggregated, k) = Share(aggregated, Like(k)) /\ Share(aggregated, Like(k)) \in Nat
    BY <1>1, ShareType DEF Shown, Share
  <2>7. UnknownTrace \in Like(k) <=> FunctionsOf(UnknownTrace) = k
    BY DEF Like, AllTraces
  <2>8. Share(aggregated', Like(k)) = Share(aggregated, Like(k))
                                        + (IF UnknownTrace \in Like(k) THEN unknown ELSE 0)
    <3>1. CASE unknown = 0
      <4>1. aggregated' = aggregated
        BY <3>1 DEF Stop
      <4> QED
        BY <2>6, <3>1, <4>1
    <3>2. CASE unknown > 0
      <4> DEFINE n == Lookup(aggregated, UnknownTrace) + unknown
      <4>1. aggregated' = Put(aggregated, UnknownTrace, n)
        BY <3>2 DEF Stop
      <4>2. n \in Nat \ {0} /\ n - Lookup(aggregated, UnknownTrace) = unknown
        <5>1. Lookup(aggregated, UnknownTrace) \in Nat
          BY <1>1, LookupType
        <5> QED
          BY <1>1, <3>2, <5>1
      <4> HIDE DEF n
      <4> QED
        BY <1>1, <4>1, <4>2, PutShare
    <3> QED
      BY <1>1, <3>1, <3>2
  <2>9. Lookup(ran, k) = Shown(DOMAIN aggregated, k)
                           + (IF FunctionsOf(UnknownTrace) = k THEN unknown ELSE 0)
    BY <1>1, <2>1 DEF RanInv
  <2>10. Lookup(ran, k)' = Lookup(ran, k)
    BY <1>1 DEF Lookup
  <2>11. Lookup(ran, k) \in Nat
    BY LookupType DEF ReportInv
  <2> QED
    BY <2>3, <2>5, <2>6, <2>7, <2>8, <2>9, <2>10, <2>11
<1> QED
  BY <1>1, <1>2 DEF ReportInv, ResolvedInv

(***************************************************************************)
(* The loop takes up a trace, and nothing of it is resolved yet.           *)
(***************************************************************************)
LEMMA NextTraceReport ==
  ASSUME ReportContext, NEW t \in todo, NextTrace(t)
  PROVE  ReportInv'
<1> USE DEF ReportContext
<1>1. /\ UNCHANGED <<aggregated, py_traces, object, occupants, stale, ran>>
      /\ todo' = todo \ {t} /\ work' = t /\ py_frames' = <<>>
      /\ cpc = "loop" /\ cpc' = "frame"
  BY DEF NextTrace, CollectGoto, heapVars, sampleVars, historyVars
<1>2. Unstored' = Unstored
  BY <1>1 DEF Unstored
<1>3. ASSUME Settled' PROVE RanInv'
  <2>1. RanInv
    BY <1>1, <1>3 DEF ReportInv, Settled, Reused
  <2>2. SUFFICES ASSUME NEW k
                 PROVE  Lookup(ran, k)' = Reported(k)' + Shown(Unstored, k)'
    BY <1>1 DEF RanInv
  <2>3. Like(k)' = Like(k)
    BY <1>1 DEF Like, FunctionsOf, FunctionOf
  <2>4. Shown(Unstored, k)' = Shown(Unstored, k)
    BY <1>1, <1>2, <2>3 DEF Shown
  <2>5. Lookup(ran, k)' = Lookup(ran, k) /\ Reported(k)' = Reported(k)
    BY <1>1 DEF Lookup, Reported
  <2> QED
    BY <1>1, <2>1, <2>4, <2>5 DEF RanInv
<1> QED
  BY <1>1, <1>3 DEF ReportInv, ResolvedInv

(***************************************************************************)
(* The next frame gets the name it had when it was sampled: its code       *)
(* object is recorded, or still there.                                     *)
(***************************************************************************)
LEMMA NextFrameNamed ==
  ASSUME ReportContext, ResolveFrame, Settled
  PROVE  \E f : py_frames' = Append(py_frames, f) /\ NameOf(f) = FunctionOf(NextFrame)
<1> USE DEF ReportContext, TypedInv, NamedInv
<1>1. CASE NextFrame.py_code # Null
  <2>1. PICK f : py_frames' = Append(py_frames, f) /\ Fits(f, NextFrame)
    BY NextFrameFits DEF Settled
  <2>2. PICK p \in occupants : /\ p[1] = NextFrame.py_code
                               /\ f.name = GetFuncLoc(p[2]).name
                               /\ f.filename = GetFuncLoc(p[2]).filename
    BY <1>1, <2>1 DEF Fits
  <2>3. object[p[1]] = p[2]
    BY <2>2 DEF Settled, ObjectInv
  <2>4. FunctionOf(NextFrame) = GetFuncLoc(p[2])
    BY <1>1, <2>2, <2>3 DEF FunctionOf
  <2>5. NameOf(f) = FunctionOf(NextFrame)
    BY <2>2, <2>4 DEF NameOf, GetFuncLoc
  <2> QED
    BY <2>1, <2>5
<1>2. CASE NextFrame.py_code = Null
  <2> DEFINE l == NextFrame.lineno
             f == PyFrame(CallTraceErrorToName(l), l)
  <2>1. Null \notin Addresses
    BY AttributionAssumption
  <2>2. ErrorFrame
    <3>1. ~ DeallocatedFrame
      BY <1>2, <2>1 DEF DeallocatedFrame, DeallocTypes
    <3>2. ~ LiveFrame
      BY <1>2, <2>1 DEF LiveFrame, AttributionInv, HeapInv
    <3>3. ~ StaleFrame
      BY <1>2, <2>1 DEF StaleFrame
    <3> QED
      BY <3>1, <3>2, <3>3 DEF ResolveFrame
  <2>3. py_frames' = Append(py_frames, f)
    BY <2>2 DEF ErrorFrame, Resolve, PyFrame
  <2>4. NameOf(f) = CallTraceErrorToName(l)
    BY DEF NameOf, PyFrame, CallTraceErrorToName
  <2>5. FunctionOf(NextFrame) = CallTraceErrorToName(l)
    BY <1>2 DEF FunctionOf
  <2> HIDE DEF f, l
  <2> QED
    BY <2>3, <2>4, <2>5
<1> QED
  BY <1>1, <1>2

LEMMA ResolveReport ==
  ASSUME ReportContext, ResolveFrame
  PROVE  ReportInv'
<1> USE DEF ReportContext
<1>1. /\ UNCHANGED <<aggregated, py_traces, object, occupants, stale, ran, todo, work, cpc>>
      /\ cpc = "frame"
  BY DEF ResolveFrame, heapVars, sampleVars, historyVars
<1>2. ASSUME Settled' PROVE RanInv' /\ ResolvedInv'
  <2>1. Settled /\ RanInv /\ ResolvedInv
    BY <1>1, <1>2 DEF ReportInv, Settled, Reused
  <2>2. RanInv'
    <3>1. SUFFICES ASSUME NEW k
                   PROVE  Lookup(ran, k)' = Reported(k)' + Shown(Unstored, k)'
      BY <1>1 DEF RanInv
    <3>2. Like(k)' = Like(k) /\ Unstored' = Unstored
      BY <1>1 DEF Like, FunctionsOf, FunctionOf, Unstored
    <3>3. Shown(Unstored, k)' = Shown(Unstored, k)
      BY <1>1, <3>2 DEF Shown
    <3>4. Lookup(ran, k)' = Lookup(ran, k) /\ Reported(k)' = Reported(k)
      BY <1>1 DEF Lookup, Reported
    <3> QED
      BY <1>1, <2>1, <3>3, <3>4 DEF RanInv
  <2>3. ResolvedInv'
    <3>1. PICK f : py_frames' = Append(py_frames, f) /\ NameOf(f) = FunctionOf(NextFrame)
      BY <2>1, NextFrameNamed
    <3>2. SUFFICES ASSUME NEW i \in DOMAIN py_frames'
                   PROVE  NameOf(py_frames'[i]) = FunctionOf(work[i])
      BY <1>1 DEF ResolvedInv, FunctionOf, NameOf
    <3>3. py_frames \in Seq(PyFrames)
      BY DEF TypedInv, NamedInv, TraceInv
    <3>4. CASE i = Len(py_frames) + 1
      BY <3>1, <3>3, <3>4 DEF NextFrame
    <3>5. CASE i # Len(py_frames) + 1
      <4>1. i \in DOMAIN py_frames /\ py_frames'[i] = py_frames[i]
        BY <3>1, <3>2, <3>3, <3>5
      <4> QED
        BY <1>1, <2>1, <4>1 DEF ResolvedInv
    <3> QED
      BY <3>4, <3>5
  <2> QED
    BY <2>2, <2>3
<1> QED
  BY <1>1, <1>2 DEF ReportInv

(***************************************************************************)
(* A trace that is resolved reads like the functions that were sampled, so *)
(* its count moves to where it belongs.                                    *)
(***************************************************************************)
LEMMA StoreReport ==
  ASSUME ReportContext, StoreTrace
  PROVE  ReportInv'
<1> USE DEF ReportContext
<1>1. /\ UNCHANGED <<aggregated, object, occupants, stale, ran, todo, work, py_frames>>
      /\ cpc = "frame" /\ Len(py_frames) = Len(work)
      /\ Counts(aggregated) /\ Counts(py_traces)
      /\ todo \subseteq DOMAIN aggregated /\ work \in DOMAIN aggregated \ todo
  BY DEF StoreTrace, heapVars, sampleVars, historyVars, TypedInv, CountedInv, CountsInv
<1>2. CASE cpc' = "failed"
  BY <1>1, <1>2 DEF ReportInv, ResolvedInv, RanInv
<1>3. CASE cpc' = "loop" /\ py_traces' = Put(py_traces, py_frames,
                              Lookup(py_traces, py_frames) + aggregated[work])
  <2> DEFINE w == aggregated[work]
             l == Lookup(py_traces, py_frames)
             n == l + w
  <2>1. w \in Nat \ {0} /\ n \in Nat \ {0} /\ n - l = w
    <3>1. w \in Nat \ {0}
      BY <1>1 DEF Counts
    <3>2. l \in Nat
      BY <1>1, LookupType
    <3> QED
      BY <3>1, <3>2
  <2>2. py_traces' = Put(py_traces, py_frames, n)
    BY <1>3
  <2> HIDE DEF w, n
  <2>3. ASSUME Settled' PROVE RanInv'
    <3>1. RanInv /\ ResolvedInv
      BY <1>1, <2>3 DEF ReportInv, Settled, Reused
    <3>2. Names(py_frames) = FunctionsOf(work)
      <4>1. py_frames \in Seq(PyFrames) /\ work \in Seq(Frames)
        BY DEF TypedInv, NamedInv, TraceInv, WorkInv
      <4>2. DOMAIN py_frames = DOMAIN work
        BY <1>1, <4>1
      <4>3. \A i \in DOMAIN py_frames :
              [name |-> py_frames[i].name, filename |-> py_frames[i].filename] = FunctionOf(work[i])
        BY <1>1, <3>1 DEF ResolvedInv, NameOf
      <4> QED
        BY <4>2, <4>3 DEF Names, FunctionsOf
    <3>3. SUFFICES ASSUME NEW k
                   PROVE  Lookup(ran, k)' = Reported(k)' + Shown(Unstored, k)'
      BY <1>3 DEF RanInv
    <3>4. Lookup(ran, k)' = Lookup(ran, k) /\ Like(k)' = Like(k)
      BY <1>1 DEF Lookup, Like, FunctionsOf, FunctionOf
    <3>5. work \in Like(k) <=> Names(py_frames) = k
      <4>1. work \in AllTraces
        BY <1>1 DEF TypedInv, NamedInv, TraceInv
      <4> QED
        BY <3>2, <4>1 DEF Like
    <3>6. Reported(k) \in Nat /\ Reported(k)' = Reported(k) + (IF work \in Like(k) THEN w ELSE 0)
      <4> DEFINE R == {fs \in DOMAIN py_traces \cup {py_frames} : Names(fs) = k}
      <4>1. /\ DOMAIN py_traces' = DOMAIN py_traces \cup {py_frames}
            /\ py_frames \in R <=> work \in Like(k)
        BY <2>2, <3>5, PutEntry
      <4>2. /\ {fs \in DOMAIN py_traces : Names(fs) = k} = DOMAIN py_traces \cap R
            /\ {fs \in DOMAIN py_traces' : Names(fs) = k} = DOMAIN py_traces' \cap R
        BY <4>1
      <4> HIDE DEF R
      <4>3. Reported(k) = Share(py_traces, R) /\ Reported(k)' = Share(py_traces', R)
        BY <4>2 DEF Reported, Share
      <4>4. Share(py_traces', R) = Share(py_traces, R) + (IF py_frames \in R THEN n - l ELSE 0)
        BY <1>1, <2>1, <2>2, PutShare
      <4>5. Share(py_traces, R) \in Nat
        BY <1>1, ShareType
      <4> QED
        BY <2>1, <4>1, <4>3, <4>4, <4>5
    <3>7. /\ Unstored = todo \cup {work} /\ Unstored' = todo
      BY <1>1, <1>3 DEF Unstored
    <3>8. Shown(todo, k) \in Nat /\ Shown(Unstored, k) = Shown(todo, k) + (IF work \in Like(k) THEN w ELSE 0)
      <4> DEFINE S == todo \cap Like(k)
      <4>1. /\ Unstored \cap Like(k) = IF work \in Like(k) THEN S \cup {work} ELSE S
            /\ work \notin S /\ S \cup {work} \subseteq DOMAIN aggregated
            /\ DOMAIN aggregated \cap S = S
        BY <1>1, <3>7
      <4>2. SumFunctionOnSet(aggregated, S) \in Nat
        <5> HIDE DEF S
        <5> QED
          BY <1>1, <4>1, ShareType DEF Share
      <4>3. Sums(aggregated, S \cup {work})
        <5> HIDE DEF S
        <5> QED
          BY <1>1, <4>1, FS_Subset DEF Sums, Counts
      <4>4. SumFunctionOnSet(aggregated, S \cup {work}) = w + SumFunctionOnSet(aggregated, S)
        <5> HIDE DEF S
        <5> QED
          BY <4>1, <4>3, SumAdd DEF w
      <4>5. Shown(todo, k) = SumFunctionOnSet(aggregated, S)
        BY DEF Shown
      <4>6. ASSUME work \in Like(k)
            PROVE  Shown(Unstored, k) = w + SumFunctionOnSet(aggregated, S)
        <5>1. Unstored \cap Like(k) = S \cup {work}
          BY <4>1, <4>6
        <5> QED
          BY <4>4, <5>1 DEF Shown
      <4>7. ASSUME work \notin Like(k)
            PROVE  Shown(Unstored, k) = SumFunctionOnSet(aggregated, S)
        <5>1. Unstored \cap Like(k) = S
          BY <4>1, <4>7
        <5> QED
          BY <5>1 DEF Shown
      <4> HIDE DEF S
      <4> QED
        BY <2>1, <4>2, <4>5, <4>6, <4>7
    <3>9. Shown(Unstored, k)' = Shown(todo, k)
      BY <1>1, <3>4, <3>7 DEF Shown
    <3>10. Lookup(ran, k) = Reported(k) + Shown(Unstored, k)
      BY <1>1, <3>1 DEF RanInv
    <3> QED
      BY <2>1, <3>4, <3>6, <3>8, <3>9, <3>10
  <2> QED
    BY <1>1, <1>3, <2>3 DEF ReportInv, ResolvedInv
<1> QED
  BY <1>2, <1>3 DEF StoreTrace

LEMMA ReportStep ==
  ASSUME ReportContext, [Next]_vars
  PROVE  ReportContext'
<1>1. TypedInv' /\ ObjectInv'
  BY TypedStep, ObjectStep DEF ReportContext, TypedInv, NamedInv
<1>2. ReportInv'
  BY ProgramReport, ControlReport, SampleReport, StopReport, NextTraceReport, ResolveReport,
     StoreReport DEF Next
<1> QED
  BY <1>1, <1>2 DEF ReportContext

(***************************************************************************)
(* The dictionary says exactly how often every sequence of functions was   *)
(* sampled, whatever code was freed meanwhile and whichever traces read    *)
(* alike, if no address was reused and no remains of a freed frame were    *)
(* sampled (profiler.cc:189-291).                                          *)
(***************************************************************************)
THEOREM ReportIsExact == Spec => []ReportExact
<1>1. Init => ReportContext
  <2>1. Init => ReportInv
    BY NothingCounted DEF Init, ReportInv, ResolvedInv, RanInv
  <2> QED
    BY <2>1, TypedInit, ObjectInit DEF ReportContext
<1>2. ReportContext => ReportExact
  <2> SUFFICES ASSUME ReportContext, cpc = "returned", ~ stale, ~ Reused, NEW k
               PROVE  Lookup(ran, k)
                        = SumFunctionOnSet(py_traces, {fs \in DOMAIN py_traces : Names(fs) = k})
    BY DEF ReportExact
  <2>1. Lookup(ran, k) = Reported(k) + Shown(Unstored, k) /\ Lookup(ran, k) \in Nat
    BY LookupType DEF ReportContext, ReportInv, Settled, RanInv
  <2>2. Shown(Unstored, k) = 0
    <3>1. Unstored \cap Like(k) = {}
      BY DEF ReportContext, TypedInv, CountedInv, CountsInv, Unstored
    <3> QED
      BY <3>1, SumEmpty DEF Shown
  <2>3. Reported(k) \in Int
    <3>1. Counts(py_traces)
      BY DEF ReportContext, TypedInv, CountedInv, CountsInv
    <3>2. {fs \in DOMAIN py_traces : Names(fs) = k}
            = DOMAIN py_traces \cap {fs \in DOMAIN py_traces : Names(fs) = k}
      OBVIOUS
    <3>3. Share(py_traces, {fs \in DOMAIN py_traces : Names(fs) = k}) \in Nat
      BY <3>1, ShareType
    <3> QED
      BY <3>2, <3>3 DEF Share, Reported
  <2> QED
    BY <2>1, <2>2, <2>3 DEF Reported
<1> QED
  BY <1>1, <1>2, ReportStep, PTL DEF Spec
=============================================================================
