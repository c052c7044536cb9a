-------------------- MODULE AsyncSafeTraceMultisetProofs --------------------
(***************************************************************************)
(* Safety of the lock-free multiset, and that the multiset and its harvest *)
(* implement TraceBag, for any number of handlers, entries, frames and     *)
(* calls.                                                                  *)
(*                                                                         *)
(* None of the properties is inductive.  LockInv says who may own an entry *)
(* in each state of its count, and what a handler that is inspecting it    *)
(* may rely on; ActiveUpdatesExact is needed beside it, because it is the  *)
(* wait for active_updates = 0 that lets Extract release an entry.         *)
(***************************************************************************)
EXTENDS TraceBagRefinement, FiniteSetTheorems, SequenceTheorems, TLAPS

\* The handler owns the entry Slot(th).
Owns(th) == pc[th] \in {"reserved", "write", "publish"}

\* The handler relies on the trace of the entry Slot(th).
Inspects(th) == pc[th] \in {"compare", "reload", "bump"}

\* The handler is signed in at the entry Slot(th).
Updates(th) ==
  pc[th] \in {"load", "reserve", "reserved", "compare", "reload", "bump",
              "bumped", "leave"}

\* The profiling thread owns the entry xloc.
ExtractorOwns == xpc \in {"copy", "spin", "release"}

\* What the locals of a handler hold.
LocalsInv ==
  \A th \in Threads :
    /\ pc[th] # "idle" => trace[th] \in Samples
    /\ pc[th] = "idle" => probe[th] = 0
    /\ pc[th] # "full" => probe[th] < MaxEntries

\* A locked entry has an owner, and an owner's entry is locked.
OwnerInv ==
  /\ \A s \in Slots :
       count[s] = kTraceCountLocked =>
         \/ \E th \in Threads : Owns(th) /\ Slot(th) = s
         \/ ExtractorOwns /\ xloc = s
  /\ \A th \in Threads : Owns(th) => count[Slot(th)] = kTraceCountLocked
  /\ ExtractorOwns => count[xloc] = kTraceCountLocked

\* No two owners.
ExclusionInv ==
  /\ \A th1, th2 \in Threads :
       Owns(th1) /\ Owns(th2) /\ Slot(th1) = Slot(th2) => th1 = th2
  /\ \A th \in Threads : Owns(th) /\ ExtractorOwns => Slot(th) # xloc

\* An entry being inspected is in use, and is released by nobody.
InspectInv ==
  /\ \A th \in Threads : Inspects(th) => count[Slot(th)] # 0
  /\ \A th1, th2 \in Threads :
       Inspects(th1) /\ Owns(th2) => Slot(th1) # Slot(th2)
  /\ \A th \in Threads : Inspects(th) /\ xpc = "release" => Slot(th) # xloc
  /\ \A th \in Threads : pc[th] = "bump" => seen[th] > 0

\* Counts are positive, zero or locked; Extract locks an entry in use.
CountInv ==
  /\ \A s \in Slots : count[s] >= kTraceCountLocked
  /\ xpc \in {"num", "lock"} => count[xloc] > 0

LockInv == OwnerInv /\ ExclusionInv /\ InspectInv /\ CountInv

TypeInv == TypeOK /\ LocalsInv

IInv == TypeInv /\ ActiveUpdatesExact /\ LockInv

-----------------------------------------------------------------------------
(* Data: what the helpers of the model return. *)

USE DEF kTraceCountLocked

\* A sample's entry index is in range: (i + hash_val) % MaxEntries().
LEMMA SlotInRange ==
  ASSUME NEW th \in Threads, trace[th] \in Samples, probe[th] \in Nat
  PROVE  Slot(th) \in Slots
<1>1. Hash[trace[th]] \in Nat
  BY SamplesAssumption
<1> QED
  BY <1>1, SizeAssumption DEF Slot, Slots

\* A prefix of a frame buffer is a trace: what Extract copies.
LEMMA PrefixIsTrace ==
  ASSUME NEW b \in [1 .. MaxFrames -> Frames \cup {NullFrame}],
         NEW n \in 0 .. MaxFrames
  PROVE  SubSeq(b, 1, n) \in Traces
<1> DEFINE F == Frames \cup {NullFrame}
           t == SubSeq(b, 1, n)
<1>1. /\ t \in Seq(F)
      /\ Len(t) = n
  <2>1. \A i \in 1 .. n : b[i] \in F
    BY SizeAssumption
  <2> HIDE DEF F
  <2> QED
    BY <2>1, SubSeqProperties, SizeAssumption
<1>2. t \in [1 .. n -> F]
  <2> HIDE DEF t, F
  <2> QED
    BY <1>1, LenProperties
<1>3. n \in 0 .. MaxFrames
  OBVIOUS
<1> QED
  BY <1>2, <1>3 DEF Traces

\* The length of a trace.
LEMMA TraceLen ==
  ASSUME NEW t \in Traces
  PROVE  /\ Len(t) \in 0 .. MaxFrames
         /\ \A k \in 1 .. Len(t) : t[k] \in Frames \cup {NullFrame}
<1>1. PICK n \in 0 .. MaxFrames : t \in [1 .. n -> Frames \cup {NullFrame}]
  BY DEF Traces
<1>2. n \in Nat
  BY SizeAssumption
<1>3. t \in Seq(Frames \cup {NullFrame}) /\ Len(t) = n
  BY <1>1, <1>2
<1> QED
  BY <1>1, <1>3

\* The trace of a handler that does not run, and what Extract starts from.
LEMMA EmptyIsTrace == <<>> \in Traces
<1>1. <<>> \in [1 .. 0 -> Frames \cup {NullFrame}]
  OBVIOUS
<1>2. 0 \in 0 .. MaxFrames
  BY SizeAssumption
<1> QED
  BY <1>1, <1>2 DEF Traces

-----------------------------------------------------------------------------
(* Type correctness. *)

\* The static table is zero, and no handler runs (stacktraces.h:71-77).
LEMMA InitTypeInv == Init => TypeInv
<1> SUFFICES ASSUME Init PROVE TypeInv
  OBVIOUS
<1> USE DEF Init, TableInit, HandlerInit, ExtractInit
<1>1. TypeOK
  <2>1. 0 \in Slots /\ 0 \in 0 .. MaxFrames /\ 0 \in 0 .. MaxCalls /\ 0 \in 0 .. MaxEntries
    BY SizeAssumption DEF Slots
  <2> QED
    BY <2>1, EmptyIsTrace DEF TypeOK, PCs, XPCs
<1>2. LocalsInv
  BY SizeAssumption DEF LocalsInv
<1> QED
  BY <1>1, <1>2 DEF TypeInv

\* Each step of Add has a slot in range and returns, or keeps its locals.
LEMMA AddStepSlot ==
  ASSUME TypeInv, NEW th \in Threads, pc[th] # "idle"
  PROVE  Slot(th) \in Slots
<1>1. trace[th] \in Samples /\ probe[th] \in Nat
  BY SizeAssumption DEF TypeInv, TypeOK, LocalsInv
<1> QED
  BY <1>1, SlotInRange

\* A step of Add keeps the types: probe stays in the table until it is
\* exhausted, and at most MaxFrames frames are copied (stacktraces.cc:17-70).
LEMMA AddTypeInv ==
  ASSUME TypeInv, NEW th \in Threads, AddStep(th)
  PROVE  TypeInv'
<1> USE DEF TypeInv, TypeOK, LocalsInv, PCs, XPCs, Goto, Return, tableVars,
            handlerVars, extractVars
<1>1. pc[th] # "idle" => Slot(th) \in Slots
  BY AddStepSlot
<1>2. CASE AddEnter(th)
  BY <1>1, <1>2 DEF AddEnter
<1>3. CASE AddLoad(th)
  BY <1>1, <1>3 DEF AddLoad, AddBranch
<1>4. CASE AddReserve(th)
  <2>1. count' \in [Slots -> Int]
    BY <1>1, <1>4 DEF AddReserve
  <2>2. pc' \in [Threads -> PCs]
    BY <1>4 DEF AddReserve
  <2>3. LocalsInv'
    BY <1>4 DEF AddReserve
  <2> QED
    BY <1>4, <2>1, <2>2, <2>3 DEF AddReserve
<1>5. CASE AddReserved(th)
  BY <1>1, <1>5 DEF AddReserved
<1>6. CASE AddWrite(th)
  <2>1. trace[th] \in Traces
    OBVIOUS
  <2>2. /\ Len(trace[th]) \in 0 .. MaxFrames
        /\ \A k \in 1 .. Len(trace[th]) : trace[th][k] \in Frames \cup {NullFrame}
    BY <2>1, TraceLen
  <2>3. buffer' \in [Slots -> [1 .. MaxFrames -> Frames \cup {NullFrame}]]
    BY <1>1, <1>6, <2>2, SizeAssumption DEF AddWrite
  <2>4. numFrames' \in [Slots -> 0 .. MaxFrames]
    BY <1>1, <1>6, <2>2 DEF AddWrite
  <2> QED
    BY <1>6, <2>3, <2>4 DEF AddWrite
<1>7. CASE AddPublish(th)
  BY <1>1, <1>7, EmptyIsTrace, SizeAssumption DEF AddPublish
<1>8. CASE AddCompare(th)
  BY <1>1, <1>8 DEF AddCompare
<1>9. CASE AddReload(th)
  <2>1. pc' \in [Threads -> PCs] /\ seen' \in [Threads -> Int]
    BY <1>1, <1>9 DEF AddReload
  <2>2. LocalsInv'
    BY <1>9 DEF AddReload
  <2> QED
    BY <1>9, <2>1, <2>2 DEF AddReload
<1>10. CASE AddBump(th)
  <2>1. count' \in [Slots -> Int]
    BY <1>1, <1>10 DEF AddBump
  <2>2. pc' \in [Threads -> PCs]
    BY <1>10 DEF AddBump
  <2>3. LocalsInv'
    BY <1>10 DEF AddBump
  <2> QED
    BY <1>10, <2>1, <2>2, <2>3 DEF AddBump
<1>11. CASE AddBumped(th)
  <2>1. active' \in [Slots -> Int] /\ pc' \in [Threads -> PCs]
    BY <1>1, <1>11 DEF AddBumped
  <2>2. trace' \in [Threads -> Traces] /\ seen' \in [Threads -> Int]
    BY <1>11, EmptyIsTrace DEF AddBumped
  <2>3. probe' \in [Threads -> 0 .. MaxEntries]
    BY <1>11, SizeAssumption DEF AddBumped
  <2>4. LocalsInv'
    BY <1>11, SizeAssumption DEF AddBumped
  <2> QED
    BY <1>11, <2>1, <2>2, <2>3, <2>4 DEF AddBumped
<1>12. CASE AddLeave(th)
  <2>1. active' \in [Slots -> Int] /\ pc' \in [Threads -> PCs]
    BY <1>1, <1>12 DEF AddLeave
  <2>2. probe[th] \in 0 .. MaxEntries - 1
    <3>1. pc[th] = "leave"
      BY <1>12 DEF AddLeave
    <3>2. probe[th] \in 0 .. MaxEntries
      OBVIOUS
    <3>3. probe[th] < MaxEntries
      BY <3>1
    <3> QED
      BY <3>2, <3>3, SizeAssumption
  <2>3. probe' \in [Threads -> 0 .. MaxEntries]
    BY <1>12, <2>2, SizeAssumption DEF AddLeave
  <2>4. LocalsInv'
    BY <1>12, <2>2, SizeAssumption DEF AddLeave
  <2> QED
    BY <1>12, <2>1, <2>3, <2>4 DEF AddLeave
<1>13. CASE CountUnknown(th)
  BY <1>1, <1>13, EmptyIsTrace, SizeAssumption DEF CountUnknown
<1> QED
  BY <1>2, <1>3, <1>4, <1>5, <1>6, <1>7, <1>8, <1>9, <1>10, <1>11, <1>12,
     <1>13 DEF AddStep

\* So does a step of Extract; the trace it copies out is a trace, even if
\* num_frames was read before the lock (stacktraces.cc:83-93).
LEMMA ExtractTypeInv ==
  ASSUME TypeInv, ExtractStep
  PROVE  TypeInv'
<1> USE DEF TypeInv, TypeOK, LocalsInv, PCs, XPCs, tableVars, handlerVars
<1>1. NextLocation =>
        /\ xpc' \in XPCs
        /\ xloc' \in Slots
        /\ xnum' \in 0 .. MaxFrames
        /\ xcount' \in Int
        /\ xframes' \in Traces
  <2>0. SUFFICES ASSUME NextLocation
                 PROVE  /\ xpc' \in XPCs /\ xloc' \in Slots
                        /\ xnum' \in 0 .. MaxFrames /\ xcount' \in Int
                        /\ xframes' \in Traces
    OBVIOUS
  <2> HIDE DEF TypeInv, TypeOK, LocalsInv, PCs, tableVars, handlerVars
  <2>1. xloc \in 0 .. MaxEntries - 1
    BY DEF TypeInv, TypeOK, Slots
  <2>2. xpc' \in XPCs /\ xloc' \in Slots
    <3>1. CASE xloc + 1 < MaxEntries
      BY <2>0, <2>1, <3>1, SizeAssumption DEF NextLocation, Slots
    <3>2. CASE ~ (xloc + 1 < MaxEntries)
      BY <2>0, <3>2, SizeAssumption DEF NextLocation, Slots
    <3> QED
      BY <3>1, <3>2
  <2>3. xnum' \in 0 .. MaxFrames /\ xcount' \in Int
    BY <2>0, SizeAssumption DEF NextLocation
  <2>4. xframes' \in Traces
    BY <2>0, EmptyIsTrace DEF NextLocation
  <2> QED
    BY <2>2, <2>3, <2>4
<1>2. CASE ExtractLoad
  BY <1>1, <1>2 DEF ExtractLoad
<1>3. CASE ExtractNum
  BY <1>3, SizeAssumption DEF ExtractNum
<1>4. CASE ExtractLock
  BY <1>4 DEF ExtractLock
<1>5. CASE ExtractCopy
  BY <1>5, PrefixIsTrace DEF ExtractCopy
<1>6. CASE ExtractSpin
  BY <1>6 DEF ExtractSpin
<1>7. CASE ExtractRelease
  <2>1. aggregated' \in [Traces -> Int]
    BY <1>7 DEF ExtractRelease, Aggregate
  <2>2. count' \in [Slots -> Int]
    BY <1>7 DEF ExtractRelease
  <2>3. NextLocation /\ UNCHANGED <<active, numFrames, buffer, handlerVars>>
    BY <1>7 DEF ExtractRelease
  <2> QED
    BY <1>1, <2>1, <2>2, <2>3
<1> QED
  BY <1>2, <1>3, <1>4, <1>5, <1>6, <1>7 DEF ExtractStep

\* Every step keeps the types.
LEMMA TypeInvStep == TypeInv /\ [Next]_vars => TypeInv'
<1> SUFFICES ASSUME TypeInv, [Next]_vars PROVE TypeInv'
  OBVIOUS
<1>1. ASSUME NEW th \in Threads, NEW t \in Samples, Handle(th, t) PROVE TypeInv'
  <2>1. t \in Traces
    BY SamplesAssumption
  <2> QED
    BY <1>1, <2>1, SizeAssumption
    DEF Handle, Goto, TypeInv, TypeOK, LocalsInv, PCs, tableVars, extractVars
<1>2. ASSUME NEW th \in Threads, AddStep(th) PROVE TypeInv'
  BY <1>2, AddTypeInv
<1>3. CASE HarvestStart
  BY <1>3, SizeAssumption
  DEF HarvestStart, TypeInv, TypeOK, LocalsInv, XPCs, Slots, tableVars, handlerVars
<1>4. CASE ExtractStep
  BY <1>4, ExtractTypeInv
<1>5. CASE UNCHANGED vars
  BY <1>5
  DEF vars, tableVars, handlerVars, extractVars, TypeInv, TypeOK, LocalsInv
<1> QED
  BY <1>1, <1>2, <1>3, <1>4, <1>5 DEF Next

(***************************************************************************)
(* Every variable keeps its type: in particular no frame is written or     *)
(* copied beyond a frame_buffer, and no entry is accessed beyond the table *)
(* (probe and xloc).                                                       *)
(***************************************************************************)
THEOREM TypeCorrect == Spec => []TypeOK
<1>1. Spec => []TypeInv
  BY InitTypeInv, TypeInvStep, PTL DEF Spec
<1>2. TypeInv => TypeOK
  BY DEF TypeInv
<1> QED
  BY <1>1, <1>2, PTL

-----------------------------------------------------------------------------
(* What a step leaves alone. *)

\* A handler's step disturbs no other handler.
LEMMA OtherHandlers ==
  ASSUME TypeInv, NEW th \in Threads, NEW t \in Threads, t # th,
         AddStep(th) \/ (\E u \in Samples : Handle(th, u))
  PROVE  pc'[t] = pc[t] /\ seen'[t] = seen[t] /\ Slot(t)' = Slot(t)
<1>1. pc'[t] = pc[t] /\ seen'[t] = seen[t] /\ trace'[t] = trace[t] /\ probe'[t] = probe[t]
  <2> USE DEF TypeInv, TypeOK, Goto, Return
  <2>1. CASE \E u \in Samples : Handle(th, u)
    BY <2>1 DEF Handle
  <2>2. CASE AddEnter(th) \/ AddLoad(th) \/ AddReserve(th) \/ AddReserved(th)
    BY <2>2 DEF AddEnter, AddLoad, AddReserve, AddReserved
  <2>3. CASE AddWrite(th) \/ AddPublish(th) \/ AddCompare(th) \/ AddReload(th)
    BY <2>3 DEF AddWrite, AddPublish, AddCompare, AddReload
  <2>4. CASE AddBump(th) \/ AddBumped(th) \/ AddLeave(th) \/ CountUnknown(th)
    BY <2>4 DEF AddBump, AddBumped, AddLeave, CountUnknown
  <2> QED
    BY <2>1, <2>2, <2>3, <2>4 DEF AddStep
<1> QED
  BY <1>1 DEF Slot

\* A handler stays at its entry until it leaves it.
LEMMA SameSlot ==
  ASSUME NEW th \in Threads, UNCHANGED <<trace, probe>>
  PROVE  Slot(th)' = Slot(th)
BY DEF Slot

-----------------------------------------------------------------------------
(* active_updates counts the handlers that are signed in. *)

\* Only threads sign in, so Cardinality is defined.
LEMMA UpdatingFinite ==
  ASSUME NEW s
  PROVE  IsFiniteSet(Updating(s)) /\ IsFiniteSet(Updating(s)')
<1>1. Updating(s) \in SUBSET Threads /\ Updating(s)' \in SUBSET Threads
  BY DEF Updating
<1> QED
  BY <1>1, ThreadsAssumption, FS_Subset

\* fetch_add
LEMMA SignIn ==
  ASSUME TypeInv, ActiveUpdatesExact, NEW th \in Threads, Slot(th) \in Slots,
         ~ Updates(th), Updates(th)', Slot(th)' = Slot(th),
         \A t \in Threads \ {th} : (Updates(t)' <=> Updates(t)) /\ Slot(t)' = Slot(t),
         active' = [active EXCEPT ![Slot(th)] = @ + 1]
  PROVE  ActiveUpdatesExact'
<1> SUFFICES ASSUME NEW s \in Slots PROVE active'[s] = Cardinality(Updating(s)')
  BY DEF ActiveUpdatesExact
<1>1. active[s] = Cardinality(Updating(s)) /\ active[s] \in Int
  BY DEF ActiveUpdatesExact, TypeInv, TypeOK
<1>2. CASE s = Slot(th)
  <2>1. Updating(s)' = Updating(s) \cup {th} /\ th \notin Updating(s)
    BY <1>2 DEF Updating, Updates
  <2>2. active'[s] = active[s] + 1
    BY <1>2 DEF TypeInv, TypeOK
  <2> QED
    BY <1>1, <2>1, <2>2, UpdatingFinite, FS_AddElement
<1>3. CASE s # Slot(th)
  <2>1. Updating(s)' = Updating(s)
    BY <1>3 DEF Updating, Updates
  <2> QED
    BY <1>1, <1>3, <2>1 DEF TypeInv, TypeOK
<1> QED
  BY <1>2, <1>3

\* fetch_sub
LEMMA SignOut ==
  ASSUME TypeInv, ActiveUpdatesExact, NEW th \in Threads, Slot(th) \in Slots,
         Updates(th), ~ Updates(th)',
         \A t \in Threads \ {th} : (Updates(t)' <=> Updates(t)) /\ Slot(t)' = Slot(t),
         active' = [active EXCEPT ![Slot(th)] = @ - 1]
  PROVE  ActiveUpdatesExact'
<1> SUFFICES ASSUME NEW s \in Slots PROVE active'[s] = Cardinality(Updating(s)')
  BY DEF ActiveUpdatesExact
<1>1. active[s] = Cardinality(Updating(s)) /\ active[s] \in Int
  BY DEF ActiveUpdatesExact, TypeInv, TypeOK
<1>2. CASE s = Slot(th)
  <2>1. Updating(s)' = Updating(s) \ {th} /\ th \in Updating(s)
    BY <1>2 DEF Updating, Updates
  <2>2. active'[s] = active[s] - 1
    BY <1>2 DEF TypeInv, TypeOK
  <2> QED
    BY <1>1, <2>1, <2>2, UpdatingFinite, FS_RemoveElement
<1>3. CASE s # Slot(th)
  <2>1. Updating(s)' = Updating(s)
    BY <1>3 DEF Updating, Updates
  <2> QED
    BY <1>1, <1>3, <2>1 DEF TypeInv, TypeOK
<1> QED
  BY <1>2, <1>3

\* Every other step.
LEMMA SignedInAlready ==
  ASSUME ActiveUpdatesExact,
         \A t \in Threads : /\ Updates(t)' <=> Updates(t)
                            /\ Updates(t) => Slot(t)' = Slot(t),
         active' = active
  PROVE  ActiveUpdatesExact'
<1>1. \A s \in Slots : Updating(s)' = Updating(s)
  BY DEF Updating, Updates
<1> QED
  BY <1>1 DEF ActiveUpdatesExact

\* A Reset while no handler runs.
LEMMA ClearedActive ==
  ASSUME TypeInv, ActiveUpdatesExact, NEW r \in Slots,
         \A th \in Threads : pc[th] = "idle" /\ pc'[th] = "idle",
         active' = [active EXCEPT ![r] = 0]
  PROVE  ActiveUpdatesExact'
<1> SUFFICES ASSUME NEW s \in Slots PROVE active'[s] = Cardinality(Updating(s)')
  BY DEF ActiveUpdatesExact
<1>1. Updating(s) = {} /\ Updating(s)' = {}
  BY DEF Updating
<1>2. Cardinality(Updating(s)) = 0 /\ Cardinality(Updating(s)') = 0
  BY <1>1, FS_EmptySet
<1>3. active[s] = 0
  BY <1>2 DEF ActiveUpdatesExact
<1> QED
  BY <1>2, <1>3 DEF TypeInv, TypeOK

\* Add signs in once and out once, on every path (stacktraces.cc:19-67).
LEMMA AddActive ==
  ASSUME TypeInv, ActiveUpdatesExact, NEW th \in Threads, AddStep(th)
  PROVE  ActiveUpdatesExact'
<1>1. \A t \in Threads \ {th} : pc'[t] = pc[t] /\ Slot(t)' = Slot(t)
  BY OtherHandlers
<1>2. \A t \in Threads \ {th} : (Updates(t)' <=> Updates(t)) /\ Slot(t)' = Slot(t)
  BY <1>1 DEF Updates
<1>3. pc[th] # "idle" => Slot(th) \in Slots
  BY AddStepSlot
<1>4. pc \in [Threads -> PCs]
  BY DEF TypeInv, TypeOK
<1>5. CASE AddEnter(th)
  <2>1. ~ Updates(th) /\ Updates(th)' /\ Slot(th)' = Slot(th) /\ Slot(th) \in Slots
    BY <1>3, <1>4, <1>5, SameSlot DEF AddEnter, Goto, Updates
  <2> QED
    BY <1>2, <1>5, <2>1, SignIn DEF AddEnter
<1>6. CASE AddReserved(th) \/ AddBumped(th) \/ AddLeave(th)
  <2>1. Updates(th) /\ ~ Updates(th)' /\ Slot(th) \in Slots
    BY <1>3, <1>4, <1>6 DEF AddReserved, AddBumped, AddLeave, Goto, Return, Updates
  <2>2. active' = [active EXCEPT ![Slot(th)] = @ - 1]
    BY <1>6 DEF AddReserved, AddBumped, AddLeave
  <2> QED
    BY <1>2, <2>1, <2>2, SignOut
<1>7. CASE AddLoad(th) \/ AddReserve(th) \/ AddCompare(th) \/ AddReload(th) \/ AddBump(th)
  <2>1. Updates(th)' /\ Updates(th)
    BY <1>4, <1>7
    DEF AddLoad, AddBranch, AddReserve, AddCompare, AddReload, AddBump, Goto, Updates
  <2>2. Slot(th)' = Slot(th)
    BY <1>7, SameSlot DEF AddLoad, AddReserve, AddCompare, AddReload, AddBump
  <2>3. active' = active
    BY <1>7 DEF AddLoad, AddReserve, AddCompare, AddReload, AddBump, tableVars
  <2> QED
    BY <1>2, <2>1, <2>2, <2>3, SignedInAlready
<1>8. CASE AddWrite(th) \/ AddPublish(th) \/ CountUnknown(th)
  <2>1. ~ Updates(th)' /\ ~ Updates(th)
    BY <1>4, <1>8 DEF AddWrite, AddPublish, CountUnknown, Goto, Return, Updates
  <2>2. active' = active
    BY <1>8 DEF AddWrite, AddPublish, CountUnknown, tableVars
  <2> QED
    BY <1>2, <2>1, <2>2, SignedInAlready
<1> QED
  BY <1>5, <1>6, <1>7, <1>8 DEF AddStep

\* No step but those of Add touches active_updates.
LEMMA ActiveStep == TypeInv /\ ActiveUpdatesExact /\ [Next]_vars => ActiveUpdatesExact'
<1> SUFFICES ASSUME TypeInv, ActiveUpdatesExact, [Next]_vars
             PROVE  ActiveUpdatesExact'
  OBVIOUS
<1>1. ASSUME NEW th \in Threads, NEW t \in Samples, Handle(th, t)
      PROVE  ActiveUpdatesExact'
  <2>1. \A u \in Threads \ {th} : (Updates(u)' <=> Updates(u)) /\ Slot(u)' = Slot(u)
    BY <1>1, OtherHandlers DEF Updates
  <2>2. ~ Updates(th)' /\ ~ Updates(th)
    BY <1>1 DEF Handle, Goto, Updates, TypeInv, TypeOK
  <2>3. active' = active
    BY <1>1 DEF Handle, tableVars
  <2> QED
    BY <2>1, <2>2, <2>3, SignedInAlready
<1>2. ASSUME NEW th \in Threads, AddStep(th) PROVE ActiveUpdatesExact'
  BY <1>2, AddActive
<1>3. CASE HarvestStart \/ ExtractStep \/ UNCHANGED vars
  <2>1. UNCHANGED handlerVars /\ active' = active
    BY <1>3 DEF HarvestStart, ExtractStep, ExtractLoad, ExtractNum, ExtractLock,
                ExtractCopy, ExtractSpin, ExtractRelease, vars, tableVars
  <2>2. \A u \in Threads : (Updates(u)' <=> Updates(u)) /\ Slot(u)' = Slot(u)
    BY <2>1 DEF handlerVars, Updates, Slot
  <2> QED
    BY <2>1, <2>2, SignedInAlready
<1> QED
  BY <1>1, <1>2, <1>3 DEF Next

\* At first no handler is signed in.
LEMMA InitActive == Init => ActiveUpdatesExact
<1> SUFFICES ASSUME Init, NEW s \in Slots PROVE active[s] = Cardinality(Updating(s))
  BY DEF ActiveUpdatesExact
<1>1. Updating(s) = {}
  BY DEF Init, HandlerInit, Updating
<1> QED
  BY <1>1, FS_EmptySet DEF Init, TableInit

(***************************************************************************)
(* active_updates is exact at every instant: what the wait in Extract      *)
(* relies on (stacktraces.h:67-69, 104).                                   *)
(***************************************************************************)
THEOREM ActiveExact == Spec => []ActiveUpdatesExact
<1>1. Init => TypeInv /\ ActiveUpdatesExact
  BY InitTypeInv, InitActive
<1>2. TypeInv /\ ActiveUpdatesExact /\ [Next]_vars => (TypeInv /\ ActiveUpdatesExact)'
  BY TypeInvStep, ActiveStep
<1> QED
  BY <1>1, <1>2, PTL DEF Spec

-----------------------------------------------------------------------------
(* Who owns an entry. *)

\* A handler's step that leaves the counts alone and neither makes it an owner
\* nor lets it inspect an entry.
LEMMA LocksUndisturbed ==
  ASSUME TypeInv, LockInv, NEW th \in Threads,
         \A t \in Threads \ {th} :
           pc'[t] = pc[t] /\ seen'[t] = seen[t] /\ Slot(t)' = Slot(t),
         Owns(th)' <=> Owns(th),
         Inspects(th)' => Inspects(th),
         Owns(th) \/ Inspects(th)' => Slot(th)' = Slot(th),
         pc'[th] # "bump",
         count' = count, UNCHANGED <<xpc, xloc>>
  PROVE  LockInv'
<1> USE DEF LockInv, Owns, Inspects, ExtractorOwns
<1>1. OwnerInv'
  BY DEF OwnerInv
<1>2. ExclusionInv'
  BY DEF ExclusionInv
<1>3. InspectInv'
  BY DEF InspectInv
<1>4. CountInv'
  BY DEF CountInv
<1> QED
  BY <1>1, <1>2, <1>3, <1>4

\* A step of Add keeps the locks exclusive: the compare-exchange takes a free
\* entry only, and the bump leaves a locked one alone (stacktraces.cc:26-63).
LEMMA AddLock ==
  ASSUME TypeInv, LockInv, NEW th \in Threads, AddStep(th)
  PROVE  LockInv'
<1> DEFINE z == Slot(th)
<1>1. \A t \in Threads \ {th} :
        pc'[t] = pc[t] /\ seen'[t] = seen[t] /\ Slot(t)' = Slot(t)
  BY OtherHandlers
<1>2. \A t \in Threads : pc[t] # "idle" => Slot(t) \in Slots
  BY AddStepSlot
<1>3. /\ pc \in [Threads -> PCs]
      /\ count \in [Slots -> Int]
      /\ seen \in [Threads -> Int]
      /\ xloc \in Slots
  BY DEF TypeInv, TypeOK
<1>4. UNCHANGED <<xpc, xloc>>
  BY DEF AddStep, AddEnter, AddLoad, AddReserve, AddReserved, AddWrite, AddPublish,
         AddCompare, AddReload, AddBump, AddBumped, AddLeave, CountUnknown,
         extractVars
<1>5. ASSUME AddEnter(th) \/ AddBumped(th) \/ AddLeave(th) \/ CountUnknown(th)
             \/ AddReserved(th) \/ AddWrite(th) \/ AddCompare(th)
      PROVE  LockInv'
  <2>1. count' = count
    BY <1>5 DEF AddEnter, AddBumped, AddLeave, CountUnknown, AddReserved, AddWrite,
                AddCompare, tableVars
  <2>2. /\ Owns(th)' <=> Owns(th)
        /\ Inspects(th)' => Inspects(th)
        /\ pc'[th] # "bump"
    BY <1>3, <1>5 DEF AddEnter, AddBumped, AddLeave, CountUnknown, AddReserved,
                AddWrite, AddCompare, Goto, Return, Owns, Inspects
  <2>3. Owns(th) \/ Inspects(th)' => Slot(th)' = Slot(th)
    BY <1>3, <1>5, SameSlot DEF AddEnter, AddBumped, AddLeave, CountUnknown,
                AddReserved, AddWrite, AddCompare, Goto, Return, Owns, Inspects
  <2> QED
    BY <1>1, <1>4, <2>1, <2>2, <2>3, LocksUndisturbed
<1>6. CASE AddLoad(th)
  <2>1. /\ pc[th] = "load" /\ count' = count /\ z = Slot(th) /\ z \in Slots /\ seen' = seen
        /\ Slot(th)' = z
    BY <1>2, <1>6, SameSlot DEF AddLoad, Goto, tableVars
  <2>2. \/ pc'[th] \in {"reserve", "leave"}
        \/ pc'[th] = "compare" /\ count[z] # 0 /\ count[z] # kTraceCountLocked
    BY <1>3, <1>6 DEF AddLoad, AddBranch, Goto
  <2> HIDE DEF z
  <2>3. OwnerInv'
    BY <1>1, <1>3, <1>4, <2>1, <2>2 DEF LockInv, OwnerInv, Owns, ExtractorOwns
  <2>4. ExclusionInv'
    BY <1>1, <1>3, <1>4, <2>1, <2>2 DEF LockInv, ExclusionInv, Owns, ExtractorOwns
  <2>5. InspectInv'
    BY <1>1, <1>2, <1>3, <1>4, <2>1, <2>2
    DEF LockInv, InspectInv, OwnerInv, Owns, Inspects, ExtractorOwns
  <2>6. CountInv'
    BY <1>4, <2>1 DEF LockInv, CountInv
  <2> QED
    BY <2>3, <2>4, <2>5, <2>6 DEF LockInv
<1>7. CASE AddReserve(th)
  <2>1. pc[th] = "reserve" /\ z = Slot(th) /\ z \in Slots /\ seen' = seen /\ Slot(th)' = z
    BY <1>2, <1>7, SameSlot DEF AddReserve, Goto
  <2>2. \/ /\ pc'[th] = "reserved" /\ count[z] = 0
           /\ count' = [count EXCEPT ![z] = kTraceCountLocked]
        \/ pc'[th] = "leave" /\ count' = count
    BY <1>3, <1>7 DEF AddReserve, Goto
  <2> HIDE DEF z
  <2>3. OwnerInv'
    BY <1>1, <1>2, <1>3, <1>4, <2>1, <2>2
    DEF LockInv, OwnerInv, ExclusionInv, InspectInv, CountInv, Owns, Inspects,
        ExtractorOwns
  <2>4. ExclusionInv'
    BY <1>1, <1>2, <1>3, <1>4, <2>1, <2>2
    DEF LockInv, OwnerInv, ExclusionInv, Owns, ExtractorOwns
  <2>5. InspectInv'
    BY <1>1, <1>2, <1>3, <1>4, <2>1, <2>2
    DEF LockInv, InspectInv, OwnerInv, ExclusionInv, CountInv, Owns, Inspects,
        ExtractorOwns
  <2>6. CountInv'
    BY <1>1, <1>2, <1>3, <1>4, <2>1, <2>2
    DEF LockInv, CountInv, InspectInv, OwnerInv, ExclusionInv, Owns, Inspects,
        ExtractorOwns
  <2> QED
    BY <2>3, <2>4, <2>5, <2>6 DEF LockInv
<1>8. CASE AddPublish(th)
  <2>1. pc[th] = "publish" /\ z = Slot(th) /\ z \in Slots /\ pc'[th] = "idle"
    BY <1>2, <1>3, <1>8 DEF AddPublish, Return
  <2>2. count' = [count EXCEPT ![z] = 1]
    BY <1>8 DEF AddPublish
  <2> HIDE DEF z
  <2>3. OwnerInv'
    BY <1>1, <1>2, <1>3, <1>4, <2>1, <2>2
    DEF LockInv, OwnerInv, ExclusionInv, InspectInv, CountInv, Owns, Inspects,
        ExtractorOwns
  <2>4. ExclusionInv'
    BY <1>1, <1>2, <1>3, <1>4, <2>1, <2>2
    DEF LockInv, OwnerInv, ExclusionInv, Owns, ExtractorOwns
  <2>5. InspectInv'
    BY <1>1, <1>2, <1>3, <1>4, <2>1, <2>2
    DEF LockInv, InspectInv, OwnerInv, ExclusionInv, CountInv, Owns, Inspects,
        ExtractorOwns
  <2>6. CountInv'
    BY <1>1, <1>2, <1>3, <1>4, <2>1, <2>2
    DEF LockInv, CountInv, InspectInv, OwnerInv, ExclusionInv, Owns, Inspects,
        ExtractorOwns
  <2> QED
    BY <2>3, <2>4, <2>5, <2>6 DEF LockInv
<1>9. CASE AddReload(th)
  <2>1. /\ pc[th] = "reload" /\ count' = count /\ z = Slot(th) /\ z \in Slots
        /\ Slot(th)' = z
    BY <1>2, <1>9, SameSlot DEF AddReload, Goto, tableVars
  <2>2. \/ /\ pc'[th] = "bump" /\ count[z] # kTraceCountLocked
           /\ seen'[th] = count[z]
        \/ pc'[th] = "leave"
    BY <1>3, <1>9 DEF AddReload, Goto
  <2> HIDE DEF z
  <2>3. OwnerInv'
    BY <1>1, <1>2, <1>3, <1>4, <2>1, <2>2
    DEF LockInv, OwnerInv, ExclusionInv, InspectInv, CountInv, Owns, Inspects,
        ExtractorOwns
  <2>4. ExclusionInv'
    BY <1>1, <1>2, <1>3, <1>4, <2>1, <2>2
    DEF LockInv, OwnerInv, ExclusionInv, Owns, ExtractorOwns
  <2>5. InspectInv'
    BY <1>1, <1>2, <1>3, <1>4, <2>1, <2>2
    DEF LockInv, InspectInv, OwnerInv, ExclusionInv, CountInv, Owns, Inspects,
        ExtractorOwns
  <2>6. CountInv'
    BY <1>1, <1>2, <1>3, <1>4, <2>1, <2>2
    DEF LockInv, CountInv, InspectInv, OwnerInv, ExclusionInv, Owns, Inspects,
        ExtractorOwns
  <2> QED
    BY <2>3, <2>4, <2>5, <2>6 DEF LockInv
<1>10. CASE AddBump(th)
  <2>1. pc[th] = "bump" /\ z = Slot(th) /\ z \in Slots /\ seen' = seen /\ Slot(th)' = z
    BY <1>2, <1>10, SameSlot DEF AddBump, Goto
  <2>2. \/ /\ pc'[th] = "bumped" /\ count[z] = seen[th]
           /\ count' = [count EXCEPT ![z] = seen[th] + 1]
        \/ pc'[th] = "leave" /\ count' = count
    BY <1>3, <1>10 DEF AddBump, Goto
  <2> HIDE DEF z
  <2>3. OwnerInv'
    BY <1>1, <1>2, <1>3, <1>4, <2>1, <2>2
    DEF LockInv, OwnerInv, ExclusionInv, InspectInv, CountInv, Owns, Inspects,
        ExtractorOwns
  <2>4. ExclusionInv'
    BY <1>1, <1>2, <1>3, <1>4, <2>1, <2>2
    DEF LockInv, OwnerInv, ExclusionInv, Owns, ExtractorOwns
  <2>5. InspectInv'
    BY <1>1, <1>2, <1>3, <1>4, <2>1, <2>2
    DEF LockInv, InspectInv, OwnerInv, ExclusionInv, CountInv, Owns, Inspects,
        ExtractorOwns
  <2>6. CountInv'
    BY <1>1, <1>2, <1>3, <1>4, <2>1, <2>2
    DEF LockInv, CountInv, InspectInv, OwnerInv, ExclusionInv, Owns, Inspects,
        ExtractorOwns
  <2> QED
    BY <2>3, <2>4, <2>5, <2>6 DEF LockInv
<1> QED
  BY <1>5, <1>6, <1>7, <1>8, <1>9, <1>10 DEF AddStep

\* The end of the wait: nobody inspects an entry whose active_updates is 0.
LEMMA NoUpdateNoInspection ==
  ASSUME TypeInv, ActiveUpdatesExact, active[xloc] = 0,
         NEW th \in Threads, Inspects(th)
  PROVE  Slot(th) # xloc
<1>1. xloc \in Slots /\ Cardinality(Updating(xloc)) = 0
  BY DEF ActiveUpdatesExact, TypeInv, TypeOK
<1>2. Updating(xloc) = {}
  BY <1>1, UpdatingFinite, FS_EmptySet
<1> QED
  BY <1>2 DEF Updating, Inspects

\* A step of Extract keeps them exclusive: the exchange takes an entry that is
\* in use, which is released when nobody inspects it (stacktraces.cc:78-101).
LEMMA ExtractLockInv ==
  ASSUME TypeInv, ActiveUpdatesExact, LockInv, HarvestStart \/ ExtractStep
  PROVE  LockInv'
<1>1. \A t \in Threads : pc'[t] = pc[t] /\ seen'[t] = seen[t] /\ Slot(t)' = Slot(t)
  BY DEF HarvestStart, ExtractStep, ExtractLoad, ExtractNum, ExtractLock,
         ExtractCopy, ExtractSpin, ExtractRelease, handlerVars, Slot
<1>2. \A t \in Threads : pc[t] # "idle" => Slot(t) \in Slots
  BY AddStepSlot
<1>3. count \in [Slots -> Int] /\ xloc \in Slots
  BY DEF TypeInv, TypeOK
<1>4. NextLocation => xpc' \in {"load", "idle"}
  BY DEF NextLocation
<1> USE <1>1, <1>2, <1>3, <1>4 DEF LockInv, OwnerInv, ExclusionInv, InspectInv,
        CountInv, Owns, Inspects, ExtractorOwns
<1>5. CASE HarvestStart \/ ExtractLoad \/ ExtractNum
  <2>1. /\ count' = count /\ xpc \in {"idle", "load", "num"}
        /\ \/ xpc' \in {"load", "idle"}
           \/ xpc' \in {"num", "lock"} /\ xloc' = xloc /\ count[xloc] > 0
    BY <1>5 DEF HarvestStart, ExtractLoad, ExtractNum, tableVars
  <2>2. OwnerInv'
    BY <2>1
  <2>3. ExclusionInv'
    BY <2>1
  <2>4. InspectInv'
    BY <2>1
  <2>5. CountInv'
    BY <2>1
  <2> QED
    BY <2>2, <2>3, <2>4, <2>5
<1>6. CASE ExtractLock
  <2>1. /\ xpc = "lock" /\ xpc' = "copy" /\ xloc' = xloc
        /\ count' = [count EXCEPT ![xloc] = kTraceCountLocked]
    BY <1>6 DEF ExtractLock
  <2>2. OwnerInv'
    BY <2>1
  <2>3. ExclusionInv'
    BY <2>1
  <2>4. InspectInv'
    BY <2>1
  <2>5. CountInv'
    BY <2>1
  <2> QED
    BY <2>2, <2>3, <2>4, <2>5
<1>7. CASE ExtractCopy
  <2>1. xpc = "copy" /\ xpc' = "spin" /\ xloc' = xloc /\ count' = count
    BY <1>7 DEF ExtractCopy, tableVars
  <2> QED
    BY <2>1
<1>8. CASE ExtractSpin
  <2>1. xpc = "spin" /\ xpc' = "release" /\ xloc' = xloc /\ count' = count
    BY <1>8 DEF ExtractSpin, tableVars
  <2>2. \A th \in Threads : Inspects(th) => Slot(th) # xloc
    BY <1>8, NoUpdateNoInspection DEF ExtractSpin
  <2> QED
    BY <2>1, <2>2
<1>9. CASE ExtractRelease
  <2>1. /\ xpc = "release" /\ xpc' \in {"load", "idle"}
        /\ count' = [count EXCEPT ![xloc] = 0]
    BY <1>9 DEF ExtractRelease
  <2>2. OwnerInv'
    BY <2>1
  <2>3. ExclusionInv'
    BY <2>1
  <2>4. InspectInv'
    BY <2>1
  <2>5. CountInv'
    BY <2>1
  <2> QED
    BY <2>2, <2>3, <2>4, <2>5
<1> QED
  BY <1>5, <1>6, <1>7, <1>8, <1>9 DEF ExtractStep

\* Every step keeps the locks exclusive.
LEMMA LockStep == IInv /\ [Next]_vars => LockInv'
<1> SUFFICES ASSUME IInv, [Next]_vars PROVE LockInv'
  OBVIOUS
<1> USE DEF IInv
<1>1. ASSUME NEW th \in Threads, NEW t \in Samples, Handle(th, t) PROVE LockInv'
  <2>1. \A u \in Threads \ {th} :
          pc'[u] = pc[u] /\ seen'[u] = seen[u] /\ Slot(u)' = Slot(u)
    BY <1>1, OtherHandlers
  <2>2. pc[th] = "idle" /\ pc'[th] = "enter"
    BY <1>1 DEF Handle, Goto, TypeInv, TypeOK
  <2>3. count' = count /\ UNCHANGED <<xpc, xloc>>
    BY <1>1 DEF Handle, tableVars, extractVars
  <2> QED
    BY <2>1, <2>2, <2>3, LocksUndisturbed DEF Owns, Inspects
<1>2. ASSUME NEW th \in Threads, AddStep(th) PROVE LockInv'
  BY <1>2, AddLock
<1>3. CASE HarvestStart \/ ExtractStep
  BY <1>3, ExtractLockInv
<1>4. CASE UNCHANGED vars
  BY <1>4 DEF vars, tableVars, handlerVars, extractVars, LockInv, OwnerInv,
    ExclusionInv, InspectInv, CountInv, Owns, Inspects, ExtractorOwns, Slot
<1> QED
  BY <1>1, <1>2, <1>3, <1>4 DEF Next

\* At first no entry is locked.
LEMMA InitLock == Init => LockInv
<1> SUFFICES ASSUME Init PROVE LockInv
  OBVIOUS
<1>1. /\ \A th \in Threads : pc[th] = "idle"
      /\ xpc = "idle"
      /\ \A s \in Slots : count[s] = 0
  BY DEF Init, TableInit, HandlerInit, ExtractInit
<1> QED
  BY <1>1 DEF LockInv, OwnerInv, ExclusionInv, InspectInv, CountInv, Owns,
              Inspects, ExtractorOwns

(***************************************************************************)
(* The inductive invariant: the protocol of stacktraces.cc:23-67 and       *)
(* 78-101 as a whole.                                                      *)
(***************************************************************************)
THEOREM Inductive == Spec => []IInv
<1>1. Init => IInv
  BY InitTypeInv, InitActive, InitLock DEF IInv
<1>2. IInv /\ [Next]_vars => IInv'
  BY TypeInvStep, ActiveStep, LockStep DEF IInv
<1> QED
  BY <1>1, <1>2, PTL DEF Spec

-----------------------------------------------------------------------------
(* The properties that follow. *)

\* An entry's owners: the lock has one, and the owner has the lock.
LEMMA LockHasOneOwner == IInv => LockedByOne
<1> SUFFICES ASSUME IInv, NEW s \in Slots
             PROVE  /\ count[s] = kTraceCountLocked <=> Reserving(s) # {} \/ Extracting(s)
                    /\ Cardinality(Reserving(s)) <= 1
                    /\ ~ (Reserving(s) # {} /\ Extracting(s))
  BY DEF LockedByOne
<1>1. count[s] = kTraceCountLocked <=> Reserving(s) # {} \/ Extracting(s)
  BY DEF IInv, LockInv, OwnerInv, Owns, ExtractorOwns, Reserving, Extracting
<1>2. Cardinality(Reserving(s)) <= 1
  <2>1. CASE Reserving(s) = {}
    BY <2>1, FS_EmptySet
  <2>2. ASSUME NEW th \in Reserving(s) PROVE Cardinality(Reserving(s)) = 1
    <3>1. \A t \in Reserving(s) : t = th
      BY DEF IInv, LockInv, ExclusionInv, Owns, Reserving
    <3>2. Reserving(s) = {th}
      BY <2>2, <3>1
    <3> QED
      BY <3>2, FS_Singleton
  <2> QED
    BY <2>1, <2>2
<1>3. ~ (Reserving(s) # {} /\ Extracting(s))
  BY DEF IInv, LockInv, ExclusionInv, Owns, ExtractorOwns, Reserving, Extracting
<1> QED
  BY <1>1, <1>2, <1>3

\* A reserved entry is neither compared nor copied.
LEMMA ReservedIsUnread == IInv => NoTornAccess
<1> SUFFICES ASSUME IInv, NEW s \in Slots, NEW th \in Reserving(s)
             PROVE  /\ Inspecting(s) = {}
                    /\ ~ (xloc = s /\ xpc \in {"num", "lock", "copy"})
  BY DEF NoTornAccess
<1>1. th \in Threads /\ Owns(th) /\ Slot(th) = s
  BY DEF Reserving, Owns
<1>2. Inspecting(s) = {}
  BY <1>1 DEF IInv, LockInv, InspectInv, Inspects, Inspecting
<1>3. count[s] = kTraceCountLocked
  BY <1>1 DEF IInv, LockInv, OwnerInv
<1>4. xloc = s => xpc \notin {"num", "lock"}
  BY <1>3 DEF IInv, LockInv, CountInv
<1>5. xloc = s => xpc # "copy"
  BY <1>1 DEF IInv, LockInv, ExclusionInv, ExtractorOwns
<1> QED
  BY <1>2, <1>4, <1>5

(***************************************************************************)
(* A locked entry has exactly one owner: two handlers never write the same *)
(* entry, and Extract never takes one that is being written (the           *)
(* reservation of stacktraces.cc:27 against the exchange of line 88).      *)
(***************************************************************************)
THEOREM SingleOwner == Spec => []LockedByOne
BY LockHasOneOwner, Inductive, PTL

(***************************************************************************)
(* No entry is rewritten while a handler compares its trace, nor while     *)
(* Extract reads it: the copies and comparisons of whole traces, which are *)
(* not atomic, never overlap a write of the same entry.                    *)
(***************************************************************************)
THEOREM NoTear == Spec => []NoTornAccess
BY ReservedIsUnread, Inductive, PTL

-----------------------------------------------------------------------------
(***************************************************************************)
(* The refinement of TraceBag.  Beside the locks (IInv) it rests on what   *)
(* the locks protect: BagInv says that a handler about to count a sample   *)
(* has its trace in the entry, and that Extract copies the trace of the    *)
(* samples it took.                                                        *)
(***************************************************************************)

\* The entry holds the trace that the handler is about to count.
HandlerBagInv ==
  \A th \in Threads :
    pc[th] \in {"publish", "reload", "bump"} => EntryTrace(Slot(th)) = trace[th]

\* Extract knows the length of the trace whose samples it takes, and took some.
ExtractBagInv ==
  /\ xpc \in {"lock", "copy"} => xnum = numFrames[xloc]
  /\ ExtractorOwns => xcount > 0

\* The table counts finitely many samples.
CountedFinite == \A t \in Traces : IsFiniteSet(CountedSamples(t))

BagInv == HandlerBagInv /\ ExtractBagInv /\ CountedFinite

-----------------------------------------------------------------------------
(* Data: the samples counted in the table. *)

\* A sample belongs to the one entry that counts it.
LEMMA CountedDef ==
  ASSUME NEW t, NEW p
  PROVE  p \in CountedSamples(t) <=>
           \E s \in Slots : /\ EntryTrace(s) = t
                            /\ \E k \in 1 .. count[s] : p = <<s, k>>
BY DEF CountedSamples

\* The same in the next state.
LEMMA CountedDefNext ==
  ASSUME NEW t, NEW p
  PROVE  p \in CountedSamples(t)' <=>
           \E s \in Slots : /\ EntryTrace(s)' = t
                            /\ \E k \in 1 .. count'[s] : p = <<s, k>>
BY DEF CountedSamples, Slots

\* A step that changes only entries that count nothing, before and after it.
LEMMA SameSamples ==
  ASSUME TypeOK, TypeOK',
         \A s \in Slots : \/ count'[s] = count[s] /\ EntryTrace(s)' = EntryTrace(s)
                          \/ count[s] <= 0 /\ count'[s] <= 0
  PROVE  \A t : CountedSamples(t)' = CountedSamples(t)
<1> SUFFICES ASSUME NEW t PROVE CountedSamples(t)' = CountedSamples(t)
  OBVIOUS
<1>1. \A s \in Slots : count[s] \in Int /\ count'[s] \in Int
  BY DEF TypeOK, Slots
<1>2. ASSUME NEW p, p \in CountedSamples(t) PROVE p \in CountedSamples(t)'
  <2>1. PICK s \in Slots : EntryTrace(s) = t /\ \E k \in 1 .. count[s] : p = <<s, k>>
    BY <1>2, CountedDef
  <2>2. count[s] > 0
    BY <1>1, <2>1
  <2>3. EntryTrace(s)' = t /\ count'[s] = count[s]
    BY <1>1, <2>1, <2>2
  <2> QED
    BY <2>1, <2>3, CountedDefNext
<1>3. ASSUME NEW p, p \in CountedSamples(t)' PROVE p \in CountedSamples(t)
  <2>1. PICK s \in Slots : EntryTrace(s)' = t /\ \E k \in 1 .. count'[s] : p = <<s, k>>
    BY <1>3, CountedDefNext
  <2>2. count'[s] > 0
    BY <1>1, <2>1
  <2>3. EntryTrace(s) = t /\ count'[s] = count[s]
    BY <1>1, <2>1, <2>2
  <2> QED
    BY <2>1, <2>3, CountedDef
<1> QED
  BY <1>2, <1>3

\* A step that counts one more sample in entry z.
LEMMA OneSampleMore ==
  ASSUME TypeOK, TypeOK', CountedFinite, NEW z \in Slots, NEW n \in Nat,
         \A s \in Slots : EntryTrace(s)' = EntryTrace(s),
         \A s \in Slots \ {z} : count'[s] = count[s],
         count'[z] = n + 1,
         count[z] = n \/ (n = 0 /\ count[z] <= 0)
  PROVE  \A t \in Traces :
           /\ IsFiniteSet(CountedSamples(t)')
           /\ PendingSamples(t)' = IF t = EntryTrace(z) THEN PendingSamples(t) + 1
                                                        ELSE PendingSamples(t)
<1> SUFFICES ASSUME NEW t \in Traces
             PROVE  /\ IsFiniteSet(CountedSamples(t)')
                    /\ PendingSamples(t)' = IF t = EntryTrace(z)
                                            THEN PendingSamples(t) + 1
                                            ELSE PendingSamples(t)
  OBVIOUS
<1>1. \A s \in Slots : count[s] \in Int /\ count'[s] \in Int
  BY DEF TypeOK, Slots
<1>2. IsFiniteSet(CountedSamples(t))
  BY DEF CountedFinite
<1>3. 1 .. count[z] = 1 .. n /\ 1 .. count'[z] = (1 .. n) \cup {n + 1}
  BY <1>1
<1>4. CASE t = EntryTrace(z)
  <2>1. CountedSamples(t)' = CountedSamples(t) \cup {<<z, n + 1>>}
    <3>1. ASSUME NEW p, p \in CountedSamples(t)'
          PROVE  p \in CountedSamples(t) \cup {<<z, n + 1>>}
      <4>1. PICK s \in Slots : EntryTrace(s)' = t /\ \E k \in 1 .. count'[s] : p = <<s, k>>
        BY <3>1, CountedDefNext
      <4>2. CASE s = z
        BY <1>3, <4>1, <4>2, CountedDef
      <4>3. CASE s # z
        BY <4>1, <4>3, CountedDef
      <4> QED
        BY <4>2, <4>3
    <3>2. ASSUME NEW p, p \in CountedSamples(t) \cup {<<z, n + 1>>}
          PROVE  p \in CountedSamples(t)'
      <4>1. CASE p = <<z, n + 1>>
        BY <1>3, <1>4, <4>1, CountedDefNext
      <4>2. CASE p \in CountedSamples(t)
        <5>1. PICK s \in Slots : EntryTrace(s) = t /\ \E k \in 1 .. count[s] : p = <<s, k>>
          BY <4>2, CountedDef
        <5>2. 1 .. count[s] \subseteq 1 .. count'[s]
          BY <1>3, <5>1
        <5> QED
          BY <5>1, <5>2, CountedDefNext
      <4> QED
        BY <3>2, <4>1, <4>2
    <3> QED
      BY <3>1, <3>2
  <2>2. <<z, n + 1>> \notin CountedSamples(t)
    <3>1. n + 1 \notin 1 .. n
      OBVIOUS
    <3>2. n + 1 \notin 1 .. count[z]
      BY <1>3, <3>1
    <3> QED
      BY <3>2, CountedDef
  <2> QED
    BY <1>2, <1>4, <2>1, <2>2, FS_AddElement DEF PendingSamples
<1>5. CASE t # EntryTrace(z)
  <2>1. CountedSamples(t)' = CountedSamples(t)
    <3>1. ASSUME NEW p
          PROVE  p \in CountedSamples(t)' <=> p \in CountedSamples(t)
      <4>1. \A s \in Slots : EntryTrace(s) = t => count'[s] = count[s]
        BY <1>5
      <4> QED
        BY <4>1, CountedDef, CountedDefNext
    <3> QED
      BY <3>1
  <2> QED
    BY <1>2, <1>5, <2>1 DEF PendingSamples
<1> QED
  BY <1>4, <1>5

\* The samples of one entry.
LEMMA PairCardinality ==
  ASSUME NEW s, NEW n \in Nat
  PROVE  /\ IsFiniteSet({s} \X (1 .. n))
         /\ Cardinality({s} \X (1 .. n)) = n
<1> DEFINE f == [k \in 1 .. n |-> <<s, k>>]
<1>1. f \in Bijection(1 .. n, {s} \X (1 .. n))
  <2>1. f \in Injection(1 .. n, {s} \X (1 .. n))
    BY DEF Injection, IsInjective
  <2>2. f \in Surjection(1 .. n, {s} \X (1 .. n))
    <3>1. ASSUME NEW p \in {s} \X (1 .. n)
          PROVE  \E k \in 1 .. n : f[k] = p
      <4>1. PICK k \in 1 .. n : p = <<s, k>>
        OBVIOUS
      <4> QED
        BY <4>1
    <3>2. f \in [1 .. n -> {s} \X (1 .. n)]
      OBVIOUS
    <3> HIDE DEF f
    <3> QED
      BY <3>1, <3>2 DEF Surjection
  <2> QED
    BY <2>1, <2>2 DEF Bijection
<1>2. IsFiniteSet(1 .. n) /\ Cardinality(1 .. n) = n
  BY FS_Interval
<1> QED
  BY <1>1, <1>2, FS_Bijection DEF ExistsBijection

\* A step that takes the samples of entry z out of the table.
LEMMA SamplesTaken ==
  ASSUME TypeOK, TypeOK', CountedFinite, NEW z \in Slots, count[z] > 0,
         \A s \in Slots : EntryTrace(s)' = EntryTrace(s),
         \A s \in Slots \ {z} : count'[s] = count[s],
         count'[z] = kTraceCountLocked
  PROVE  \A t \in Traces :
           /\ IsFiniteSet(CountedSamples(t)')
           /\ t = EntryTrace(z) => count[z] \in 1 .. PendingSamples(t)
           /\ PendingSamples(t)' = IF t = EntryTrace(z) THEN PendingSamples(t) - count[z]
                                                        ELSE PendingSamples(t)
<1> DEFINE own == {z} \X (1 .. count[z])
<1> SUFFICES ASSUME NEW t \in Traces
             PROVE  /\ IsFiniteSet(CountedSamples(t)')
                    /\ t = EntryTrace(z) => count[z] \in 1 .. PendingSamples(t)
                    /\ PendingSamples(t)' = IF t = EntryTrace(z)
                                            THEN PendingSamples(t) - count[z]
                                            ELSE PendingSamples(t)
  OBVIOUS
<1>1. count[z] \in Nat /\ 1 .. count'[z] = {}
  <2>1. count[z] \in Int
    BY DEF TypeOK
  <2> QED
    BY <2>1
<1>2. IsFiniteSet(CountedSamples(t))
  BY DEF CountedFinite
<1>3. IsFiniteSet(own) /\ Cardinality(own) = count[z]
  BY <1>1, PairCardinality
<1>4. CASE t = EntryTrace(z)
  <2>1. own \subseteq CountedSamples(t)
    BY <1>4, CountedDef
  <2>2. CountedSamples(t)' = CountedSamples(t) \ own
    <3>1. ASSUME NEW p, p \in CountedSamples(t)'
          PROVE  p \in CountedSamples(t) \ own
      <4>1. PICK s \in Slots : EntryTrace(s)' = t /\ \E k \in 1 .. count'[s] : p = <<s, k>>
        BY <3>1, CountedDefNext
      <4>2. s # z
        BY <1>1, <4>1
      <4> QED
        BY <4>1, <4>2, CountedDef
    <3>2. ASSUME NEW p, p \in CountedSamples(t) \ own
          PROVE  p \in CountedSamples(t)'
      <4>1. PICK s \in Slots : EntryTrace(s) = t /\ \E k \in 1 .. count[s] : p = <<s, k>>
        BY <3>2, CountedDef
      <4>2. s # z
        BY <3>2, <4>1
      <4> QED
        BY <4>1, <4>2, CountedDefNext
    <3> QED
      BY <3>1, <3>2
  <2>3. CountedSamples(t) \cap own = own
    BY <2>1
  <2> HIDE DEF own
  <2>4. /\ IsFiniteSet(CountedSamples(t)')
        /\ PendingSamples(t)' = PendingSamples(t) - count[z]
    <3>1. /\ IsFiniteSet(CountedSamples(t) \ own)
          /\ Cardinality(CountedSamples(t) \ own) =
               Cardinality(CountedSamples(t)) - Cardinality(CountedSamples(t) \cap own)
      BY <1>2, FS_Difference
    <3> QED
      BY <1>3, <2>2, <2>3, <3>1 DEF PendingSamples
  <2>5. count[z] <= PendingSamples(t) /\ PendingSamples(t) \in Nat
    BY <1>2, <1>3, <2>1, FS_Subset, FS_CardinalityType DEF PendingSamples
  <2> QED
    BY <1>1, <1>4, <2>4, <2>5
<1>5. CASE t # EntryTrace(z)
  <2>1. CountedSamples(t)' = CountedSamples(t)
    <3>1. ASSUME NEW p
          PROVE  p \in CountedSamples(t)' <=> p \in CountedSamples(t)
      <4>1. \A s \in Slots : EntryTrace(s) = t => count'[s] = count[s]
        BY <1>5
      <4> QED
        BY <4>1, CountedDef, CountedDefNext
    <3> QED
      BY <3>1
  <2> QED
    BY <1>2, <1>5, <2>1 DEF PendingSamples
<1> QED
  BY <1>4, <1>5

\* Writing a trace at the start of a buffer, frames beyond it as they were.
LEMMA PrefixWritten ==
  ASSUME NEW t \in Traces, NEW b \in [1 .. MaxFrames -> Frames \cup {NullFrame}],
         \A k \in 1 .. Len(t) : b[k] = t[k]
  PROVE  SubSeq(b, 1, Len(t)) = t
<1> DEFINE F == Frames \cup {NullFrame}
           u == SubSeq(b, 1, Len(t))
<1>1. Len(t) \in 0 .. MaxFrames /\ \A k \in 1 .. Len(t) : t[k] \in F
  BY TraceLen
<1>2. PICK n \in 0 .. MaxFrames : t \in [1 .. n -> F]
  BY DEF Traces
<1>3. t \in Seq(F)
  <2>1. n \in Nat
    BY SizeAssumption
  <2> QED
    BY <1>2, <2>1
<1>4. u \in Seq(F) /\ Len(u) = Len(t) /\ \A k \in 1 .. Len(t) : u[k] = b[k]
  <2>1. \A k \in 1 .. Len(t) : b[k] \in F
    BY <1>1, SizeAssumption
  <2> HIDE DEF F
  <2> QED
    BY <1>1, <2>1, SubSeqProperties, SizeAssumption
<1> HIDE DEF u, F
<1>5. u = t
  BY <1>3, <1>4, SeqEqual
<1> QED
  BY <1>5 DEF u

\* The copy loop of Add leaves the handler's trace in its entry.
LEMMA TraceWritten ==
  ASSUME TypeInv, NEW th \in Threads, AddWrite(th)
  PROVE  /\ EntryTrace(Slot(th))' = trace[th]
         /\ \A s \in Slots \ {Slot(th)} :
              EntryTrace(s)' = EntryTrace(s) /\ numFrames'[s] = numFrames[s]
<1> DEFINE z == Slot(th)
           t == trace[th]
           b == [k \in 1 .. MaxFrames |-> IF k <= Len(t) THEN t[k] ELSE buffer[z][k]]
<1>1. pc[th] = "write" /\ t \in Traces
  BY DEF AddWrite, Goto, TypeInv, TypeOK
<1>2. z \in Slots
  BY <1>1, AddStepSlot
<1>3. z' = z
  BY SameSlot DEF AddWrite
<1>4. /\ numFrames' = [numFrames EXCEPT ![z] = Len(t)]
      /\ buffer' = [buffer EXCEPT ![z] = b]
  BY DEF AddWrite
<1>5. /\ buffer \in [Slots -> [1 .. MaxFrames -> Frames \cup {NullFrame}]]
      /\ numFrames \in [Slots -> 0 .. MaxFrames]
  BY DEF TypeInv, TypeOK
<1>6. Len(t) \in 0 .. MaxFrames /\ \A k \in 1 .. Len(t) : t[k] \in Frames \cup {NullFrame}
  BY <1>1, TraceLen
<1>7. /\ b \in [1 .. MaxFrames -> Frames \cup {NullFrame}]
      /\ \A k \in 1 .. Len(t) : b[k] = t[k]
  BY <1>2, <1>5, <1>6, SizeAssumption
<1> HIDE DEF b, z, t
<1>8. SubSeq(b, 1, Len(t)) = t
  BY <1>1, <1>7, PrefixWritten
<1>9. buffer'[z] = b /\ numFrames'[z] = Len(t)
  BY <1>2, <1>4, <1>5
<1>10. \A s \in Slots \ {z} : buffer'[s] = buffer[s] /\ numFrames'[s] = numFrames[s]
  BY <1>2, <1>4, <1>5
<1>11. EntryTrace(z)' = t
  BY <1>3, <1>8, <1>9 DEF EntryTrace
<1> QED
  BY <1>10, <1>11 DEF EntryTrace, z, t

-----------------------------------------------------------------------------
(* What the locks protect. *)

\* Only the copy loop of Add writes a trace into the table.
LEMMA TracesStay ==
  ASSUME [Next]_vars, \A th \in Threads : ~ AddWrite(th)
  PROVE  /\ UNCHANGED <<numFrames, buffer>>
         /\ \A s : EntryTrace(s)' = EntryTrace(s)
<1>1. UNCHANGED <<numFrames, buffer>>
  <2>1. ASSUME NEW th \in Threads, NEW t \in Samples, Handle(th, t)
        PROVE  UNCHANGED <<numFrames, buffer>>
    BY <2>1 DEF Handle, tableVars
  <2>2. ASSUME NEW th \in Threads, AddStep(th)
        PROVE  UNCHANGED <<numFrames, buffer>>
    BY <2>2 DEF AddStep, AddEnter, AddLoad, AddReserve, AddReserved, AddPublish,
                AddCompare, AddReload, AddBump, AddBumped, AddLeave, CountUnknown,
                tableVars
  <2>3. CASE HarvestStart \/ ExtractStep
    BY <2>3 DEF HarvestStart, ExtractStep, ExtractLoad, ExtractNum, ExtractLock,
                ExtractCopy, ExtractSpin, ExtractRelease, tableVars
  <2>4. CASE UNCHANGED vars
    BY <2>4 DEF vars, tableVars
  <2> QED
    BY <2>1, <2>2, <2>3, <2>4 DEF Next
<1> QED
  BY <1>1 DEF EntryTrace

\* The copy loop writes no entry that somebody else relies on.
LEMMA WriteIsPrivate ==
  ASSUME IInv, NEW th \in Threads, AddWrite(th)
  PROVE  /\ \A u \in Threads \ {th} :
              pc[u] \in {"publish", "reload", "bump"} => Slot(u) # Slot(th)
         /\ xpc \in {"lock", "copy"} => xloc # Slot(th)
<1>1. Owns(th)
  BY DEF AddWrite, Goto, Owns
<1>2. ASSUME NEW u \in Threads \ {th}, pc[u] \in {"publish", "reload", "bump"}
      PROVE  Slot(u) # Slot(th)
  <2>1. CASE pc[u] = "publish"
    BY <1>1, <2>1 DEF IInv, LockInv, ExclusionInv, Owns
  <2>2. CASE pc[u] \in {"reload", "bump"}
    BY <1>1, <2>2 DEF IInv, LockInv, InspectInv, Inspects
  <2> QED
    BY <1>2, <2>1, <2>2
<1>3. xpc = "lock" => xloc # Slot(th)
  BY <1>1 DEF IInv, LockInv, OwnerInv, CountInv
<1>4. xpc = "copy" => xloc # Slot(th)
  BY <1>1 DEF IInv, LockInv, ExclusionInv, ExtractorOwns
<1> QED
  BY <1>2, <1>3, <1>4

\* A handler's step leaves the trace and the entry of every other handler.
LEMMA OtherTraces ==
  ASSUME TypeInv, NEW th \in Threads, NEW u \in Threads, u # th,
         AddStep(th) \/ (\E t \in Samples : Handle(th, t))
  PROVE  pc'[u] = pc[u] /\ trace'[u] = trace[u] /\ Slot(u)' = Slot(u)
<1>1. trace'[u] = trace[u]
  BY DEF AddStep, AddEnter, AddLoad, AddReserve, AddReserved, AddWrite, AddPublish,
         AddCompare, AddReload, AddBump, AddBumped, AddLeave, CountUnknown, Handle,
         Return, TypeInv, TypeOK
<1> QED
  BY <1>1, OtherHandlers

\* A handler that is about to count its sample has written its trace, or has
\* found it in the entry (stacktraces.cc:33-45).
LEMMA HandlerBagStep == IInv /\ HandlerBagInv /\ [Next]_vars => HandlerBagInv'
<1> SUFFICES ASSUME IInv, HandlerBagInv, [Next]_vars,
                    NEW u \in Threads, pc'[u] \in {"publish", "reload", "bump"}
             PROVE  EntryTrace(Slot(u))' = trace'[u]
  BY DEF HandlerBagInv
<1>0. TypeInv /\ pc \in [Threads -> PCs]
  BY DEF IInv, TypeInv, TypeOK
<1>1. ASSUME NEW th \in Threads, AddWrite(th)
      PROVE  EntryTrace(Slot(u))' = trace'[u]
  <2>1. CASE u = th
    <3>1. trace'[th] = trace[th]
      BY <1>1 DEF AddWrite
    <3> QED
      BY <1>0, <1>1, <2>1, <3>1, TraceWritten
  <2>2. CASE u # th
    <3>1. pc'[u] = pc[u] /\ trace'[u] = trace[u] /\ Slot(u)' = Slot(u)
      BY <1>0, <1>1, <2>2, OtherTraces DEF AddStep
    <3>2. Slot(u) # Slot(th) /\ Slot(u) \in Slots
      BY <1>0, <1>1, <2>2, <3>1, WriteIsPrivate, AddStepSlot
    <3>3. EntryTrace(Slot(u))' = EntryTrace(Slot(u))
      <4>1. EntryTrace(Slot(u))' = SubSeq(buffer'[Slot(u)'], 1, numFrames'[Slot(u)'])
        BY DEF EntryTrace
      <4>2. SubSeq(buffer'[Slot(u)], 1, numFrames'[Slot(u)]) = EntryTrace(Slot(u))
        BY <1>0, <1>1, <3>2, TraceWritten DEF EntryTrace
      <4> QED
        BY <3>1, <4>1, <4>2
    <3> QED
      BY <3>1, <3>3 DEF HandlerBagInv
  <2> QED
    BY <2>1, <2>2
<1>2. ASSUME \A th \in Threads : ~ AddWrite(th)
      PROVE  EntryTrace(Slot(u))' = trace'[u]
  <2>0. /\ UNCHANGED <<numFrames, buffer>>
        /\ EntryTrace(Slot(u))' = SubSeq(buffer'[Slot(u)'], 1, numFrames'[Slot(u)'])
    BY <1>2, TracesStay DEF EntryTrace
  <2>1. SUFFICES SubSeq(buffer[Slot(u)'], 1, numFrames[Slot(u)']) = trace'[u]
    BY <2>0
  <2>2. ASSUME pc'[u] = pc[u], trace'[u] = trace[u], Slot(u)' = Slot(u)
        PROVE  SubSeq(buffer[Slot(u)'], 1, numFrames[Slot(u)']) = trace'[u]
    BY <2>2 DEF HandlerBagInv, EntryTrace
  <2>3. ASSUME NEW th \in Threads, NEW t \in Samples, Handle(th, t)
        PROVE  SubSeq(buffer[Slot(u)'], 1, numFrames[Slot(u)']) = trace'[u]
    <3>1. u # th
      BY <1>0, <2>3 DEF Handle, Goto
    <3> QED
      BY <1>0, <2>2, <2>3, <3>1, OtherTraces
  <2>4. ASSUME NEW th \in Threads, AddStep(th)
        PROVE  SubSeq(buffer[Slot(u)'], 1, numFrames[Slot(u)']) = trace'[u]
    <3>1. CASE u # th
      BY <1>0, <2>2, <2>4, <3>1, OtherTraces
    <3>2. CASE u = th
      <4>1. \/ AddCompare(th) /\ EntryTrace(Slot(th)) = trace[th]
            \/ AddReload(th) /\ pc[th] = "reload"
        BY <1>0, <1>2, <2>4, <3>2
        DEF AddStep, AddEnter, AddLoad, AddBranch, AddReserve, AddReserved, AddPublish,
            AddCompare, AddReload, AddBump, AddBumped, AddLeave, CountUnknown, Goto,
            Return
      <4>2. UNCHANGED <<trace, probe>> /\ EntryTrace(Slot(th)) = trace[th]
        BY <4>1 DEF AddCompare, AddReload, HandlerBagInv
      <4>3. Slot(th)' = Slot(th)
        BY <4>2, SameSlot
      <4> QED
        BY <3>2, <4>2, <4>3 DEF EntryTrace
    <3> QED
      BY <3>1, <3>2
  <2>5. CASE HarvestStart \/ ExtractStep \/ UNCHANGED vars
    <3>1. UNCHANGED <<pc, trace, probe>>
      BY <2>5 DEF HarvestStart, ExtractStep, ExtractLoad, ExtractNum, ExtractLock,
                  ExtractCopy, ExtractSpin, ExtractRelease, vars, handlerVars
    <3> QED
      BY <2>2, <3>1, SameSlot
  <2> QED
    BY <2>3, <2>4, <2>5 DEF Next
<1> QED
  BY <1>1, <1>2

\* num_frames, read before the exchange, is still that of the entry when its
\* frames are copied; the exchange took samples (stacktraces.cc:79-93).
LEMMA ExtractBagStep == IInv /\ ExtractBagInv /\ [Next]_vars => ExtractBagInv'
<1> SUFFICES ASSUME IInv, ExtractBagInv, [Next]_vars PROVE ExtractBagInv'
  OBVIOUS
<1>0. TypeInv /\ xloc \in Slots
  BY DEF IInv, TypeInv, TypeOK
<1> USE DEF ExtractBagInv, ExtractorOwns
<1>1. ASSUME NEW th \in Threads, AddWrite(th) PROVE ExtractBagInv'
  <2>1. UNCHANGED <<xpc, xloc, xnum, xcount>>
    BY <1>1 DEF AddWrite, extractVars
  <2>2. xpc \in {"lock", "copy"} => numFrames'[xloc] = numFrames[xloc]
    BY <1>0, <1>1, WriteIsPrivate, TraceWritten
  <2> QED
    BY <2>1, <2>2
<1>2. ASSUME \A th \in Threads : ~ AddWrite(th) PROVE ExtractBagInv'
  <2>0. UNCHANGED numFrames
    BY <1>2, TracesStay
  <2>1. ASSUME UNCHANGED <<xpc, xloc, xnum, xcount>> PROVE ExtractBagInv'
    BY <2>0, <2>1
  <2>2. ASSUME NEW th \in Threads, NEW t \in Samples, Handle(th, t)
        PROVE  ExtractBagInv'
    BY <2>1, <2>2 DEF Handle, extractVars
  <2>3. ASSUME NEW th \in Threads, AddStep(th) PROVE ExtractBagInv'
    <3>1. UNCHANGED <<xpc, xloc, xnum, xcount>>
      BY <2>3 DEF AddStep, AddEnter, AddLoad, AddReserve, AddReserved, AddWrite,
             AddPublish, AddCompare, AddReload, AddBump, AddBumped, AddLeave,
             CountUnknown, extractVars
    <3> QED
      BY <2>1, <3>1
  <2>4. CASE HarvestStart \/ ExtractLoad
    BY <2>4 DEF HarvestStart, ExtractLoad, NextLocation
  <2>5. CASE ExtractNum
    <3>1. numFrames[xloc] \in 0 .. MaxFrames
      BY <1>0 DEF TypeInv, TypeOK
    <3>2. xnum' = numFrames[xloc]
      BY <2>5, <3>1, SizeAssumption DEF ExtractNum
    <3> QED
      BY <2>0, <2>5, <3>2 DEF ExtractNum
  <2>6. CASE ExtractLock
    <3>1. count[xloc] > 0
      BY <2>6 DEF ExtractLock, IInv, LockInv, CountInv
    <3> QED
      BY <2>0, <2>6, <3>1 DEF ExtractLock
  <2>7. CASE ExtractCopy \/ ExtractSpin
    BY <2>0, <2>7 DEF ExtractCopy, ExtractSpin
  <2>8. CASE ExtractRelease
    BY <2>8 DEF ExtractRelease, NextLocation
  <2>9. CASE UNCHANGED vars
    BY <2>1, <2>9 DEF vars, extractVars
  <2> QED
    BY <2>2, <2>3, <2>4, <2>5, <2>6, <2>7, <2>8, <2>9 DEF Next, ExtractStep
<1> QED
  BY <1>1, <1>2

-----------------------------------------------------------------------------
(* Every step maps to a step of the bag, or to none. *)

\* What a step leaves of the samples on their way to the TraceMultiset.
LEMMA InFlightStays ==
  ASSUME UNCHANGED <<xpc, xloc, xcount, xframes, aggregated>>,
         xpc = "copy" => EntryTrace(xloc)' = EntryTrace(xloc)
  PROVE  \A t \in Traces : (aggregated[t] + InFlight(t))' = aggregated[t] + InFlight(t)
<1> SUFFICES ASSUME NEW t \in Traces PROVE InFlight(t)' = InFlight(t)
  OBVIOUS
<1>1. CASE xpc = "copy"
  BY <1>1 DEF InFlight
<1>2. CASE xpc # "copy"
  BY <1>2 DEF InFlight
<1> QED
  BY <1>1, <1>2

\* A step that counts nothing, and returns from nothing.
LEMMA Silent ==
  ASSUME \A t \in Traces : CountedSamples(t)' = CountedSamples(t),
         \A t \in Traces : (aggregated[t] + InFlight(t))' = aggregated[t] + InFlight(t),
         \A th \in Threads : Operation(th)' = Operation(th),
         UNCHANGED <<unknown, trace>>
  PROVE  UNCHANGED Bag!vars
<1>1. \A t \in Traces : PendingSamples(t)' = PendingSamples(t)
  BY DEF PendingSamples
<1> QED
  BY <1>1 DEF Bag!vars

\* The steps of Add before a sample is counted, and after it is rejected here.
LEMMA AddSilent ==
  ASSUME IInv, IInv', BagInv, NEW th \in Threads,
         \/ AddEnter(th)   \/ AddLoad(th)   \/ AddReserve(th) \/ AddReserved(th)
         \/ AddWrite(th)   \/ AddCompare(th) \/ AddReload(th) \/ AddLeave(th)
         \/ AddBump(th) /\ count' = count
  PROVE  CountedFinite' /\ UNCHANGED Bag!vars
<1>0. TypeInv /\ TypeOK /\ TypeOK' /\ pc[th] # "idle" /\ pc \in [Threads -> PCs]
  BY DEF IInv, TypeInv, TypeOK, AddEnter, AddLoad, AddReserve, AddReserved, AddWrite,
         AddCompare, AddReload, AddLeave, AddBump, Goto
<1>1. AddStep(th) /\ [Next]_vars
  BY DEF AddStep, Next
<1>2. Slot(th) \in Slots
  BY <1>0, AddStepSlot
<1>3. UNCHANGED <<unknown, trace, xpc, xloc, xcount, xframes, aggregated>>
  BY DEF AddEnter, AddLoad, AddReserve, AddReserved, AddWrite, AddCompare, AddReload,
         AddLeave, AddBump, extractVars
<1>4. \A t \in Threads : Operation(t)' = Operation(t)
  <2>1. \A t \in Threads \ {th} : pc'[t] = pc[t]
    BY <1>0, <1>1, OtherHandlers
  <2>2. pc[th] \notin {"idle", "bumped"} /\ pc'[th] \notin {"idle", "bumped"}
    <3>1. CASE AddBump(th) /\ count' = count
      <4>1. pc[th] = "bump" /\ (pc'[th] = "leave" \/ count' # count)
        <5>1. pc[th] = "bump" /\ pc'[th] \in {"bumped", "leave"}
          BY <1>0, <3>1 DEF AddBump, Goto
        <5>2. pc'[th] = "bumped" =>
                /\ count[Slot(th)] = seen[th]
                /\ count' = [count EXCEPT ![Slot(th)] = seen[th] + 1]
          BY <1>0, <3>1 DEF AddBump, Goto
        <5>3. count \in [Slots -> Int] /\ seen[th] \in Int
          BY <1>0 DEF TypeOK
        <5> QED
          BY <1>2, <5>1, <5>2, <5>3
      <4> QED
        BY <3>1, <4>1
    <3>2. CASE AddEnter(th) \/ AddLoad(th) \/ AddReserve(th) \/ AddReserved(th)
      BY <1>0, <3>2 DEF AddEnter, AddLoad, AddBranch, AddReserve, AddReserved, Goto
    <3>3. CASE AddWrite(th) \/ AddCompare(th) \/ AddReload(th) \/ AddLeave(th)
      BY <1>0, <3>3 DEF AddWrite, AddCompare, AddReload, AddLeave, Goto
    <3> QED
      BY <3>1, <3>2, <3>3
  <2> QED
    BY <2>1, <2>2 DEF Operation
<1>5. \A s \in Slots : \/ count'[s] = count[s] /\ EntryTrace(s)' = EntryTrace(s)
                       \/ count[s] <= 0 /\ count'[s] <= 0
  <2>1. CASE AddReserve(th)
    <3>1. \A s \in Slots : EntryTrace(s)' = EntryTrace(s)
      BY <2>1 DEF AddReserve, EntryTrace
    <3>2. count \in [Slots -> Int]
      BY <1>0 DEF TypeOK
    <3>3. \A s \in Slots : count'[s] = count[s] \/ (count[s] <= 0 /\ count'[s] <= 0)
      BY <1>2, <2>1, <3>2 DEF AddReserve
    <3> QED
      BY <3>1, <3>3
  <2>2. CASE AddWrite(th)
    <3>1. count' = count
      BY <2>2 DEF AddWrite
    <3>2. count[Slot(th)] = kTraceCountLocked
      BY <2>2 DEF AddWrite, Goto, IInv, LockInv, OwnerInv, Owns
    <3>3. \A s \in Slots \ {Slot(th)} : EntryTrace(s)' = EntryTrace(s)
      BY <1>0, <2>2, TraceWritten
    <3> QED
      BY <3>1, <3>2, <3>3
  <2>3. CASE ~ AddReserve(th) /\ ~ AddWrite(th)
    <3>1. count' = count
      BY <2>3 DEF AddEnter, AddLoad, AddReserved, AddCompare, AddReload, AddLeave,
                  tableVars
    <3>2. UNCHANGED <<buffer, numFrames>>
      BY <2>3 DEF AddEnter, AddLoad, AddReserved, AddCompare, AddReload, AddLeave,
                  AddBump, tableVars
    <3> QED
      BY <3>1, <3>2 DEF EntryTrace
  <2> QED
    BY <2>1, <2>2, <2>3
<1>6. \A t : CountedSamples(t)' = CountedSamples(t)
  BY <1>0, <1>5, SameSamples
<1>7. xpc = "copy" => EntryTrace(xloc)' = EntryTrace(xloc)
  <2>1. CASE xpc = "copy"
    <3>1. xloc \in Slots /\ count[xloc] = kTraceCountLocked
      BY <1>0, <2>1 DEF TypeOK, IInv, LockInv, OwnerInv, ExtractorOwns
    <3>2. CASE AddWrite(th)
      <4>1. xloc # Slot(th)
        BY <2>1, <3>2, WriteIsPrivate
      <4>2. SubSeq(buffer'[xloc], 1, numFrames'[xloc]) = EntryTrace(xloc)
        BY <1>0, <3>1, <3>2, <4>1, TraceWritten DEF EntryTrace
      <4> QED
        BY <1>3, <4>2 DEF EntryTrace
    <3>3. CASE ~ AddWrite(th)
      <4>1. UNCHANGED <<buffer, numFrames>>
        BY <3>3 DEF AddEnter, AddLoad, AddReserve, AddReserved, AddCompare, AddReload,
                    AddLeave, AddBump, tableVars
      <4> QED
        BY <1>3, <4>1 DEF EntryTrace
    <3> QED
      BY <3>2, <3>3
  <2> QED
    BY <2>1
<1>8. \A t \in Traces : (aggregated[t] + InFlight(t))' = aggregated[t] + InFlight(t)
  BY <1>3, <1>7, InFlightStays
<1> QED
  BY <1>3, <1>4, <1>6, <1>8, Silent DEF BagInv, CountedFinite, Traces

\* A handler starts: the operation begins.
LEMMA HandleBegins ==
  ASSUME IInv, IInv', BagInv, NEW th \in Threads, NEW t \in Samples, Handle(th, t)
  PROVE  CountedFinite' /\ Bag!Begin(th, t)
<1>0. TypeOK /\ TypeOK' /\ pc \in [Threads -> PCs]
  BY DEF IInv, TypeInv, TypeOK
<1>1. /\ pc[th] = "idle" /\ pc' = [pc EXCEPT ![th] = "enter"]
      /\ trace' = [trace EXCEPT ![th] = t]
      /\ UNCHANGED <<unknown, count, numFrames, buffer, xpc, xloc, xcount, xframes,
                     aggregated>>
  BY DEF Handle, Goto, tableVars, extractVars
<1>2. \A u : EntryTrace(u)' = EntryTrace(u)
  BY <1>1 DEF EntryTrace
<1>3. \A u : CountedSamples(u)' = CountedSamples(u)
  BY <1>0, <1>1, <1>2, SameSamples
<1>4. EntryTrace(xloc)' = EntryTrace(xloc)
  BY <1>1 DEF EntryTrace
<1>5. \A u \in Traces : (aggregated[u] + InFlight(u))' = aggregated[u] + InFlight(u)
  BY <1>1, <1>4, InFlightStays
<1>6. \A u \in Traces : PendingSamples(u)' = PendingSamples(u)
  BY <1>3 DEF PendingSamples
<1>7. [u \in Threads |-> Operation(u)]' =
        [[u \in Threads |-> Operation(u)] EXCEPT ![th] = "adding"]
  BY <1>0, <1>1 DEF Operation
<1>8. CountedFinite'
  BY <1>3 DEF BagInv, CountedFinite, Traces
<1> QED
  BY <1>1, <1>5, <1>6, <1>7, <1>8 DEF Bag!Begin, Operation

\* count.store(1), and the successful compare-exchange: the sample is recorded.
LEMMA AddRecords ==
  ASSUME IInv, IInv', BagInv, NEW th \in Threads,
         AddPublish(th) \/ (AddBump(th) /\ pc'[th] = "bumped")
  PROVE  CountedFinite' /\ Bag!Record(th)
<1> DEFINE z == Slot(th)
<1>0. TypeInv /\ TypeOK /\ TypeOK' /\ pc \in [Threads -> PCs]
  BY DEF IInv, TypeInv, TypeOK
<1>1. pc[th] \in {"publish", "bump"}
  BY DEF AddPublish, AddBump, Goto
<1>2. z \in Slots /\ trace[th] \in Traces /\ EntryTrace(z) = trace[th]
  BY <1>0, <1>1, AddStepSlot DEF BagInv, HandlerBagInv, TypeOK
<1>3. UNCHANGED <<unknown, numFrames, buffer, xpc, xloc, xcount, xframes, aggregated>>
  BY DEF AddPublish, AddBump, extractVars
<1>4. /\ \A s : EntryTrace(s)' = EntryTrace(s)
      /\ EntryTrace(xloc)' = EntryTrace(xloc)
  BY <1>3 DEF EntryTrace
<1>5. \E n \in Nat : /\ count'[z] = n + 1
                     /\ \A s \in Slots \ {z} : count'[s] = count[s]
                     /\ count[z] = n \/ (n = 0 /\ count[z] <= 0)
  <2>1. CASE AddPublish(th)
    <3>1. count[z] = kTraceCountLocked
      BY <2>1 DEF AddPublish, IInv, LockInv, OwnerInv, Owns
    <3>2. count'[z] = 0 + 1 /\ \A s \in Slots \ {z} : count'[s] = count[s]
      BY <1>0, <1>2, <2>1 DEF AddPublish, TypeOK
    <3> HIDE DEF z
    <3> QED
      BY <3>1, <3>2
  <2>2. CASE AddBump(th) /\ pc'[th] = "bumped"
    <3>1. pc[th] = "bump" /\ count[z] = seen[th]
          /\ count'[z] = seen[th] + 1
          /\ \A s \in Slots \ {z} : count'[s] = count[s]
      BY <1>0, <1>2, <2>2 DEF AddBump, Goto, TypeOK
    <3>2. seen[th] \in Int /\ seen[th] > 0
      BY <1>0, <3>1 DEF TypeOK, IInv, LockInv, InspectInv
    <3> QED
      BY <3>1, <3>2
  <2> QED
    BY <2>1, <2>2
<1> HIDE DEF z
<1>6. PICK n \in Nat : /\ count'[z] = n + 1
                       /\ \A s \in Slots \ {z} : count'[s] = count[s]
                       /\ count[z] = n \/ (n = 0 /\ count[z] <= 0)
  BY <1>5
<1>7. \A t \in Traces :
        /\ IsFiniteSet(CountedSamples(t)')
        /\ PendingSamples(t)' = IF t = EntryTrace(z) THEN PendingSamples(t) + 1
                                                     ELSE PendingSamples(t)
  BY <1>0, <1>2, <1>4, <1>6, OneSampleMore DEF BagInv
<1>8. [t \in Traces |-> PendingSamples(t)]' =
        [[t \in Traces |-> PendingSamples(t)] EXCEPT ![trace[th]] = @ + 1]
  BY <1>2, <1>7 DEF Traces
<1>9. \A t \in Traces : (aggregated[t] + InFlight(t))' = aggregated[t] + InFlight(t)
  BY <1>3, <1>4, InFlightStays
<1>10. Operation(th) = "adding"
  BY <1>1 DEF Operation
<1>11. \/ Bag!Finish(th)
       \/ /\ [u \in Threads |-> Operation(u)]' =
               [[u \in Threads |-> Operation(u)] EXCEPT ![th] = "added"]
          /\ UNCHANGED trace
  <2>1. CASE AddPublish(th)
    <3>1. /\ pc' = [pc EXCEPT ![th] = "idle"]
          /\ trace' = [trace EXCEPT ![th] = <<>>]
      BY <2>1 DEF AddPublish, Return
    <3> QED
      BY <1>0, <3>1 DEF Bag!Finish, Operation
  <2>2. CASE AddBump(th) /\ pc'[th] = "bumped"
    <3>1. pc' = [pc EXCEPT ![th] = "bumped"] /\ trace' = trace
      BY <1>0, <2>2 DEF AddBump, Goto
    <3> QED
      BY <1>0, <3>1 DEF Operation
  <2> QED
    BY <2>1, <2>2
<1>12. CountedFinite'
  BY <1>7 DEF CountedFinite, Traces
<1>13. [t \in Traces |-> aggregated[t] + InFlight(t)]' =
         [t \in Traces |-> aggregated[t] + InFlight(t)]
  BY <1>9 DEF Traces
<1> QED
  BY <1>3, <1>8, <1>10, <1>11, <1>12, <1>13 DEF Bag!Record

\* The handler returns: true after the fetch_sub, or with a sample counted as
\* unknown.
LEMMA AddReturns ==
  ASSUME IInv, IInv', BagInv, NEW th \in Threads,
         AddBumped(th) \/ CountUnknown(th)
  PROVE  /\ CountedFinite'
         /\ AddBumped(th) => Bag!ReturnTrue(th)
         /\ CountUnknown(th) => Bag!Reject(th)
<1>0. TypeOK /\ TypeOK' /\ pc \in [Threads -> PCs]
  BY DEF IInv, TypeInv, TypeOK
<1>1. /\ pc' = [pc EXCEPT ![th] = "idle"]
      /\ trace' = [trace EXCEPT ![th] = <<>>]
      /\ UNCHANGED <<count, numFrames, buffer, xpc, xloc, xcount, xframes, aggregated>>
  BY DEF AddBumped, CountUnknown, Return, tableVars, extractVars
<1>2. \A u : EntryTrace(u)' = EntryTrace(u)
  BY <1>1 DEF EntryTrace
<1>3. \A u : CountedSamples(u)' = CountedSamples(u)
  BY <1>0, <1>1, <1>2, SameSamples
<1>4. EntryTrace(xloc)' = EntryTrace(xloc)
  BY <1>1 DEF EntryTrace
<1>5. \A u \in Traces : (aggregated[u] + InFlight(u))' = aggregated[u] + InFlight(u)
  BY <1>1, <1>4, InFlightStays
<1>6. \A u \in Traces : PendingSamples(u)' = PendingSamples(u)
  BY <1>3 DEF PendingSamples
<1>7. Bag!Finish(th)
  BY <1>0, <1>1 DEF Bag!Finish, Operation
<1>8. CountedFinite'
  BY <1>3 DEF BagInv, CountedFinite, Traces
<1>9. CASE AddBumped(th)
  <2>1. Operation(th) = "added" /\ unknown' = unknown /\ ~ CountUnknown(th)
    BY <1>9 DEF AddBumped, CountUnknown, Operation
  <2> QED
    BY <1>5, <1>6, <1>7, <1>8, <2>1 DEF Bag!ReturnTrue, Traces
<1>10. CASE CountUnknown(th)
  <2>1. Operation(th) = "adding" /\ unknown' = unknown + 1 /\ ~ AddBumped(th)
    BY <1>10 DEF AddBumped, CountUnknown, Operation
  <2> QED
    BY <1>5, <1>6, <1>7, <1>8, <2>1 DEF Bag!Reject, Traces
<1> QED
  BY <1>9, <1>10

\* The exchange in Extract: the samples of the entry leave the table at once.
LEMMA LockHarvests ==
  ASSUME IInv, IInv', BagInv, ExtractLock
  PROVE  /\ CountedFinite'
         /\ \E t \in Traces : \E n \in 1 .. PendingSamples(t) : Bag!Harvest(t, n)
<1>0. TypeOK /\ TypeOK' /\ xloc \in Slots /\ aggregated \in [Traces -> Int]
  BY DEF IInv, TypeInv, TypeOK
<1>1. \E t \in Traces : t = EntryTrace(xloc)
  BY <1>0, PrefixIsTrace DEF EntryTrace, TypeOK
<1>2. PICK t0 \in Traces : t0 = EntryTrace(xloc)
  BY <1>1
<1>3. PICK n0 \in Int : n0 = count[xloc]
  BY <1>0 DEF TypeOK
<1>4. /\ xpc = "lock" /\ xpc' = "copy" /\ xcount' = n0
      /\ count' = [count EXCEPT ![xloc] = kTraceCountLocked]
      /\ UNCHANGED <<xloc, aggregated, numFrames, buffer, unknown, trace, pc>>
  BY <1>3 DEF ExtractLock, handlerVars
<1>5. n0 > 0
  BY <1>0, <1>4, <1>3 DEF IInv, LockInv, CountInv, TypeOK
<1>6. \A s : EntryTrace(s)' = EntryTrace(s)
  BY <1>4 DEF EntryTrace
<1>7. count'[xloc] = kTraceCountLocked /\ \A s \in Slots \ {xloc} : count'[s] = count[s]
  BY <1>0, <1>4 DEF TypeOK
<1>8. \A t \in Traces :
        /\ IsFiniteSet(CountedSamples(t)')
        /\ t = t0 => n0 \in 1 .. PendingSamples(t)
        /\ PendingSamples(t)' = IF t = t0 THEN PendingSamples(t) - n0
                                          ELSE PendingSamples(t)
  BY <1>0, <1>5, <1>6, <1>7, <1>2, <1>3, SamplesTaken DEF BagInv
<1>9. \A t \in Traces : /\ InFlight(t) = 0
                        /\ InFlight(t)' = IF t = t0 /\ t # <<>> THEN n0 ELSE 0
  <2>1. EntryTrace(xloc)' = t0
    BY <1>4, <1>2 DEF EntryTrace
  <2> QED
    BY <1>4, <2>1 DEF InFlight
<1>10. [t \in Traces |-> PendingSamples(t)]' =
        [[t \in Traces |-> PendingSamples(t)] EXCEPT ![t0] = @ - n0]
  BY <1>8 DEF Traces
<1>11. [t \in Traces |-> aggregated[t] + InFlight(t)]' =
        IF t0 = <<>> THEN [t \in Traces |-> aggregated[t] + InFlight(t)]
        ELSE [[t \in Traces |-> aggregated[t] + InFlight(t)] EXCEPT ![t0] = @ + n0]
  <2>1. \A t \in Traces : /\ aggregated[t] + InFlight(t) = aggregated[t]
                          /\ (aggregated[t] + InFlight(t))' =
                               IF t = t0 /\ t # <<>> THEN aggregated[t] + n0
                                                     ELSE aggregated[t]
    BY <1>0, <1>4, <1>5, <1>9
  <2>2. CASE t0 = <<>>
    BY <2>1, <2>2 DEF Traces
  <2>3. CASE t0 # <<>>
    BY <2>1, <2>3 DEF Traces
  <2> QED
    BY <2>2, <2>3
<1>12. [th \in Threads |-> Operation(th)]' = [th \in Threads |-> Operation(th)]
  BY <1>4 DEF Operation
<1>13. Bag!Harvest(t0, n0)
  BY <1>4, <1>10, <1>11, <1>12 DEF Bag!Harvest
<1>14. CountedFinite'
  BY <1>8 DEF CountedFinite, Traces
<1>15. n0 \in 1 .. PendingSamples(t0)
  BY <1>8
<1> QED
  BY <1>13, <1>14, <1>15

\* The other steps of the harvest move samples that have left the table.
LEMMA HarvestSilent ==
  ASSUME IInv, IInv', BagInv,
         \/ HarvestStart \/ ExtractLoad \/ ExtractNum
         \/ ExtractCopy  \/ ExtractSpin \/ ExtractRelease
  PROVE  CountedFinite' /\ UNCHANGED Bag!vars
<1>0. TypeOK /\ TypeOK' /\ xloc \in Slots /\ aggregated \in [Traces -> Int]
      /\ xframes \in Traces /\ xcount \in Int
  BY DEF IInv, TypeInv, TypeOK
<1>1. UNCHANGED <<numFrames, buffer, unknown, trace, pc>>
  BY DEF HarvestStart, ExtractLoad, ExtractNum, ExtractCopy, ExtractSpin,
         ExtractRelease, handlerVars, tableVars
<1>2. \A s : EntryTrace(s)' = EntryTrace(s)
  BY <1>1 DEF EntryTrace
<1>3. \A s \in Slots : \/ count'[s] = count[s]
                       \/ count[s] <= 0 /\ count'[s] <= 0
  <2>1. CASE ExtractRelease
    <3>1. count[xloc] = kTraceCountLocked
      BY <2>1 DEF ExtractRelease, IInv, LockInv, OwnerInv, ExtractorOwns
    <3>2. count' = [count EXCEPT ![xloc] = 0] /\ count \in [Slots -> Int]
      BY <1>0, <2>1 DEF ExtractRelease, TypeOK
    <3> QED
      BY <1>0, <3>1, <3>2
  <2>2. CASE ~ ExtractRelease
    BY <2>2 DEF HarvestStart, ExtractLoad, ExtractNum, ExtractCopy, ExtractSpin,
                tableVars
  <2> QED
    BY <2>1, <2>2
<1>4. \A t : CountedSamples(t)' = CountedSamples(t)
  BY <1>0, <1>2, <1>3, SameSamples
<1>5. ASSUME NEW t \in Traces
      PROVE  aggregated'[t] + InFlight(t)' = aggregated[t] + InFlight(t)
  <2>1. CASE HarvestStart \/ ExtractLoad \/ ExtractNum
    <3>1. /\ aggregated' = aggregated
          /\ xpc \notin {"copy", "spin", "release"}
          /\ xpc' \notin {"copy", "spin", "release"}
      BY <2>1 DEF HarvestStart, ExtractLoad, ExtractNum, NextLocation
    <3> QED
      BY <3>1 DEF InFlight
  <2>2. CASE ExtractCopy
    <3>1. xpc = "copy" /\ xpc' = "spin" /\ UNCHANGED <<xcount, aggregated>>
      BY <2>2 DEF ExtractCopy
    <3>2. xframes' = EntryTrace(xloc)
      BY <2>2 DEF ExtractCopy, EntryTrace, BagInv, ExtractBagInv
    <3> QED
      BY <3>1, <3>2 DEF InFlight
  <2>3. CASE ExtractSpin
    <3>1. /\ xpc = "spin" /\ xpc' = "release"
          /\ UNCHANGED <<xcount, xframes, aggregated>>
      BY <2>3 DEF ExtractSpin
    <3> QED
      BY <3>1 DEF InFlight
  <2>4. CASE ExtractRelease
    <3>1. xpc = "release" /\ xpc' \in {"load", "idle"} /\ xcount > 0
          /\ Aggregate(xframes, xcount)
      BY <2>4 DEF ExtractRelease, NextLocation, BagInv, ExtractBagInv, ExtractorOwns
    <3>2. InFlight(t)' = 0
      BY <3>1 DEF InFlight
    <3>3. InFlight(t) = IF t = xframes /\ t # <<>> THEN xcount ELSE 0
      BY <3>1 DEF InFlight
    <3>4. Len(xframes) > 0 <=> xframes # <<>>
      <4>1. PICK n \in 0 .. MaxFrames : xframes \in [1 .. n -> Frames \cup {NullFrame}]
        BY <1>0 DEF Traces
      <4>2. n \in Nat
        BY SizeAssumption
      <4>3. xframes \in Seq(Frames \cup {NullFrame})
        BY <4>1, <4>2
      <4> QED
        BY <4>3, EmptySeq
    <3>5. aggregated' = IF xframes # <<>> THEN [aggregated EXCEPT ![xframes] = @ + xcount]
                                          ELSE aggregated
      BY <3>1, <3>4 DEF Aggregate
    <3>6. aggregated'[t] = IF t = xframes /\ t # <<>> THEN aggregated[t] + xcount
                                                      ELSE aggregated[t]
      BY <1>0, <3>5
    <3>7. aggregated[t] \in Int
      BY <1>0
    <3> QED
      BY <1>0, <3>2, <3>3, <3>6, <3>7
  <2> QED
    BY <2>1, <2>2, <2>3, <2>4
<1>6. \A t \in Traces : (aggregated[t] + InFlight(t))' = aggregated[t] + InFlight(t)
  BY <1>5
<1>7. \A th \in Threads : Operation(th)' = Operation(th)
  BY <1>1 DEF Operation
<1> QED
  BY <1>1, <1>4, <1>6, <1>7, Silent DEF BagInv, CountedFinite, Traces

-----------------------------------------------------------------------------
(* The refinement. *)

\* The zeroed table counts no sample (stacktraces.h:71-77).
LEMMA InitBag == Init => BagInv /\ Bag!Init
<1> SUFFICES ASSUME Init PROVE BagInv /\ Bag!Init
  OBVIOUS
<1>1. /\ count = [s \in Slots |-> 0]
      /\ pc = [th \in Threads |-> "idle"]
      /\ trace = [th \in Threads |-> <<>>]
      /\ unknown = 0 /\ xpc = "idle"
      /\ aggregated = [t \in Traces |-> 0]
  BY DEF Init, TableInit, HandlerInit, ExtractInit
<1>2. \A t : CountedSamples(t) = {}
  <2>1. \A s \in Slots : 1 .. count[s] = {}
    BY <1>1
  <2> QED
    BY <2>1, CountedDef
<1>3. \A t : PendingSamples(t) = 0 /\ IsFiniteSet(CountedSamples(t))
  BY <1>2, FS_EmptySet DEF PendingSamples
<1>4. \A t \in Traces : aggregated[t] + InFlight(t) = 0
  BY <1>1 DEF InFlight
<1>5. \A th \in Threads : Operation(th) = "idle"
  BY <1>1 DEF Operation
<1>6. Bag!Init
  BY <1>1, <1>3, <1>4, <1>5 DEF Bag!Init
<1>7. BagInv
  BY <1>1, <1>3 DEF BagInv, HandlerBagInv, ExtractBagInv, CountedFinite, ExtractorOwns
<1> QED
  BY <1>6, <1>7

\* A step of a handler records its sample, ends, or changes nothing of the bag.
LEMMA AddRefines ==
  ASSUME IInv, IInv', BagInv, NEW th \in Threads, AddStep(th)
  PROVE  /\ CountedFinite'
         /\ \/ Bag!Record(th) \/ Bag!ReturnTrue(th) \/ Bag!Reject(th)
            \/ UNCHANGED Bag!vars
<1>1. CASE AddPublish(th) \/ (AddBump(th) /\ pc'[th] = "bumped")
  BY <1>1, AddRecords
<1>2. CASE AddBumped(th) \/ CountUnknown(th)
  BY <1>2, AddReturns
<1>3. CASE \/ AddEnter(th)   \/ AddLoad(th)    \/ AddReserve(th) \/ AddReserved(th)
           \/ AddWrite(th)   \/ AddCompare(th) \/ AddReload(th)  \/ AddLeave(th)
  BY <1>3, AddSilent
<1>4. CASE AddBump(th) /\ pc'[th] # "bumped"
  <2>1. count' = count
    BY <1>4 DEF AddBump, Goto, IInv, TypeInv, TypeOK
  <2> QED
    BY <1>4, <2>1, AddSilent
<1> QED
  BY <1>1, <1>2, <1>3, <1>4 DEF AddStep

\* A step of the extraction harvests some samples of one trace, or none.
LEMMA HarvestRefines ==
  ASSUME IInv, IInv', BagInv, HarvestStart \/ ExtractStep
  PROVE  /\ CountedFinite'
         /\ \/ \E t \in Traces : \E n \in 1 .. PendingSamples(t) : Bag!Harvest(t, n)
            \/ UNCHANGED Bag!vars
<1>1. CASE ExtractLock
  BY <1>1, LockHarvests
<1>2. CASE \/ HarvestStart \/ ExtractLoad \/ ExtractNum
           \/ ExtractCopy  \/ ExtractSpin \/ ExtractRelease
  BY <1>2, HarvestSilent
<1> QED
  BY <1>1, <1>2 DEF ExtractStep

\* And a step in which nothing happens.
LEMMA StutterSilent ==
  ASSUME IInv, IInv', BagInv, UNCHANGED vars
  PROVE  CountedFinite' /\ UNCHANGED Bag!vars
<1>1. UNCHANGED <<count, numFrames, buffer, pc, trace, unknown, xpc, xloc, xcount,
                  xframes, aggregated>>
  BY DEF vars, tableVars, handlerVars, extractVars
<1>2. \A s : EntryTrace(s)' = EntryTrace(s)
  BY <1>1 DEF EntryTrace
<1>3. \A t : CountedSamples(t)' = CountedSamples(t)
  BY <1>1, <1>2, SameSamples DEF IInv, TypeInv
<1>4. EntryTrace(xloc)' = EntryTrace(xloc)
  BY <1>1 DEF EntryTrace
<1>5. \A t \in Traces : (aggregated[t] + InFlight(t))' = aggregated[t] + InFlight(t)
  BY <1>1, <1>4, InFlightStays
<1>6. \A th \in Threads : Operation(th)' = Operation(th)
  BY <1>1 DEF Operation
<1> QED
  BY <1>1, <1>3, <1>5, <1>6, Silent DEF BagInv, CountedFinite, Traces

\* A step of the multiset is a step of the bag, or changes nothing of it.
LEMMA StepRefines ==
  IInv /\ IInv' /\ BagInv /\ [Next]_vars => CountedFinite' /\ [Bag!Next]_Bag!vars
<1> SUFFICES ASSUME IInv, IInv', BagInv, [Next]_vars
             PROVE  CountedFinite' /\ [Bag!Next]_Bag!vars
  OBVIOUS
<1>1. ASSUME NEW th \in Threads, NEW t \in Samples, Handle(th, t)
      PROVE  CountedFinite' /\ Bag!Next
  BY <1>1, HandleBegins DEF Bag!Next
<1>2. ASSUME NEW th \in Threads, AddStep(th)
      PROVE  CountedFinite' /\ [Bag!Next]_Bag!vars
  BY <1>2, AddRefines DEF Bag!Next
<1>3. CASE HarvestStart \/ ExtractStep
  <2>1. \A t \in Traces : [u \in Traces |-> PendingSamples(u)][t] = PendingSamples(t)
    OBVIOUS
  <2> QED
    BY <1>3, <2>1, HarvestRefines DEF Bag!Next
<1>4. CASE UNCHANGED vars
  BY <1>4, StutterSilent
<1> QED
  BY <1>1, <1>2, <1>3, <1>4 DEF Next

\* What the locks protect stays so.
LEMMA BagInvStep == IInv /\ IInv' /\ BagInv /\ [Next]_vars => BagInv'
BY HandlerBagStep, ExtractBagStep, StepRefines DEF BagInv

(***************************************************************************)
(* The multiset implements the bag: whatever the interleaving of the       *)
(* handlers with each other and with the harvest, every sample is counted  *)
(* exactly once, under its own trace, or as unknown, and reaches the       *)
(* TraceMultiset exactly once unless it has no frames                      *)
(* (stacktraces.cc:17-131, profiler.cc:154-157).                           *)
(***************************************************************************)
THEOREM MultisetImplementsBag == Spec => ImplementsBag
<1>1. Spec => []IInv
  BY Inductive
<1>2. Init => BagInv /\ Bag!Init
  BY InitBag
<1>3. IInv /\ IInv' /\ BagInv /\ [Next]_vars => BagInv' /\ [Bag!Next]_Bag!vars
  BY BagInvStep, StepRefines
<1> QED
  BY <1>1, <1>2, <1>3, PTL DEF Spec, ImplementsBag, Bag!Spec
=============================================================================
