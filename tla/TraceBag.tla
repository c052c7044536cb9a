------------------------------ MODULE TraceBag ------------------------------
(***************************************************************************)
(* What the pair AsyncSafeTraceMultiset / HarvestSamples promises to the   *)
(* profiler: a bag.  Each sampled trace is counted exactly once, at one    *)
(* instant between the start and the end of its Add call, or is counted as *)
(* unknown; a harvest moves counts from the table to the aggregated traces *)
(* without losing or inventing any.  Only traces without frames vanish.    *)
(***************************************************************************)
EXTENDS Integers

CONSTANTS Threads, Traces, Samples, EmptyTrace

VARIABLES
  pending,     \* pending[t]: samples of t counted in the table
  harvested,   \* harvested[t]: samples of t extracted from it
  unknown,     \* samples that found no room
  op,          \* per thread: "idle", "adding" or "added"
  arg          \* per thread: the trace being added

vars == <<pending, harvested, unknown, op, arg>>

Init ==
  /\ pending   = [t \in Traces |-> 0]
  /\ harvested = [t \in Traces |-> 0]
  /\ unknown   = 0
  /\ op  = [th \in Threads |-> "idle"]
  /\ arg = [th \in Threads |-> EmptyTrace]

Finish(th) ==
  /\ op'  = [op EXCEPT ![th] = "idle"]
  /\ arg' = [arg EXCEPT ![th] = EmptyTrace]

Begin(th, t) ==
  /\ op[th] = "idle"
  /\ op'  = [op EXCEPT ![th] = "adding"]
  /\ arg' = [arg EXCEPT ![th] = t]
  /\ UNCHANGED <<pending, harvested, unknown>>

\* The sample is counted; Add returns true now or later.
Record(th) ==
  /\ op[th] = "adding"
  /\ pending' = [pending EXCEPT ![arg[th]] = @ + 1]
  /\ \/ Finish(th)
     \/ op' = [op EXCEPT ![th] = "added"] /\ UNCHANGED arg
  /\ UNCHANGED <<harvested, unknown>>

ReturnTrue(th) ==
  /\ op[th] = "added"
  /\ Finish(th)
  /\ UNCHANGED <<pending, harvested, unknown>>

\* Add returned false and Handle counted the sample as unknown.
Reject(th) ==
  /\ op[th] = "adding"
  /\ unknown' = unknown + 1
  /\ Finish(th)
  /\ UNCHANGED <<pending, harvested>>

\* n of the samples of t leave the table.
Harvest(t, n) ==
  /\ pending' = [pending EXCEPT ![t] = @ - n]
  /\ harvested' = IF t = EmptyTrace THEN harvested
                                    ELSE [harvested EXCEPT ![t] = @ + n]
  /\ UNCHANGED <<unknown, op, arg>>

Next ==
  \/ \E th \in Threads :
       \/ \E t \in Samples : Begin(th, t)
       \/ Record(th)
       \/ ReturnTrue(th)
       \/ Reject(th)
  \/ \E t \in Traces : \E n \in 1 .. pending[t] : Harvest(t, n)

Spec == Init /\ [][Next]_vars
=============================================================================
