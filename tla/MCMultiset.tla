----------------------------- MODULE MCMultiset -----------------------------
(* Small instances of the lock-free multiset for TLC. *)
EXTENDS TraceBagRefinement

CONSTANTS f, g, t1

\* Two traces of different length that hash to the same entry.
TwoSamples == {<<f>>, <<f, g>>}
TwoHash    == [t \in TwoSamples |-> 0]

\* Only thread t1 is scheduled fairly: every other thread, and the profiling
\* thread, may stop for ever between any two steps.
LoneSpec == Spec /\ WF_vars(AddStep(t1))

(***************************************************************************)
(* Add is wait-free ("async-safe", stacktraces.h:55): a handler that keeps *)
(* running returns, whatever the other threads do or fail to do.           *)
(***************************************************************************)
AddWaitFree == (pc[t1] # "idle") ~> (pc[t1] = "idle")
=============================================================================
