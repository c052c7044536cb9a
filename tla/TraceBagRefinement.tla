------------------------- MODULE TraceBagRefinement -------------------------
(***************************************************************************)
(* AsyncSafeTraceMultiset implements TraceBag.  The linearization points   *)
(* are the release of a reserved entry (AddPublish), the successful        *)
(* compare-exchange (AddBump), the increment of the unknown count          *)
(* (CountUnknown) and the exchange in Extract (ExtractLock).               *)
(***************************************************************************)
EXTENDS AsyncSafeTraceMultiset

\* The samples of t counted in the table, the k-th sample of entry s as the
\* pair <<s, k>>; a locked entry counts for nothing.
CountedSamples(t) ==
  UNION {{s} \X (1 .. count[s]) : s \in {e \in Slots : EntryTrace(e) = t}}

PendingSamples(t) == Cardinality(CountedSamples(t))

\* The samples on their way from the entry to the TraceMultiset.
InFlight(t) ==
  IF /\ xpc \in {"copy", "spin", "release"}
     /\ t = IF xpc = "copy" THEN EntryTrace(xloc) ELSE xframes
     /\ t # <<>>
  THEN xcount ELSE 0

Operation(th) ==
  CASE pc[th] = "idle"   -> "idle"
    [] pc[th] = "bumped" -> "added"
    [] OTHER             -> "adding"

Bag == INSTANCE TraceBag WITH
  EmptyTrace <- <<>>,
  pending    <- [t \in Traces |-> PendingSamples(t)],
  harvested  <- [t \in Traces |-> aggregated[t] + InFlight(t)],
  op         <- [th \in Threads |-> Operation(th)],
  arg        <- trace

(***************************************************************************)
(* Every sample is counted exactly once: no interleaving of handlers with  *)
(* each other and with the harvest loses, duplicates or mislabels one.     *)
(***************************************************************************)
ImplementsBag == Bag!Spec
=============================================================================
