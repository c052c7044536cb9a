----------------------------- MODULE CpuProfile -----------------------------
(***************************************************************************)
(* CPUProfiler.profile (cpu_profiler.py): the dictionary that the native   *)
(* profiler returns, with all that happens to frames before it does, is    *)
(* made a profile proto by Builder.                                        *)
(***************************************************************************)
EXTENDS Attribution, ProfileBuilder

\* CPUProfiler._build_profile
_build_profile(traces, order, period_ms) ==
  populate_profile(traces, order, "CPU", "nanoseconds", period_ms * 1000 * 1000)

(***************************************************************************)
(* The profile proto that CPUProfiler.profile builds of the dictionary     *)
(* (cpu_profiler.py:55-59, builder.py:36-73), in whatever order it yields  *)
(* the traces, reads back as the dictionary, and its types as CPU samples: *)
(* interning mixes up no string, function or location, whatever names      *)
(* coincide.                                                               *)
(***************************************************************************)
ProfileReadsBack ==
  cpc = "returned" =>
    \A order \in SetToSeqs(DOMAIN py_traces) :
      Represents(_build_profile(py_traces, order, 10), py_traces, "CPU", "nanoseconds",
                 10000000)
=============================================================================
