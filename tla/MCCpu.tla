------------------------------- MODULE MCCpu -------------------------------
(* Small instances of the CPU profiler for TLC. *)
EXTENDS CpuCollector

CONSTANTS f, g

\* Traces that collide, one of them without frames.
TwoSamples   == {<<f>>, <<>>}
ThreeSamples == {<<f>>, <<g>>, <<>>}
TwoHash      == [t \in TwoSamples |-> 0]
ThreeHash    == [t \in ThreeSamples |-> 0]
=============================================================================
