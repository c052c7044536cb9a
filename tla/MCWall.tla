------------------------------- MODULE MCWall -------------------------------
(* Small instances of the wall-time profiler for TLC. *)
EXTENDS WallProfiler

\* CPython 3.10 and later: where _handler starts, and after the calls of
\* _record_trace, default_timer, max and release.
CallPoints == {"check", "lock", "test", "advance", "get"}
=============================================================================
