------------------------------- MODULE Clock -------------------------------
(***************************************************************************)
(* Points in time and durations as struct timespec holds them, and what    *)
(* clock.cc computes with them.  kNanosPerSecond is a parameter.           *)
(***************************************************************************)
EXTENDS Integers

CONSTANT kNanosPerSecond

ASSUME ClockAssumption == kNanosPerSecond \in Nat \ {0, 1}

Timespec == [sec : Int, nsec : Int]

\* The timespecs that clock_nanosleep does not refuse with EINVAL.
Valid(t) == t.nsec \in 0 .. kNanosPerSecond - 1

\* What a timespec means.
Nanos(t) == t.sec * kNanosPerSecond + t.nsec

\* Division in C++ truncates.
Quotient(n)  == IF n >= 0 THEN n \div kNanosPerSecond ELSE -((-n) \div kNanosPerSecond)
Remainder(n) == IF n >= 0 THEN n % kNanosPerSecond ELSE -((-n) % kNanosPerSecond)

NanosToTimeSpec(nanos) == [sec |-> Quotient(nanos), nsec |-> Remainder(nanos)]

\* Mutated form: the nanoseconds of the sum are not carried.
TimeAddNoCarry(t1, t2) == [sec |-> t1.sec + t2.sec, nsec |-> t1.nsec + t2.nsec]

TimeAdd(t1, t2) ==
  LET t == [sec |-> t1.sec + t2.sec, nsec |-> t1.nsec + t2.nsec]
  IN  IF t.nsec > kNanosPerSecond
      THEN [sec  |-> t.sec + Quotient(t.nsec), nsec |-> Remainder(t.nsec)]
      ELSE t

TimeLessThan(t1, t2) == t1.sec < t2.sec \/ (t1.sec = t2.sec /\ t1.nsec < t2.nsec)
=============================================================================
