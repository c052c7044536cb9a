------------------------- MODULE CollectTimingProofs -------------------------
(***************************************************************************)
(* The arithmetic of clock.cc for every length of a second, and what       *)
(* Collect makes of it for every duration, phase of the clock, interval    *)
(* between flushes and margin.                                             *)
(***************************************************************************)
EXTENDS CollectTiming, TLAPS

K == kNanosPerSecond

-----------------------------------------------------------------------------
(***************************************************************************)
(* What the provers are to know of division.                               *)
(***************************************************************************)
LEMMA Division ==
  ASSUME NEW m \in Nat, NEW k \in Nat \ {0}
  PROVE  m \div k \in Nat /\ m % k \in 0 .. k - 1 /\ m = k * (m \div k) + (m % k)
<1>1. m \div k \in Int /\ m \div k >= 0
  OBVIOUS
<1>2. m % k \in 0 .. k - 1 /\ m = k * (m \div k) + (m % k)
  OBVIOUS
<1> QED
  BY <1>1, <1>2

(***************************************************************************)
(* Division that truncates: the quotient and the remainder make up the     *)
(* number.                                                                 *)
(***************************************************************************)
LEMMA Truncation ==
  ASSUME NEW n \in Int
  PROVE  /\ Quotient(n) \in Int /\ Remainder(n) \in Int
         /\ Quotient(n) * K + Remainder(n) = n
         /\ n >= 0 => Quotient(n) >= 0 /\ Remainder(n) \in 0 .. K - 1
<1>1. K \in Nat \ {0} /\ K > 1
  BY ClockAssumption DEF K
<1>2. \A m \in Nat : /\ m \div K \in Nat /\ m % K \in 0 .. K - 1
                     /\ m = K * (m \div K) + (m % K)
  BY <1>1, Division
<1>3. CASE n >= 0
  BY <1>1, <1>2, <1>3 DEF Quotient, Remainder, K
<1>4. CASE n < 0
  <2> DEFINE m == -n
  <2>1. m \in Nat
    BY <1>4
  <2>2. /\ m \div K \in Nat /\ m % K \in 0 .. K - 1
        /\ m = K * (m \div K) + (m % K)
    BY <1>2, <2>1
  <2>3. Quotient(n) = -(m \div K) /\ Remainder(n) = -(m % K)
    BY <1>4 DEF Quotient, Remainder, K
  <2> HIDE DEF m
  <2>4. n = -m
    BY DEF m
  <2> QED
    BY <1>1, <1>4, <2>1, <2>2, <2>3, <2>4
<1> QED
  BY <1>3, <1>4

(***************************************************************************)
(* NanosToTimeSpec (clock.cc:37-41) is exact, and valid unless negative.   *)
(***************************************************************************)
LEMMA FromNanos ==
  ASSUME NEW n \in Int
  PROVE  /\ NanosToTimeSpec(n) \in Timespec
         /\ Nanos(NanosToTimeSpec(n)) = n
         /\ n >= 0 => Valid(NanosToTimeSpec(n)) /\ NanosToTimeSpec(n).sec >= 0
BY Truncation DEF NanosToTimeSpec, Timespec, Nanos, Valid, K

(***************************************************************************)
(* TimeAdd (clock.cc:23-30) adds exactly, whether it carries or not.       *)
(***************************************************************************)
LEMMA SumIsExact ==
  ASSUME NEW t1 \in Timespec, NEW t2 \in Timespec
  PROVE  /\ TimeAdd(t1, t2) \in Timespec
         /\ Nanos(TimeAdd(t1, t2)) = Nanos(t1) + Nanos(t2)
<1> DEFINE s == t1.sec + t2.sec
           n == t1.nsec + t2.nsec
<1>1. K \in Int /\ t1.sec \in Int /\ t2.sec \in Int /\ s \in Int /\ n \in Int
  BY ClockAssumption DEF K, Timespec
<1>2. Nanos(t1) + Nanos(t2) = s * K + n
  <2>1. (t1.sec + t2.sec) * K = t1.sec * K + t2.sec * K
    BY <1>1
  <2> QED
    BY <1>1, <2>1 DEF Nanos, K, Timespec
<1>3. CASE n > K
  <2>1. TimeAdd(t1, t2) = [sec |-> s + Quotient(n), nsec |-> Remainder(n)]
    BY <1>3 DEF TimeAdd, K
  <2>2. Quotient(n) \in Int /\ Remainder(n) \in Int /\ Quotient(n) * K + Remainder(n) = n
    BY <1>1, Truncation
  <2>3. Nanos(TimeAdd(t1, t2)) = (s + Quotient(n)) * K + Remainder(n)
    BY <2>1 DEF Nanos, K
  <2> HIDE DEF s, n
  <2> DEFINE q == Quotient(n)
             r == Remainder(n)
  <2>4. (s + q) * K + r = s * K + n
    <3> HIDE DEF q, r
    <3>1. q \in Int /\ r \in Int /\ q * K + r = n
      BY <2>2 DEF q, r
    <3>2. (s + q) * K = s * K + q * K
      BY <1>1, <3>1
    <3> QED
      BY <1>1, <3>1, <3>2
  <2>5. TimeAdd(t1, t2) \in Timespec
    BY <1>1, <2>1, <2>2 DEF Timespec
  <2> QED
    BY <1>2, <2>3, <2>4, <2>5
<1>4. CASE ~ (n > K)
  <2>1. TimeAdd(t1, t2) = [sec |-> s, nsec |-> n]
    BY <1>4 DEF TimeAdd, K
  <2> QED
    BY <1>1, <1>2, <2>1 DEF Nanos, Timespec, K
<1> QED
  BY <1>3, <1>4

(***************************************************************************)
(* Where TimeAdd goes wrong, and nowhere else: the sum of two valid        *)
(* timespecs is one that clock_nanosleep accepts unless the nanoseconds    *)
(* add up to exactly one second (clock.cc:25 tests with > where >= was     *)
(* meant).                                                                 *)
(***************************************************************************)
THEOREM CarryIsMissedAtOneSecond ==
  ASSUME NEW t1 \in Timespec, NEW t2 \in Timespec, Valid(t1), Valid(t2)
  PROVE  Valid(TimeAdd(t1, t2)) <=> t1.nsec + t2.nsec # kNanosPerSecond
<1> DEFINE n == t1.nsec + t2.nsec
<1>1. K \in Int /\ K > 1 /\ n \in 0 .. 2 * K - 2
  BY ClockAssumption DEF K, Valid, Timespec
<1>2. CASE n > K
  <2>1. TimeAdd(t1, t2).nsec = Remainder(n)
    BY <1>2 DEF TimeAdd, K
  <2> QED
    BY <1>1, <1>2, <2>1, Truncation DEF Valid, K
<1>3. CASE n <= K
  <2>1. TimeAdd(t1, t2).nsec = n
    BY <1>1, <1>3 DEF TimeAdd, K
  <2> QED
    BY <1>1, <1>3, <2>1 DEF Valid, K
<1> QED
  BY <1>1, <1>2, <1>3

(***************************************************************************)
(* TimeLessThan (clock.cc:32-35) compares seconds first.  That it denies   *)
(* t1 < t2 can be relied on although TimeAdd may have left a whole second  *)
(* among the nanoseconds of either.                                        *)
(***************************************************************************)
LEMMA NotLess ==
  ASSUME NEW t1 \in Timespec, NEW t2 \in Timespec,
         t1.nsec >= 0, t2.nsec <= kNanosPerSecond, ~ TimeLessThan(t1, t2)
  PROVE  Nanos(t2) <= Nanos(t1)
<1>1. K \in Int /\ K > 1 /\ t1.sec \in Int /\ t2.sec \in Int /\ t1.nsec \in Int /\ t2.nsec \in Int
  BY ClockAssumption DEF K, Timespec
<1>2. CASE t1.sec = t2.sec /\ t2.nsec <= t1.nsec
  BY <1>1, <1>2 DEF Nanos, K
<1>3. CASE t1.sec > t2.sec
  <2>1. t1.sec - t2.sec >= 1
    BY <1>1, <1>3
  <2>2. (t1.sec - t2.sec) * K >= K
    BY <1>1, <2>1
  <2>3. t1.sec * K - t2.sec * K >= K
    BY <1>1, <2>2
  <2> QED
    BY <1>1, <2>3 DEF Nanos, K
<1> QED
  BY <1>1, <1>2, <1>3 DEF TimeLessThan

LEMMA NegativeSeconds ==
  ASSUME NEW n \in Int, n < 0
  PROVE  Quotient(n) \in Int /\ Quotient(n) <= 0
<1>1. -n \in Nat /\ kNanosPerSecond \in Nat \ {0}
  BY ClockAssumption
<1>2. (-n) \div kNanosPerSecond \in Nat
  BY <1>1, Division
<1>3. Quotient(n) = -((-n) \div kNanosPerSecond)
  BY DEF Quotient
<1> QED
  BY <1>2, <1>3

(***************************************************************************)
(* The seconds of a later time are not fewer.                              *)
(***************************************************************************)
LEMMA SecondsGrow ==
  ASSUME NEW a \in Nat, NEW b \in Nat, a <= b
  PROVE  Quotient(a) <= Quotient(b)
<1> DEFINE qa == Quotient(a)
           ra == Remainder(a)
           qb == Quotient(b)
           rb == Remainder(b)
<1>1. /\ K \in Nat /\ K > 1 /\ qa \in Int /\ qb \in Int
      /\ qa * K + ra = a /\ ra \in 0 .. K - 1 /\ qb * K + rb = b /\ rb \in 0 .. K - 1
  BY ClockAssumption, Truncation DEF K
<1> HIDE DEF qa, ra, qb, rb
<1>2. ASSUME qa >= qb + 1 PROVE FALSE
  <2>1. qa * K >= (qb + 1) * K
    BY <1>1, <1>2
  <2>2. (qb + 1) * K = qb * K + K
    BY <1>1
  <2> QED
    BY <1>1, <2>1, <2>2
<1>3. qa <= qb
  BY <1>1, <1>2
<1> QED
  BY <1>3 DEF qa, qb

-----------------------------------------------------------------------------
(***************************************************************************)
(* The point in time that AlmostThere compares the finish line with.       *)
(***************************************************************************)
Ahead == TimeAdd(Now, [sec  |-> Flushing.sec * margin_laps,
                       nsec |-> Flushing.nsec * margin_laps])

LEMMA FlushingValue == Flushing = [sec |-> 0, nsec |-> flush_interval]
<1>1. K \in Nat /\ flush_interval \in 1 .. K - 1
  BY ClockAssumption, TimingAssumption DEF K
<1> DEFINE q == Quotient(flush_interval)
           r == Remainder(flush_interval)
<1>2. q \in Nat /\ r \in 0 .. K - 1 /\ q * K + r = flush_interval
  BY <1>1, Truncation
<1> HIDE DEF q, r
<1>3. q >= 1 => q * K >= K
  BY <1>1, <1>2
<1>4. q = 0 /\ r = flush_interval
  BY <1>1, <1>2, <1>3
<1> QED
  BY <1>4 DEF Flushing, NanosToTimeSpec, q, r

LEMMA AheadValue ==
  ASSUME clock \in Nat
  PROVE  /\ Ahead \in Timespec
         /\ Nanos(Ahead) = clock + margin_laps * flush_interval
         /\ Ahead.nsec \in 0 .. kNanosPerSecond
         /\ Ahead.sec >= Quotient(clock)
<1> DEFINE f == margin_laps * flush_interval
           t == [sec |-> 0, nsec |-> f]
           n == Remainder(clock) + f
<1>1. /\ K \in Nat /\ flush_interval \in Nat /\ margin_laps \in Nat
      /\ f \in Int /\ f < K /\ f >= 0
  <2>1. flush_interval * margin_laps = f /\ f \in Nat
    BY TimingAssumption, ClockAssumption
  <2> QED
    BY <2>1, TimingAssumption, ClockAssumption DEF K
<1>2. Ahead = TimeAdd(Now, t)
  <2>1. Flushing.sec * margin_laps = 0 /\ Flushing.nsec * margin_laps = f
    BY <1>1, FlushingValue
  <2> QED
    BY <2>1 DEF Ahead
<1> HIDE DEF f
<1>3. Now \in Timespec /\ Nanos(Now) = clock
  BY FromNanos DEF Now
<1>4. t \in Timespec /\ Nanos(t) = f
  BY <1>1, ClockAssumption DEF Timespec, Nanos
<1>5. Ahead \in Timespec /\ Nanos(Ahead) = clock + f
  BY <1>2, <1>3, <1>4, SumIsExact
<1>6. /\ Now.sec = Quotient(clock) /\ Now.nsec = Remainder(clock)
      /\ Quotient(clock) \in Int /\ Remainder(clock) \in 0 .. K - 1
  BY Truncation DEF Now, NanosToTimeSpec
<1>7. n \in Nat
  BY <1>1, <1>6
<1>8. Quotient(n) >= 0 /\ Quotient(n) \in Int /\ Remainder(n) \in 0 .. K - 1
  BY <1>7, Truncation
<1>9. Ahead = IF n > K THEN [sec |-> Quotient(clock) + Quotient(n), nsec |-> Remainder(n)]
                       ELSE [sec |-> Quotient(clock), nsec |-> n]
  <2>1. Now.sec + t.sec = Quotient(clock) /\ Now.nsec + t.nsec = n
    BY <1>1, <1>6
  <2> QED
    BY <1>2, <2>1 DEF TimeAdd, K
<1>10. Ahead.nsec \in 0 .. K /\ Ahead.sec >= Quotient(clock)
  <2>1. CASE n > K
    BY <1>1, <1>6, <1>8, <1>9, <2>1
  <2>2. CASE ~ (n > K)
    BY <1>1, <1>6, <1>7, <1>9, <2>2
  <2> QED
    BY <2>1, <2>2
<1> QED
  BY <1>5, <1>10 DEF K, f

-----------------------------------------------------------------------------
(***************************************************************************)
(* The inductive invariant.                                                *)
(***************************************************************************)
ValuesInv ==
  /\ clock \in Nat /\ start \in Nat /\ start <= clock
  /\ duration \in Int /\ period \in Nat
  /\ finish \in Timespec
  /\ wake \in Int /\ left \in Nat /\ slack \in 0 .. MaxLate
  /\ cpc \in Sampling \cup {"start", "drain", "returned", "failed"}

\* The finish line is duration after the start, and has negative nanoseconds only
\* before the start, where no lap begins.
FinishInv ==
  /\ cpc = "start" => start = clock /\ slack = 0
  /\ cpc \in Sampling \cup {"drain", "returned"} =>
       /\ Nanos(finish) = start + duration
       /\ finish.nsec >= 0 \/ finish.sec <= Quotient(start)

\* The time a lap may still take ends before the finish line.
LapInv ==
  /\ cpc = "nap" => wake + slack <= Nanos(finish) /\ clock + slack <= Nanos(finish)
  /\ cpc = "napped" => clock + left + slack <= Nanos(finish)
  /\ cpc = "flush" => clock + slack <= Nanos(finish)

TimingInv == ValuesInv /\ FinishInv /\ LapInv /\ WholeDuration

LEMMA InitTiming == Init => TimingInv
<1> SUFFICES ASSUME Init PROVE TimingInv
  OBVIOUS
<1>1. finish \in Timespec
  BY FromNanos DEF Init
<1> QED
  BY <1>1, TimingAssumption
     DEF Init, TimingInv, ValuesInv, FinishInv, LapInv, WholeDuration, Sampling

(***************************************************************************)
(* A lap begins with the whole margin before the finish line.              *)
(***************************************************************************)
LEMMA LapHasMargin ==
  ASSUME TimingInv, cpc = "loop", ~ AlmostThere
  PROVE  clock + MaxLate + flush_interval <= Nanos(finish)
<1>1. /\ clock \in Nat /\ start \in Nat /\ start <= clock /\ finish \in Timespec
      /\ finish.nsec >= 0 \/ finish.sec <= Quotient(start)
  BY DEF TimingInv, ValuesInv, FinishInv, Sampling
<1>2. ~ TimeLessThan(finish, Ahead)
  BY DEF AlmostThere, Ahead
<1>3. /\ Ahead \in Timespec /\ Nanos(Ahead) = clock + margin_laps * flush_interval
      /\ Ahead.nsec \in 0 .. kNanosPerSecond /\ Ahead.sec >= Quotient(clock)
  BY <1>1, AheadValue
<1>4. CASE finish.nsec >= 0
  <2>1. Nanos(Ahead) <= Nanos(finish)
    BY <1>1, <1>2, <1>3, <1>4, NotLess, ClockAssumption
  <2>2. Nanos(finish) \in Int
    BY <1>1, ClockAssumption DEF Nanos, Timespec
  <2>3. /\ margin_laps * flush_interval \in Int /\ MaxLate \in Int /\ flush_interval \in Int
        /\ MaxLate + flush_interval <= margin_laps * flush_interval
    BY TimingAssumption, ClockAssumption
  <2> QED
    BY <1>1, <1>3, <2>1, <2>2, <2>3
<1>5. CASE finish.nsec < 0
  <2>1. Quotient(start) <= Quotient(clock) /\ Quotient(start) \in Int /\ Quotient(clock) \in Int
    BY <1>1, SecondsGrow, Truncation
  <2>2. /\ finish.sec \in Int /\ finish.nsec \in Int /\ Ahead.sec \in Int /\ Ahead.nsec \in Int
        /\ Ahead.nsec >= 0 /\ finish.sec <= Quotient(start)
    BY <1>1, <1>3, <1>5, ClockAssumption DEF Timespec
  <2>3. finish.sec <= Ahead.sec /\ finish.nsec < Ahead.nsec
    BY <1>3, <1>5, <2>1, <2>2
  <2> QED
    BY <1>2, <2>2, <2>3 DEF TimeLessThan
<1>6. finish.nsec \in Int
  BY <1>1 DEF Timespec
<1> QED
  BY <1>4, <1>5, <1>6

(***************************************************************************)
(* Collect computes its finish line.                                       *)
(***************************************************************************)
LEMMA FinishLine ==
  ASSUME clock \in Nat, duration \in Int, NEW f, f = TimeAdd(Now, NanosToTimeSpec(duration))
  PROVE  /\ f \in Timespec /\ Nanos(f) = clock + duration
         /\ f.nsec >= 0 \/ f.sec <= Quotient(clock)
<1> DEFINE t == NanosToTimeSpec(duration)
<1>1. /\ Now \in Timespec /\ Nanos(Now) = clock /\ t \in Timespec /\ Nanos(t) = duration
  BY FromNanos DEF Now
<1>2. f \in Timespec /\ Nanos(f) = clock + duration
  BY <1>1, SumIsExact
<1>3. /\ Now.sec = Quotient(clock) /\ Now.nsec = Remainder(clock)
      /\ Quotient(clock) \in Int /\ Remainder(clock) \in 0 .. K - 1
  BY Truncation DEF Now, NanosToTimeSpec
<1>4. K \in Nat /\ K > 1
  BY ClockAssumption DEF K
<1>5. f.nsec >= 0 \/ f.sec <= Quotient(clock)
  <2>1. CASE Now.nsec + t.nsec > K
    <3> DEFINE n == Now.nsec + t.nsec
    <3>1. f.nsec = Remainder(n)
      BY <2>1 DEF TimeAdd, K
    <3>2. n \in Int /\ n >= 0
      BY <1>1, <1>3, <1>4, <2>1 DEF Timespec
    <3>3. Remainder(n) >= 0
      BY <1>4, <3>2, Truncation
    <3> QED
      BY <3>1, <3>3
  <2>2. CASE ~ (Now.nsec + t.nsec > K)
    <3>1. f.sec = Now.sec + t.sec /\ f.nsec = Now.nsec + t.nsec
      BY <2>2 DEF TimeAdd, K
    <3>2. CASE duration >= 0
      <4>1. t.nsec >= 0 /\ t.nsec \in Int
        BY <1>4, <3>2, Truncation DEF NanosToTimeSpec
      <4> QED
        BY <1>3, <1>4, <3>1, <4>1
    <3>3. CASE duration < 0
      <4>1. t.sec <= 0 /\ t.sec \in Int
        BY <3>3, NegativeSeconds DEF NanosToTimeSpec
      <4> QED
        BY <1>3, <3>1, <4>1
    <3> QED
      BY <3>2, <3>3
  <2> QED
    BY <2>1, <2>2
<1> QED
  BY <1>2, <1>5

(***************************************************************************)
(* A step of the profiling thread, the clock or a signal.                  *)
(***************************************************************************)
LEMMA StartTiming == TimingInv /\ Start => TimingInv'
<1> SUFFICES ASSUME TimingInv, Start PROVE TimingInv'
  OBVIOUS
<1>1. /\ clock \in Nat /\ duration \in Int /\ start = clock /\ finish \in Timespec
      /\ MaxLate \in Nat
  BY TimingAssumption DEF Start, TimingInv, ValuesInv, FinishInv
<1>2. \/ cpc' = "loop" /\ finish' = TimeAdd(Now, NanosToTimeSpec(duration))
      \/ cpc' = "failed" /\ finish' = finish
  BY DEF Start
<1>3. UNCHANGED <<clock, start, duration, period, wake, left>> /\ slack' = MaxLate
  BY DEF Start, inputVars
<1>4. CASE cpc' = "loop" /\ finish' = TimeAdd(Now, NanosToTimeSpec(duration))
  <2>1. /\ finish' \in Timespec /\ Nanos(finish') = clock + duration
        /\ finish'.nsec >= 0 \/ finish'.sec <= Quotient(clock)
    BY <1>1, <1>4, FinishLine
  <2>2. Nanos(finish)' = Nanos(finish')
    BY DEF Nanos
  <2> QED
    BY <1>1, <1>3, <1>4, <2>1, <2>2
       DEF TimingInv, ValuesInv, FinishInv, LapInv, WholeDuration, Sampling
<1>5. CASE cpc' = "failed" /\ finish' = finish
  BY <1>1, <1>3, <1>5 DEF TimingInv, ValuesInv, FinishInv, LapInv, WholeDuration, Sampling
<1> QED
  BY <1>2, <1>4, <1>5

LEMMA CollectTimingStep == TimingInv /\ (CollectStep \/ InterruptNap) /\ ~ Start => TimingInv'
<1> SUFFICES ASSUME TimingInv, CollectStep \/ InterruptNap, ~ Start PROVE TimingInv'
  OBVIOUS
<1> USE DEF TimingInv, ValuesInv, FinishInv, LapInv, WholeDuration, Sampling, inputVars, lapVars
<1>1. /\ MaxLate \in Nat /\ flush_interval \in Nat
      /\ Nanos(finish) \in Int
  BY TimingAssumption, ClockAssumption DEF Nanos, Timespec
<1>2. UNCHANGED <<clock, start, duration, period, finish>> /\ Nanos(finish)' = Nanos(finish)
  BY DEF CollectStep, Start, Lap, NapAgain, NapOver, Flush, LeaveLoop, Stop, LastFlush,
         InterruptNap, Nanos
<1>3. CASE Lap
  <2>1. clock + MaxLate + flush_interval <= Nanos(finish)
    BY <1>3, LapHasMargin DEF Lap, GoTo
  <2> QED
    BY <1>1, <1>2, <1>3, <2>1 DEF Lap, GoTo
<1>4. CASE NapAgain
  BY <1>1, <1>2, <1>4 DEF NapAgain, GoTo
<1>5. CASE NapOver
  BY <1>1, <1>2, <1>5 DEF NapOver, GoTo
<1>6. CASE Flush
  BY <1>1, <1>2, <1>6 DEF Flush, GoTo
<1>7. CASE LeaveLoop
  BY <1>1, <1>2, <1>7 DEF LeaveLoop, GoTo
<1>8. CASE Stop
  BY <1>1, <1>2, <1>8 DEF Stop, GoTo
<1>9. CASE LastFlush
  <2>1. Nanos(TimeAdd(finish, Flushing)) = Nanos(finish) + flush_interval
    <3>1. Flushing \in Timespec /\ Nanos(Flushing) = flush_interval
      BY <1>1, FromNanos DEF Flushing
    <3> QED
      BY <3>1, SumIsExact
  <2>2. clock >= Nanos(finish) + flush_interval
    BY <1>9, <2>1 DEF LastFlush
  <2> QED
    BY <1>1, <1>2, <1>9, <2>2 DEF LastFlush, GoTo
<1>10. CASE InterruptNap
  BY <1>1, <1>2, <1>10 DEF InterruptNap, Napping
<1> QED
  BY <1>3, <1>4, <1>5, <1>6, <1>7, <1>8, <1>9, <1>10 DEF CollectStep

LEMMA TimeTiming == TimingInv /\ Time => TimingInv'
<1> SUFFICES ASSUME TimingInv, Time PROVE TimingInv'
  OBVIOUS
<1> USE DEF TimingInv, ValuesInv, FinishInv, LapInv, WholeDuration, Sampling, inputVars
<1>1. /\ MaxLate \in Nat /\ flush_interval \in Nat /\ Nanos(finish) \in Int
  BY TimingAssumption, ClockAssumption DEF Nanos, Timespec
<1>2. /\ clock' = clock + 1 /\ UNCHANGED <<start, duration, period, finish, cpc, wake, left>>
      /\ Nanos(finish)' = Nanos(finish)
  BY DEF Time, Nanos
<1>3. CASE Asleep
  <2>1. cpc \in {"nap", "until", "drain"} /\ (cpc = "nap" => clock < wake)
    BY <1>3 DEF Asleep, Napping
  <2>2. slack' = slack
    BY <1>3 DEF Time
  <2> QED
    BY <1>1, <1>2, <2>1, <2>2
<1>4. CASE ~ Asleep
  <2>1. slack > 0 /\ slack' = slack - 1
    BY <1>4 DEF Time
  <2> QED
    BY <1>1, <1>2, <2>1
<1> QED
  BY <1>3, <1>4

LEMMA NextTiming == TimingInv /\ [Next]_timingVars => TimingInv'
<1> SUFFICES ASSUME TimingInv, [Next]_timingVars PROVE TimingInv'
  OBVIOUS
<1>1. CASE Time
  BY <1>1, TimeTiming
<1>2. CASE CollectStep \/ InterruptNap
  BY <1>2, StartTiming, CollectTimingStep
<1>3. CASE Tick \/ InterruptFork \/ InterruptOther \/ ForkStep \/ UNCHANGED timingVars
  <2>1. UNCHANGED <<clock, start, duration, period, cpc, finish, wake, left, slack>>
    BY <1>3 DEF Tick, InterruptFork, InterruptOther, ForkStep, timingVars, inputVars, lapVars
  <2>2. Nanos(finish)' = Nanos(finish)
    BY <2>1 DEF Nanos
  <2> QED
    BY <2>1, <2>2 DEF TimingInv, ValuesInv, FinishInv, LapInv, WholeDuration, Sampling
<1> QED
  BY <1>1, <1>2, <1>3 DEF Next

LEMMA TimingAlways == Spec => []TimingInv
BY InitTiming, NextTiming, PTL DEF Spec

(***************************************************************************)
(* No lap of Collect overruns the finish line, whatever the duration, the  *)
(* phase of the clock when it begins and the signals that interrupt its    *)
(* sleeps, as long as a lap loses less than the margin outside of its      *)
(* sleep (profiler.cc:280-290).                                            *)
(***************************************************************************)
THEOREM LapsEndInTime == Spec => []NoOverrun
<1>1. TimingInv => NoOverrun
  <2> SUFFICES ASSUME TimingInv PROVE NoOverrun
    OBVIOUS
  <2>1. /\ clock \in Nat /\ slack \in Nat /\ left \in Nat /\ Nanos(finish) \in Int
    BY TimingAssumption, ClockAssumption DEF TimingInv, ValuesInv, Nanos, Timespec
  <2> QED
    BY <2>1 DEF TimingInv, LapInv, NoOverrun
<1> QED
  BY <1>1, TimingAlways, PTL

(***************************************************************************)
(* The program is sampled for the whole duration, and the last signals     *)
(* have the whole delay, although signals interrupt the sleeps             *)
(* (profiler.cc:317-322, clock.h:38-48).                                   *)
(***************************************************************************)
THEOREM SignalsDoNotShorten == Spec => []WholeDuration
BY TimingAlways, PTL DEF TimingInv

-----------------------------------------------------------------------------
(***************************************************************************)
(* A period that fits an int is not changed by the conversion.             *)
(***************************************************************************)
LEMMA IntFits ==
  ASSUME NEW n \in 1 .. IntMax
  PROVE  ToInt(n) = n
<1> DEFINE m == n + IntMax + 1
           k == 2 * (IntMax + 1)
           q == m \div k
           r == m % k
<1>1. IntMax \in Nat /\ n \in Nat /\ n <= IntMax
  BY TimingAssumption
<1>2. m \in Nat /\ k \in Nat \ {0} /\ m < k
  BY <1>1
<1>3. q \in Nat /\ r \in 0 .. k - 1 /\ m = k * q + r
  BY <1>2, Division
<1>4. ToInt(n) = r - (IntMax + 1)
  BY DEF ToInt
<1>5. m = n + IntMax + 1
  OBVIOUS
<1> HIDE DEF m, k, q, r
<1>6. q >= 1 => k * q >= k
  BY <1>2, <1>3
<1>7. r = m
  <2>1. q = 0
    BY <1>2, <1>3, <1>6
  <2>2. k * q = 0
    BY <1>2, <2>1
  <2> QED
    BY <1>2, <1>3, <2>2
<1> QED
  BY <1>1, <1>4, <1>5, <1>7

(***************************************************************************)
(* The microseconds of a period, whole seconds carried, are the period,    *)
(* and setitimer accepts them.                                             *)
(***************************************************************************)
LEMMA IntervalOf ==
  ASSUME NEW n \in Nat
  PROVE  /\ Settable(Interval(n))
         /\ Interval(n).sec * kMicrosPerSecond + Interval(n).usec = n
<1> DEFINE k == kMicrosPerSecond
           q == n \div k
           r == n % k
<1>1. k \in Nat \ {0}
  BY TimingAssumption
<1>2. q \in Nat /\ r \in 0 .. k - 1 /\ n = k * q + r
  BY <1>1, Division
<1>3. Interval(n) = [sec |-> q, usec |-> r]
  BY DEF Interval
<1>4. q * k + r = n
  <2> HIDE DEF k, q, r
  <2>1. q * k = k * q
    BY <1>1, <1>2
  <2> QED
    BY <1>1, <1>2, <2>1
<1> QED
  BY <1>1, <1>2, <1>3, <1>4 DEF Settable

(***************************************************************************)
(* The timer is set, to the period that was asked for, also when this is   *)
(* a second or more, unless its microseconds overflow an int               *)
(* (profiler.cc:95-104, 330).                                              *)
(***************************************************************************)
THEOREM PeriodIsHonoured == Spec => []PeriodHonoured
<1>1. Init => PeriodHonoured
  BY DEF Init, PeriodHonoured, Sampling
<1>2. PeriodHonoured /\ [Next]_timingVars => PeriodHonoured'
  <2> SUFFICES ASSUME PeriodHonoured, [Next]_timingVars PROVE PeriodHonoured'
    OBVIOUS
  <2>1. CASE Start
    <3>1. period' = period
      BY <2>1 DEF Start, inputVars
    <3> SUFFICES ASSUME period \in 1 .. IntMax
                 PROVE  cpc' = "loop" /\ timer' = Interval(period)
      <4>1. period \in 1 .. IntMax => period \in Nat
        BY TimingAssumption
      <4> QED
        BY <3>1, <4>1, IntervalOf DEF PeriodHonoured
    <3>2. ToInt(period) = period /\ Settable(Interval(period))
      <4>1. period \in Nat
        BY TimingAssumption
      <4> QED
        BY <4>1, IntFits, IntervalOf
    <3> QED
      BY <2>1, <3>2 DEF Start
  <2>2. CASE CollectStep /\ ~ Start
    BY <2>2 DEF CollectStep, Lap, NapAgain, NapOver, Flush, LeaveLoop, Stop, LastFlush, GoTo,
                inputVars, kernelVars, PeriodHonoured, Sampling
  <2>3. CASE Time \/ Tick \/ InterruptNap \/ InterruptFork \/ InterruptOther \/ ForkStep
    BY <2>3 DEF Time, Tick, InterruptNap, InterruptFork, InterruptOther, ForkStep, Napping,
                inputVars, kernelVars, PeriodHonoured, Sampling
  <2>4. CASE UNCHANGED timingVars
    BY <2>4 DEF timingVars, inputVars, kernelVars, PeriodHonoured, Sampling
  <2> QED
    BY <2>1, <2>2, <2>3, <2>4 DEF Next
<1> QED
  BY <1>1, <1>2, PTL DEF Spec
-----------------------------------------------------------------------------
(***************************************************************************)
(* The timer only holds intervals that setitimer accepts, whatever the     *)
(* narrowing to int made of the period.                                    *)
(***************************************************************************)
LEMMA IntervalType ==
  ASSUME NEW n \in Nat, Settable(Interval(ToInt(n)))
  PROVE  Interval(ToInt(n)) \in [sec : Nat, usec : 0 .. kMicrosPerSecond - 1]
<1> DEFINE m == n + IntMax + 1
           w == 2 * (IntMax + 1)
           k == kMicrosPerSecond
           i == ToInt(n)
<1>1. m \in Nat /\ w \in Nat \ {0} /\ k \in Nat \ {0}
  BY TimingAssumption
<1>2. i \in Int
  <2>1. m % w \in 0 .. w - 1
    BY <1>1, Division
  <2>2. i = (m % w) - (IntMax + 1)
    BY DEF ToInt
  <2> HIDE DEF m, w, i
  <2> QED
    BY <1>1, <2>1, <2>2, TimingAssumption
<1> HIDE DEF m, w, i, k
<1>3. CASE i >= 0
  <2>1. i \div k \in Nat
    <3>1. i \in Nat
      BY <1>2, <1>3
    <3> QED
      BY <1>1, <3>1, Division
  <2>2. Interval(i) = [sec |-> i \div k, usec |-> i % k]
    BY <1>3 DEF Interval, k
  <2> QED
    BY <2>1, <2>2 DEF Settable, i
<1>4. CASE i < 0
  <2> DEFINE p == -i
  <2>1. p \div k \in Nat
    <3>1. p \in Nat
      BY <1>2, <1>4
    <3> HIDE DEF p
    <3> QED
      BY <1>1, <3>1, Division
  <2>2. Interval(i) = [sec |-> -(p \div k), usec |-> -(p % k)]
    BY <1>2, <1>4 DEF Interval, k
  <2>3. -(p \div k) \in Int
    BY <2>1
  <2> HIDE DEF p
  <2> QED
    BY <2>2, <2>3 DEF Settable, i
<1> QED
  BY <1>2, <1>3, <1>4

\* A sleep is never longer than the interval between flushes, interrupted or not.
NapInv == cpc = "nap" => wake <= clock + flush_interval

\* What belongs to the profiling thread and its inputs, and to the forking thread.
CollectTypes ==
  /\ clock \in Nat /\ start \in StartTimes /\ duration \in Durations /\ period \in Periods
  /\ timer \in [sec : Nat, usec : 0 .. kMicrosPerSecond - 1]
  /\ cpc \in Sampling \cup {"start", "drain", "returned", "failed"}
  /\ finish \in Timespec
  /\ wake \in Nat /\ left \in 0 .. flush_interval /\ slack \in 0 .. MaxLate

ForkTypes ==
  /\ pending \in BOOLEAN
  /\ fpc \in {"prepare", "fork", "parent", "forked"} /\ blocked \in BOOLEAN

LEMMA CollectTypesStep ==
  TimingInv /\ CollectTypes /\ NapInv /\ [Next]_timingVars => CollectTypes' /\ NapInv'
<1> SUFFICES ASSUME TimingInv, CollectTypes, NapInv, [Next]_timingVars
             PROVE  CollectTypes' /\ NapInv'
  OBVIOUS
<1> USE DEF CollectTypes, NapInv, Sampling, inputVars, kernelVars, lapVars, forkVars
<1>1. /\ MaxLate \in Nat /\ flush_interval \in Nat /\ kMicrosPerSecond \in Nat \ {0}
      /\ clock \in Nat
  BY TimingAssumption, ClockAssumption
<1>2. finish' \in Timespec
  BY NextTiming DEF TimingInv, ValuesInv
<1>3. Off \in [sec : Nat, usec : 0 .. kMicrosPerSecond - 1]
  BY <1>1 DEF Off
<1>4. CASE Start
  <2>1. \/ timer' = timer
        \/ timer' = Interval(ToInt(period)) /\ Settable(Interval(ToInt(period)))
    BY <1>4 DEF Start
  <2>2. timer' \in [sec : Nat, usec : 0 .. kMicrosPerSecond - 1]
    BY <2>1, IntervalType, TimingAssumption
  <2> QED
    BY <1>1, <1>2, <1>4, <2>2 DEF Start
<1>5. CASE Lap
  BY <1>1, <1>2, <1>5 DEF Lap, GoTo
<1>6. CASE NapAgain
  BY <1>1, <1>2, <1>6 DEF NapAgain, GoTo
<1>7. CASE NapOver
  BY <1>1, <1>2, <1>7 DEF NapOver, GoTo
<1>8. CASE Flush \/ LeaveLoop \/ LastFlush
  BY <1>1, <1>2, <1>8 DEF Flush, LeaveLoop, LastFlush, GoTo
<1>9. CASE Stop
  BY <1>1, <1>2, <1>3, <1>9 DEF Stop, GoTo
<1>10. CASE Time
  BY <1>1, <1>2, <1>10 DEF Time
<1>11. CASE InterruptNap
  BY <1>1, <1>2, <1>11 DEF InterruptNap, Napping
<1>12. CASE Tick \/ InterruptFork \/ InterruptOther \/ ForkStep \/ UNCHANGED timingVars
  BY <1>1, <1>2, <1>12 DEF Tick, InterruptFork, InterruptOther, ForkStep, timingVars
<1> QED
  BY <1>4, <1>5, <1>6, <1>7, <1>8, <1>9, <1>10, <1>11, <1>12 DEF Next, CollectStep

LEMMA ForkTypesStep == ForkTypes /\ [Next]_timingVars => ForkTypes'
<1> SUFFICES ASSUME ForkTypes, [Next]_timingVars PROVE ForkTypes'
  OBVIOUS
<1> USE DEF ForkTypes, inputVars, kernelVars, lapVars, forkVars
<1>1. CASE CollectStep
  <2>1. CASE Start
    BY <2>1 DEF Start
  <2>2. CASE Stop
    BY Zenon, <2>2 DEF Stop
  <2>3. CASE Lap \/ NapAgain \/ NapOver \/ Flush \/ LeaveLoop \/ LastFlush
    BY Zenon, <2>3 DEF Lap, NapAgain, NapOver, Flush, LeaveLoop, LastFlush
  <2> QED
    BY <1>1, <2>1, <2>2, <2>3 DEF CollectStep
<1>2. CASE Time \/ Tick
  BY Zenon, <1>2 DEF Time, Tick
<1>3. CASE InterruptNap \/ InterruptFork \/ InterruptOther
  BY Zenon, <1>3 DEF InterruptNap, InterruptFork, InterruptOther
<1>4. CASE ForkStep
  <2>1. CASE Prepare
    BY Zenon, <1>4, <2>1 DEF ForkStep, Prepare
  <2>2. CASE Fork
    BY Zenon, <1>4, <2>2 DEF ForkStep, Fork
  <2>3. CASE Parent
    BY Zenon, <1>4, <2>3 DEF ForkStep, Parent
  <2> QED
    BY <1>4, <2>1, <2>2, <2>3 DEF ForkStep
<1>5. CASE UNCHANGED timingVars
  BY Zenon, <1>5 DEF timingVars
<1> QED
  BY <1>1, <1>2, <1>3, <1>4, <1>5 DEF Next

LEMMA ForkWorkStep ==
  work \in 0 .. ForkWork /\ [Next]_timingVars => work' \in 0 .. ForkWork
<1> SUFFICES ASSUME work \in 0 .. ForkWork, [Next]_timingVars PROVE work' \in 0 .. ForkWork
  OBVIOUS
<1>1. ForkWork \in Nat
  BY TimingAssumption
<1>2. \/ work' = work \/ work' = ForkWork \/ (work > 0 /\ work' = work - 1)
  BY DEF Next, CollectStep, Start, Lap, NapAgain, NapOver, Flush, LeaveLoop, Stop, LastFlush,
         Time, Tick, InterruptNap, InterruptFork, InterruptOther, ForkStep, Prepare, Fork, Parent,
         inputVars, kernelVars, lapVars, forkVars, timingVars
<1> QED
  BY <1>1, <1>2

(***************************************************************************)
(* The state of Collect is well typed, for every start, duration and       *)
(* period: the timer never holds an interval that setitimer refuses, and   *)
(* no sleep, however often a signal interrupts it, is given more time than *)
(* the interval between flushes (clock.cc:43-55, profiler.cc:95-104).      *)
(***************************************************************************)
THEOREM TimingTypeCorrect == Spec => []TypeOK
<1> DEFINE Typed == CollectTypes /\ NapInv /\ ForkTypes /\ work \in 0 .. ForkWork
<1>1. Init => Typed
  <2> SUFFICES ASSUME Init PROVE Typed
    OBVIOUS
  <2>1. finish \in Timespec
    BY FromNanos DEF Init
  <2>2. CollectTypes /\ NapInv /\ work \in 0 .. ForkWork
    BY <2>1, TimingAssumption, ClockAssumption
       DEF Init, CollectTypes, NapInv, Sampling, Off
  <2>3. ForkTypes
    BY DEF Init, ForkTypes
  <2> QED
    BY <2>2, <2>3
<1>2. TimingInv /\ Typed /\ [Next]_timingVars => Typed'
  BY CollectTypesStep, ForkTypesStep, ForkWorkStep
<1>3. Typed => TypeOK
  BY DEF CollectTypes, ForkTypes, TypeOK
<1> QED
  BY <1>1, <1>2, <1>3, TimingAlways, PTL DEF Spec
=============================================================================
