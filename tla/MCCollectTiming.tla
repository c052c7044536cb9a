--------------------------- MODULE MCCollectTiming ---------------------------
(* Small instances of the timing of Collect for TLC. *)
EXTENDS CollectTiming

\* With seconds of 20: two laps and more, less than a margin, nothing, less than
\* nothing; sums that carry, do not carry, and are a whole second.
SmallStarts    == {3, 13, 18}
SmallDurations == {-5, 0, 7, 13, 25}

\* Seconds of 5 and ints up to 7: below and at a second, the largest int, one that
\* becomes negative, one that becomes 0.
SmallPeriods == {0, 1, 5, 7, 8, 16}
=============================================================================
