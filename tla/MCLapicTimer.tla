----------------------------- MODULE MCLapicTimer -----------------------------
\* LapicTimer with a counter of 8 values and chunks of at most 3 ticks, as
\* the real 2^31 - 1 is below 2^32.  Three ticks are two nanoseconds, so the
\* durations are 0, 1, 4 and 10 ticks: none, one, two and four chunks.
EXTENDS LapicTimer
MCDurations == {0, 1, 3, 7}
MCVectors == 32..34
MCFixed == {32}
==============================================================================
