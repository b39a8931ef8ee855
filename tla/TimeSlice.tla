----------------------------- MODULE TimeSlice -----------------------------
\* The time slice of the preemptive scheduling classes.
EXTENDS Integers

CONSTANT MaxTimeSlice   \* rq->max_time_slice

ASSUME MaxTimeSliceAssumption == MaxTimeSlice \in Nat \ {0}

\* enqueue() fills a slice that is used up, or out of range.
FillSlice(s) == IF s = 0 \/ s > MaxTimeSlice THEN MaxTimeSlice ELSE s

\* proc_tick() takes a tick off it.
TickSlice(s) == IF s > 0 THEN s - 1 ELSE s
=============================================================================
