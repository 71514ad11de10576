----------------------------- MODULE Histogram -----------------------------
(***************************************************************************)
(* LatencyHistogram of src/src/log/ring_buffer.rs: independent atomics     *)
(* that concurrent record and reset calls write one after the other, and   *)
(* the percentile computed from them.  Latencies are in microseconds, the  *)
(* unit of the buckets.                                                    *)
(***************************************************************************)
EXTENDS Integers, FiniteSetsExt

CONSTANTS Recorders,    \* threads that record and reset
          Latencies,    \* latencies recorded
          NumBuckets,
          MaxRecords, MaxResets

VARIABLES buckets, total_count, total_ns, min_ns, max_ns,
          call,         \* thread -> what its call is about to do
          samples,      \* latency -> how often it was recorded since the last reset
          muddled,      \* a reset overlapped a record since the last clean reset
          records, resets

histVars == <<buckets, total_count, total_ns, min_ns, max_ns, call, samples, muddled, records, resets>>

Unset == 10000          \* usize::MAX, above every latency
BucketIds == 0 .. NumBuckets - 1
IdleCall == [pc |-> "idle", ns |-> 0, seen |-> 0]

HistInit ==
    /\ buckets = [b \in BucketIds |-> 0]
    /\ total_count = 0 /\ total_ns = 0 /\ min_ns = Unset /\ max_ns = 0
    /\ call = [t \in Recorders |-> IdleCall]
    /\ samples = [us \in Latencies |-> 0] /\ muddled = FALSE /\ records = 0 /\ resets = 0

\* Mutant: one bit fewer, so that a latency can exceed its bucket's bound.
BucketForLow(us) ==
    IF us = 0 THEN 0
    ELSE LET bits == CHOOSE k \in 1 .. 20 : 2^(k - 1) <= us /\ us < 2^k
         IN IF bits - 1 < NumBuckets - 1 THEN bits - 1 ELSE NumBuckets - 1

\* The number of bits of the latency, at most the last bucket.
BucketFor(us) ==
    IF us = 0 THEN 0
    ELSE LET bits == CHOOSE k \in 1 .. 20 : 2^(k - 1) <= us /\ us < 2^k
         IN IF bits < NumBuckets - 1 THEN bits ELSE NumBuckets - 1

UpperBound(b) == 2^b

\* The bound of the first bucket whose cumulative count reaches the target,
\* and of the last one when none does.
Percentile(pct) ==
    LET Reached(b) == 100 * SumFunctionOnSet(buckets, 0 .. b) >= pct * total_count
        hits == {b \in BucketIds : Reached(b)}
    IN UpperBound(IF hits = {} THEN NumBuckets - 1 ELSE Min(hits))

---------------------------------------------------------------------------
Goto(t, pc) == call' = [call EXCEPT ![t].pc = pc]
Resetting == {"reset_buckets", "reset_count", "reset_total", "reset_min", "reset_max"}
Busy(pcs) == \E t \in Recorders : call[t].pc \in pcs
Recording == {"bucket", "count", "total", "min", "min_cas", "max", "max_cas"}

\* record: the bucket, the count, the sum, then two compare-and-swap loops.
Record(t, us) ==
    /\ call[t].pc = "idle" /\ records < MaxRecords
    /\ records' = records + 1
    /\ call' = [call EXCEPT ![t] = [pc |-> "bucket", ns |-> us, seen |-> 0]]
    /\ samples' = [samples EXCEPT ![us] = @ + 1]
    /\ muddled' = (muddled \/ Busy(Resetting))
    /\ UNCHANGED <<buckets, total_count, total_ns, min_ns, max_ns, resets>>

AddBucket(t) ==
    /\ call[t].pc = "bucket"
    /\ buckets' = [buckets EXCEPT ![BucketFor(call[t].ns)] = @ + 1]
    /\ Goto(t, "count")
    /\ UNCHANGED <<total_count, total_ns, min_ns, max_ns, samples, muddled, records, resets>>

AddCount(t) ==
    /\ call[t].pc = "count"
    /\ total_count' = total_count + 1
    /\ Goto(t, "total")
    /\ UNCHANGED <<buckets, total_ns, min_ns, max_ns, samples, muddled, records, resets>>

AddTotal(t) ==
    /\ call[t].pc = "total"
    /\ total_ns' = total_ns + call[t].ns
    /\ Goto(t, "min")
    /\ UNCHANGED <<buckets, total_count, min_ns, max_ns, samples, muddled, records, resets>>

LoadMin(t) ==
    /\ call[t].pc = "min"
    /\ call' = [call EXCEPT ![t].pc = "min_cas", ![t].seen = min_ns]
    /\ UNCHANGED <<buckets, total_count, total_ns, min_ns, max_ns, samples, muddled, records, resets>>

\* compare_exchange_weak; a failure continues with the value found.
CasMin(t) ==
    /\ call[t].pc = "min_cas"
    /\ LET c == call[t] IN
       IF c.ns < c.seen /\ min_ns # c.seen
       THEN call' = [call EXCEPT ![t].seen = min_ns] /\ UNCHANGED min_ns
       ELSE /\ min_ns' = IF c.ns < c.seen THEN c.ns ELSE min_ns
            /\ Goto(t, "max")
    /\ UNCHANGED <<buckets, total_count, total_ns, max_ns, samples, muddled, records, resets>>

LoadMax(t) ==
    /\ call[t].pc = "max"
    /\ call' = [call EXCEPT ![t].pc = "max_cas", ![t].seen = max_ns]
    /\ UNCHANGED <<buckets, total_count, total_ns, min_ns, max_ns, samples, muddled, records, resets>>

CasMax(t) ==
    /\ call[t].pc = "max_cas"
    /\ LET c == call[t] IN
       IF c.ns > c.seen /\ max_ns # c.seen
       THEN call' = [call EXCEPT ![t].seen = max_ns] /\ UNCHANGED max_ns
       ELSE /\ max_ns' = IF c.ns > c.seen THEN c.ns ELSE max_ns
            /\ call' = [call EXCEPT ![t] = IdleCall]
    /\ UNCHANGED <<buckets, total_count, total_ns, min_ns, samples, muddled, records, resets>>

\* reset: one store after the other.  A reset that overlaps neither a record
\* nor another reset leaves an empty histogram.
Reset(t) ==
    /\ call[t].pc = "idle" /\ resets < MaxResets
    /\ resets' = resets + 1
    /\ Goto(t, "reset_buckets")
    /\ muddled' = Busy(Recording \cup Resetting)
    /\ samples' = [us \in Latencies |-> 0]
    /\ UNCHANGED <<buckets, total_count, total_ns, min_ns, max_ns, records>>

ResetStep(t) ==
    /\ \/ /\ call[t].pc = "reset_buckets"
          /\ buckets' = [b \in BucketIds |-> 0] /\ Goto(t, "reset_count")
          /\ UNCHANGED <<total_count, total_ns, min_ns, max_ns>>
       \/ /\ call[t].pc = "reset_count"
          /\ total_count' = 0 /\ Goto(t, "reset_total")
          /\ UNCHANGED <<buckets, total_ns, min_ns, max_ns>>
       \/ /\ call[t].pc = "reset_total"
          /\ total_ns' = 0 /\ Goto(t, "reset_min")
          /\ UNCHANGED <<buckets, total_count, min_ns, max_ns>>
       \/ /\ call[t].pc = "reset_min"
          /\ min_ns' = Unset /\ Goto(t, "reset_max")
          /\ UNCHANGED <<buckets, total_count, total_ns, max_ns>>
       \/ /\ call[t].pc = "reset_max"
          /\ max_ns' = 0 /\ Goto(t, "idle")
          /\ UNCHANGED <<buckets, total_count, total_ns, min_ns>>
    /\ UNCHANGED <<samples, muddled, records, resets>>

HistNext ==
    \E t \in Recorders :
        \/ \E us \in Latencies : Record(t, us)
        \/ AddBucket(t) \/ AddCount(t) \/ AddTotal(t)
        \/ LoadMin(t) \/ CasMin(t) \/ LoadMax(t) \/ CasMax(t)
        \/ Reset(t) \/ ResetStep(t)

---------------------------------------------------------------------------
\* The smallest sample that at least pct percent of the samples do not exceed.
TruePercentile(pct) ==
    LET AtMost(v) == SumFunctionOnSet(samples, {us \in Latencies : us <= v})
    IN Min({v \in Latencies : 100 * AtMost(v) >= pct * SumFunction(samples)})

(***************************************************************************)
(* Between calls, unless a reset overlapped a record, the histogram tells  *)
(* the truth about the samples since the last reset: minimum, maximum and  *)
(* sum are exact whatever the compare-and-swap loops met, and a percentile *)
(* is above the true one and at most twice as large, except in the last    *)
(* bucket, which has no upper end.                                         *)
(***************************************************************************)
HistogramTruthful ==
    (~Busy(Recording \cup Resetting) /\ ~muddled) =>
        LET seen == {us \in Latencies : samples[us] > 0}
        IN /\ total_count = SumFunction(samples)
           /\ total_ns = SumFunction([us \in Latencies |-> us * samples[us]])
           /\ min_ns = Min(seen \cup {Unset})
           /\ max_ns = Max(seen \cup {0})
           /\ seen # {} => \A pct \in {50, 99, 100} :
                 LET v == TruePercentile(pct)
                     p == Percentile(pct)
                 IN BucketFor(v) < NumBuckets - 1 => v < p /\ (p <= 2 * v \/ p = 1)
=============================================================================
