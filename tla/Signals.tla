------------------------------ MODULE Signals ------------------------------
(***************************************************************************)
(* GoldenSignals and IncidentDetector of src/src/service/resilience.rs:    *)
(* counters that concurrent record_request, record_error and reset calls   *)
(* write one after the other, and the health check that reads them one     *)
(* after the other.  Durations are in milliseconds, rates in percent.      *)
(* consecutive_failures is only compared with 0 and the threshold and is   *)
(* kept up to it; the saturation gauge touches nothing else and is left    *)
(* out.                                                                    *)
(*                                                                         *)
(* History: recorded, the durations since the last reset in the order of   *)
(* the sample lock; erred, the errors since then; trouble, whether there   *)
(* ever was an error or a slow request; mixed, whether a reset overlapped  *)
(* a record since the last one that did not.                               *)
(***************************************************************************)
EXTENDS Integers, FiniteSets, SequencesExt

CONSTANTS Reporters,    \* threads that record, reset and check
          Durations, ErrorKinds,
          MaxSamples,
          RateMax, P99Max, IncidentThreshold,   \* the objective
          MaxSignals, MaxClears                 \* bounds on records and resets

VARIABLES request_count, error_count, error_categories, latency_buckets, latency_samples,
          failures,     \* consecutive_failures
          act,          \* thread -> its place in a call, and what the call is about
          signals, clears,
          recorded, erred, trouble, mixed

signalVars == <<request_count, error_count, error_categories, latency_buckets,
                latency_samples, failures, act, signals, clears, recorded, erred, trouble, mixed>>
counters == <<request_count, error_count, error_categories, latency_buckets, latency_samples>>
signalHistory == <<signals, clears, recorded, erred, trouble, mixed>>

LatencyBuckets == {"<10ms", "10-50ms", "50-100ms", ">100ms"}
NoAct == [pc |-> "idle", ms |-> 0, error |-> FALSE, kind |-> "none", total |-> 0, healthy |-> TRUE]

SignalsInit ==
    /\ request_count = 0 /\ error_count = 0 /\ latency_samples = <<>> /\ failures = 0
    /\ error_categories = [k \in ErrorKinds |-> 0]
    /\ latency_buckets = [b \in LatencyBuckets |-> 0]
    /\ act = [t \in Reporters |-> NoAct]
    /\ signals = 0 /\ clears = 0
    /\ recorded = <<>> /\ erred = 0 /\ trouble = FALSE /\ mixed = FALSE

Move(t, pc) == act' = [act EXCEPT ![t].pc = pc]
Writing == {"request", "error", "bucket", "sample", "raise", "category"}
Clearing == {"clear_requests", "clear_errors", "clear_samples", "clear_categories", "clear_buckets"}
Someone(pcs) == \E t \in Reporters : act[t].pc \in pcs

---------------------------------------------------------------------------
LatencyBucket(ms) ==
    CASE ms < 10  -> "<10ms"
      [] 10 <= ms /\ ms < 50  -> "10-50ms"
      [] 50 <= ms /\ ms < 100 -> "50-100ms"
      [] OTHER -> ">100ms"

Report(t, call, bad) ==
    /\ act[t].pc = "idle" /\ signals < MaxSignals
    /\ signals' = signals + 1
    /\ act' = [act EXCEPT ![t] = call]
    /\ trouble' = (trouble \/ bad)
    /\ mixed' = (mixed \/ Someone(Clearing))
    /\ UNCHANGED <<counters, failures, clears, recorded, erred>>

RecordRequest(t, ms, error) ==
    Report(t, [NoAct EXCEPT !.pc = "request", !.ms = ms, !.error = error], error \/ ms > P99Max)

CountRequest(t) ==
    /\ act[t].pc = "request"
    /\ request_count' = request_count + 1
    /\ Move(t, IF act[t].error THEN "error" ELSE "bucket")
    /\ UNCHANGED <<error_count, error_categories, latency_buckets, latency_samples,
                   failures, signalHistory>>

\* The error count: of a failed request, and of record_error.
CountError(t) ==
    /\ act[t].pc \in {"error", "raise"}
    /\ error_count' = error_count + 1
    /\ erred' = erred + 1
    /\ Move(t, IF act[t].pc = "error" THEN "bucket" ELSE "category")
    /\ UNCHANGED <<request_count, error_categories, latency_buckets, latency_samples,
                   failures, signals, clears, recorded, trouble, mixed>>

CountBucket(t) ==
    /\ act[t].pc = "bucket"
    /\ latency_buckets' = [latency_buckets EXCEPT ![LatencyBucket(act[t].ms)] = @ + 1]
    /\ Move(t, "sample")
    /\ UNCHANGED <<request_count, error_count, error_categories, latency_samples,
                   failures, signalHistory>>

PushSample(t) ==
    LET full == latency_samples # <<>> /\ Len(latency_samples) >= MaxSamples
        kept == IF full THEN Tail(latency_samples) ELSE latency_samples
    IN /\ act[t].pc = "sample"
       /\ latency_samples' = Append(kept, act[t].ms)
       /\ recorded' = Append(recorded, act[t].ms)
       /\ act' = [act EXCEPT ![t] = NoAct]
       /\ UNCHANGED <<request_count, error_count, error_categories, latency_buckets,
                      failures, signals, clears, erred, trouble, mixed>>

RecordError(t, kind) == Report(t, [NoAct EXCEPT !.pc = "raise", !.kind = kind], TRUE)

CountCategory(t) ==
    /\ act[t].pc = "category"
    /\ error_categories' = [error_categories EXCEPT ![act[t].kind] = @ + 1]
    /\ act' = [act EXCEPT ![t] = NoAct]
    /\ UNCHANGED <<request_count, error_count, latency_buckets, latency_samples,
                   failures, signalHistory>>

---------------------------------------------------------------------------
\* Mutant: the request count is not reset.
ResetKeepingRequests(t) ==
    /\ act[t].pc = "idle" /\ clears < MaxClears
    /\ clears' = clears + 1
    /\ Move(t, "clear_errors")
    /\ recorded' = <<>> /\ erred' = 0
    /\ mixed' = Someone(Writing \cup Clearing)
    /\ UNCHANGED <<counters, failures, signals, trouble>>

ResetSignals(t) ==
    /\ act[t].pc = "idle" /\ clears < MaxClears
    /\ clears' = clears + 1
    /\ Move(t, "clear_requests")
    /\ recorded' = <<>> /\ erred' = 0
    /\ mixed' = Someone(Writing \cup Clearing)
    /\ UNCHANGED <<counters, failures, signals, trouble>>

\* reset, one store after the other; those of one map are taken together.
ClearStep(t) ==
    /\ \/ /\ act[t].pc = "clear_requests"
          /\ request_count' = 0 /\ Move(t, "clear_errors")
          /\ UNCHANGED <<error_count, error_categories, latency_buckets, latency_samples>>
       \/ /\ act[t].pc = "clear_errors"
          /\ error_count' = 0 /\ Move(t, "clear_samples")
          /\ UNCHANGED <<request_count, error_categories, latency_buckets, latency_samples>>
       \/ /\ act[t].pc = "clear_samples"
          /\ latency_samples' = <<>> /\ Move(t, "clear_categories")
          /\ UNCHANGED <<request_count, error_count, error_categories, latency_buckets>>
       \/ /\ act[t].pc = "clear_categories"
          /\ error_categories' = [k \in ErrorKinds |-> 0] /\ Move(t, "clear_buckets")
          /\ UNCHANGED <<request_count, error_count, latency_buckets, latency_samples>>
       \/ /\ act[t].pc = "clear_buckets"
          /\ latency_buckets' = [b \in LatencyBuckets |-> 0] /\ Move(t, "idle")
          /\ UNCHANGED <<request_count, error_count, error_categories, latency_samples>>
    /\ UNCHANGED <<failures, signalHistory>>

---------------------------------------------------------------------------
\* latency_percentile of a sequence that is not empty.
LatencyPercentile(pct) ==
    SortSeq(latency_samples, <)[((Len(latency_samples) - 1) * pct) \div 100 + 1]

\* error_rate loads the requests, and the errors unless there were none.
Check(t) ==
    /\ act[t].pc = "idle"
    /\ act' = [act EXCEPT ![t].pc = IF request_count = 0 THEN "p99" ELSE "rate",
                          ![t].total = request_count]
    /\ UNCHANGED <<counters, failures, signalHistory>>

CheckRate(t) ==
    /\ act[t].pc = "rate"
    /\ act' = [act EXCEPT ![t].pc = "p99", ![t].total = 0,
                          ![t].healthy = error_count * 100 <= RateMax * act[t].total]
    /\ UNCHANGED <<counters, failures, signalHistory>>

CheckLatency(t) ==
    /\ act[t].pc = "p99"
    /\ act' = [act EXCEPT ![t].pc = "verdict",
                          ![t].healthy = @ /\ (latency_samples = <<>> \/ LatencyPercentile(99) <= P99Max)]
    /\ UNCHANGED <<counters, failures, signalHistory>>

Verdict(t) ==
    /\ act[t].pc = "verdict"
    /\ failures' = IF act[t].healthy THEN 0
                   ELSE IF failures < IncidentThreshold THEN failures + 1 ELSE failures
    /\ act' = [act EXCEPT ![t] = NoAct]
    /\ UNCHANGED <<counters, signalHistory>>

SignalsNext ==
    \E t \in Reporters :
        \/ \E ms \in Durations, error \in BOOLEAN : RecordRequest(t, ms, error)
        \/ CountRequest(t) \/ CountError(t) \/ CountBucket(t) \/ PushSample(t)
        \/ \E kind \in ErrorKinds : RecordError(t, kind)
        \/ CountCategory(t)
        \/ ResetSignals(t) \/ ClearStep(t)
        \/ Check(t) \/ CheckRate(t) \/ CheckLatency(t) \/ Verdict(t)

---------------------------------------------------------------------------
HowMany(test(_)) == Cardinality({i \in DOMAIN recorded : test(recorded[i])})

(***************************************************************************)
(* Between calls, unless a reset overlapped a record, the signals account  *)
(* for the same requests: the total, the buckets and the errors with and   *)
(* without category agree with what was recorded since the last reset, the *)
(* samples are its newest part (one at least, whatever max_samples is),    *)
(* and a percentile has its rank among them.  And at any time, overlaps or *)
(* not, the detector has raised no alarm if there never was an error or a  *)
(* slow request.                                                           *)
(***************************************************************************)
SignalsTruthful ==
    /\ failures > 0 => trouble
    /\ ~Someone(Writing \cup Clearing) /\ ~mixed =>
          /\ request_count = Len(recorded)
          /\ error_count = erred
          /\ \A b \in LatencyBuckets :
                latency_buckets[b] = HowMany(LAMBDA ms : LatencyBucket(ms) = b)
          /\ \A k \in ErrorKinds : error_categories[k] <= erred
          /\ LET most == IF MaxSamples = 0 THEN 1 ELSE MaxSamples
                 from == IF Len(recorded) > most THEN Len(recorded) - most + 1 ELSE 1
             IN latency_samples = SubSeq(recorded, from, Len(recorded))
          /\ latency_samples # <<>> => \A pct \in {0, 50, 99, 100} :
                LET v == LatencyPercentile(pct)
                    Among(test(_)) == Cardinality({i \in DOMAIN latency_samples : test(latency_samples[i])})
                    rank == (Len(latency_samples) - 1) * pct
                IN /\ 100 * Among(LAMBDA ms : ms < v) <= rank
                   /\ 100 * Among(LAMBDA ms : ms <= v) > rank
=============================================================================
