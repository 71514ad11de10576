---------------------------- MODULE Resilience ----------------------------
(***************************************************************************)
(* The limits of src/src/service/resilience.rs: the bulkhead, whose count  *)
(* is a compare-and-swap loop, and the token bucket the API's rate         *)
(* limiter uses.  A token is TokenUnits units and a tick of the clock adds *)
(* RatePerTick of them, so that a refill may be a fraction of a token.     *)
(***************************************************************************)
EXTENDS Integers, Sequences, FiniteSets

CONSTANTS Callers,
          MaxConcurrent,        \* Bulkhead::new
          BucketCapacity,       \* TokenBucket::new, in tokens
          TokenUnits, RatePerTick,
          MaxBatch,             \* largest argument of try_consume_n
          MaxTicks, MaxGrants

ASSUME ResilienceAssumption ==
    /\ IsFiniteSet(Callers) /\ MaxConcurrent \in Nat
    /\ BucketCapacity \in Nat /\ TokenUnits \in Nat /\ RatePerTick \in Nat

VARIABLES active,               \* Bulkhead.active
          bulk,                 \* thread -> where it is, and the count it loaded
          tokens, last_refill, now,
          asking,               \* thread -> tokens its call still has to take
          grants                \* times at which tokens were taken

bulkVars == <<active, bulk>>
bucketVars == <<tokens, last_refill, now, asking, grants>>

BulkInit == active = 0 /\ bulk = [t \in Callers |-> [pc |-> "idle", current |-> 0]]

\* try_acquire: refused at the limit (the rejected counter is a metric).
AcquireLoad(t) ==
    /\ bulk[t].pc = "idle" /\ active < MaxConcurrent
    /\ bulk' = [bulk EXCEPT ![t] = [pc |-> "cas", current |-> active]]
    /\ UNCHANGED active

AcquireCas(t) ==
    /\ bulk[t].pc = "cas"
    /\ IF active = bulk[t].current
       THEN active' = active + 1 /\ bulk' = [bulk EXCEPT ![t].pc = "guard"]
       ELSE UNCHANGED active /\ bulk' = [bulk EXCEPT ![t].pc = "idle"]

\* Dropping the guard.
Release(t) ==
    /\ bulk[t].pc = "guard"
    /\ active' = active - 1
    /\ bulk' = [bulk EXCEPT ![t].pc = "idle"]

BulkNext == \E t \in Callers : AcquireLoad(t) \/ AcquireCas(t) \/ Release(t)

---------------------------------------------------------------------------
Capacity == BucketCapacity * TokenUnits

BucketInit ==
    /\ tokens = Capacity /\ last_refill = 0 /\ now = 0
    /\ asking = [t \in Callers |-> 0] /\ grants = <<>>

Tick ==
    /\ now < MaxTicks
    /\ now' = now + 1
    /\ UNCHANGED <<tokens, last_refill, asking, grants>>

\* try_consume_n(n) calls try_consume n times; rate_limit_middleware once.
TryConsumeN(t, n) ==
    /\ asking[t] = 0 /\ Len(grants) < MaxGrants
    /\ asking' = [asking EXCEPT ![t] = n]
    /\ UNCHANGED <<tokens, last_refill, now, grants>>

\* Mutant: the refill not capped by the capacity.
RefilledFreely == tokens + (now - last_refill) * RatePerTick

Refilled ==
    LET sum == tokens + (now - last_refill) * RatePerTick
    IN IF sum < Capacity THEN sum ELSE Capacity

\* try_consume, under both locks.  A refusal ends try_consume_n and gives back
\* nothing of what it has taken.
TryConsume(t) ==
    /\ asking[t] > 0
    /\ last_refill' = now
    /\ IF Refilled >= TokenUnits
       THEN /\ tokens' = Refilled - TokenUnits
            /\ grants' = Append(grants, now)
            /\ asking' = [asking EXCEPT ![t] = @ - 1]
       ELSE /\ tokens' = Refilled
            /\ asking' = [asking EXCEPT ![t] = 0]
            /\ UNCHANGED grants
    /\ UNCHANGED now

BucketNext ==
    \/ Tick
    \/ \E t \in Callers : TryConsume(t) \/ \E n \in 1 .. MaxBatch : TryConsumeN(t, n)

LimitsSpec ==
    /\ BulkInit /\ BucketInit
    /\ [][\/ BulkNext /\ UNCHANGED bucketVars
          \/ BucketNext /\ UNCHANGED bulkVars]_<<bulkVars, bucketVars>>

---------------------------------------------------------------------------
(***************************************************************************)
(* The limits hold however calls interleave: the bulkhead counts exactly   *)
(* the guards that are out, never more than max_concurrent; and in every   *)
(* window of time the bucket grants no more than a full bucket and what    *)
(* was refilled since the window opened.                                   *)
(***************************************************************************)
LimitsHold ==
    /\ active = Cardinality({t \in Callers : bulk[t].pc = "guard"})
    /\ active <= MaxConcurrent
    /\ \A i, j \in DOMAIN grants : i <= j =>
          (j - i + 1) * TokenUnits <= Capacity + (grants[j] - grants[i]) * RatePerTick
===========================================================================
