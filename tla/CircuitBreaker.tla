--------------------------- MODULE CircuitBreaker ---------------------------
(***************************************************************************)
(* The circuit breaker of src/src/service/resilience.rs as the handlers of *)
(* src/src/api/mod.rs use it: allow_request first, then record_success,    *)
(* record_failure or, on an early return, neither.  The state is behind a  *)
(* mutex that allow_request holds throughout; the two record functions     *)
(* touch the failure count and the time of the last failure before they    *)
(* take it.                                                                *)
(*                                                                         *)
(* failure_count is only compared with the threshold and reset, so it is   *)
(* kept up to the threshold.  Of the time since the last failure only      *)
(* whether the cooldown has passed matters.  The call totals are metrics   *)
(* and are left out.                                                       *)
(***************************************************************************)
EXTENDS Naturals

CONSTANTS
    Threads,            \* requests in progress at the same time
    Threshold           \* failure_threshold

ASSUME ThresholdAssumption == Threshold \in Nat \ {0}

VARIABLES
    state,              \* Mutex<CircuitState>
    failureCount,       \* AtomicU32, up to Threshold
    successCount,       \* AtomicU32
    lastFailure,        \* Mutex<Option<Instant>>: "none", "recent", "cooled"
    pc,                 \* the step each request takes next
    trip                \* the count record_failure got reached the threshold

breakerVars == <<state, failureCount, successCount, lastFailure, pc, trip>>
counts == <<failureCount, successCount>>

BreakerInit ==
    /\ state = "Closed"
    /\ failureCount = 0
    /\ successCount = 0
    /\ lastFailure = "none"
    /\ pc = [t \in Threads |-> "idle"]
    /\ trip = [t \in Threads |-> FALSE]

GoTo(t, label) == pc' = [pc EXCEPT ![t] = label]

Finish(t) ==
    /\ GoTo(t, "idle")
    /\ trip' = [trip EXCEPT ![t] = FALSE]

(* The cooldown passes after the last failure. *)
CooldownPasses ==
    /\ lastFailure = "recent"
    /\ lastFailure' = "cooled"
    /\ UNCHANGED <<state, counts, pc, trip>>

-----------------------------------------------------------------------------
(* allow_request; a refused request leaves no trace. *)
AllowClosed(t) ==
    /\ pc[t] = "idle"
    /\ state = "Closed"
    /\ GoTo(t, "admitted")
    /\ UNCHANGED <<state, counts, lastFailure, trip>>

AllowOpen(t) ==
    /\ pc[t] = "idle"
    /\ state = "Open"
    /\ lastFailure = "cooled"
    /\ state' = "HalfOpen"
    /\ successCount' = 0
    /\ GoTo(t, "admitted")
    /\ UNCHANGED <<failureCount, lastFailure, trip>>

AllowHalfOpen(t) ==
    /\ pc[t] = "idle"
    /\ state = "HalfOpen"
    /\ successCount < 3
    /\ GoTo(t, "admitted")
    /\ UNCHANGED <<state, counts, lastFailure, trip>>

AllowRequest(t) == AllowClosed(t) \/ AllowOpen(t) \/ AllowHalfOpen(t)

(* The handler returns early, between allow_request and either record. *)
ReturnEarly(t) ==
    /\ pc[t] = "admitted"
    /\ Finish(t)
    /\ UNCHANGED <<state, counts, lastFailure>>

-----------------------------------------------------------------------------
SuccessReset(t) ==
    /\ pc[t] = "admitted"
    /\ failureCount' = 0
    /\ GoTo(t, "success_state")
    /\ UNCHANGED <<state, successCount, lastFailure, trip>>

(* Two successes in HalfOpen close the circuit. *)
SuccessState(t) ==
    /\ pc[t] = "success_state"
    /\ \/ /\ state = "HalfOpen" /\ successCount + 1 >= 2
          /\ state' = "Closed"
          /\ successCount' = 0
       \/ /\ state = "HalfOpen" /\ successCount + 1 < 2
          /\ successCount' = successCount + 1
          /\ UNCHANGED state
       \/ /\ state # "HalfOpen"
          /\ UNCHANGED <<state, successCount>>
    /\ Finish(t)
    /\ UNCHANGED <<failureCount, lastFailure>>

-----------------------------------------------------------------------------
(* Mutants of FailureCount and FailureTime: the circuit is tripped before  *)
(* the time is taken, and the time is not taken at all.                    *)
FailureCountFirst(t) ==
    /\ pc[t] = "admitted"
    /\ LET count == failureCount + 1
       IN  /\ failureCount' = IF count < Threshold THEN count ELSE Threshold
           /\ trip' = [trip EXCEPT ![t] = count >= Threshold]
           /\ state' = IF count >= Threshold THEN "Open" ELSE state
    /\ GoTo(t, "failure_time")
    /\ UNCHANGED <<successCount, lastFailure>>

FailureCount(t) ==
    /\ pc[t] = "admitted"
    /\ LET count == failureCount + 1
       IN  /\ failureCount' = IF count < Threshold THEN count ELSE Threshold
           /\ trip' = [trip EXCEPT ![t] = count >= Threshold]
    /\ GoTo(t, "failure_time")
    /\ UNCHANGED <<state, successCount, lastFailure>>

FailureTimeOmitted(t) ==
    /\ pc[t] = "failure_time"
    /\ \/ trip[t] /\ GoTo(t, "failure_state") /\ UNCHANGED trip
       \/ ~ trip[t] /\ Finish(t)
    /\ UNCHANGED <<state, counts, lastFailure>>

(* Below the threshold this is the last thing record_failure does. *)
FailureTime(t) ==
    /\ pc[t] = "failure_time"
    /\ lastFailure' = "recent"
    /\ \/ trip[t] /\ GoTo(t, "failure_state") /\ UNCHANGED trip
       \/ ~ trip[t] /\ Finish(t)
    /\ UNCHANGED <<state, counts>>

(* The circuit opens, whatever has happened since the count was taken. *)
FailureState(t) ==
    /\ pc[t] = "failure_state"
    /\ state' = "Open"
    /\ Finish(t)
    /\ UNCHANGED <<counts, lastFailure>>

-----------------------------------------------------------------------------
(* What an admitted request does. *)
Step(t) ==
    \/ ReturnEarly(t)
    \/ SuccessReset(t) \/ SuccessState(t)
    \/ FailureCount(t) \/ FailureTime(t) \/ FailureState(t)

BreakerNext ==
    \/ CooldownPasses
    \/ \E t \in Threads : AllowRequest(t) \/ Step(t)

BreakerSpec == BreakerInit /\ [][BreakerNext]_breakerVars

-----------------------------------------------------------------------------
(* The type invariant; one success is all that HalfOpen ever remembers. *)
TypeOK ==
    /\ state \in {"Closed", "Open", "HalfOpen"}
    /\ failureCount \in 0 .. Threshold
    /\ successCount \in 0 .. 1
    /\ lastFailure \in {"none", "recent", "cooled"}
    /\ pc \in [Threads -> {"idle", "admitted", "success_state", "failure_time",
                           "failure_state"}]
    /\ trip \in [Threads -> BOOLEAN]

(* An open circuit knows when it last failed, however the three steps of   *)
(* record_failure interleave with other requests: without that time        *)
(* allow_request would refuse for ever.                                    *)
OpenHasCause == state = "Open" => lastFailure # "none"

(* An open circuit lets a probe through in the end: requests admitted      *)
(* before it opened can postpone the cooldown, but only so often, because  *)
(* an open circuit admits none.                                            *)
OpenRecovers == state = "Open" ~> state = "HalfOpen"
=============================================================================
