---------------------------- MODULE Coordination ----------------------------
(***************************************************************************)
(* The services that bring work of several steps to an end: the saga       *)
(* orchestrator, the choreographed transfer and the circuit breaker.  They *)
(* share no state; as in Standalone, a behaviour exercises the one that    *)
(* `focus` names.  The first and the last have to get somewhere, under the *)
(* fairness their callers give them.                                       *)
(***************************************************************************)
EXTENDS Saga, Choreography, CircuitBreaker

VARIABLE focus

vars == <<sagaVars, choreoVars, breakerVars, focus>>

InSaga(A) == focus = "saga" /\ A /\ UNCHANGED <<choreoVars, breakerVars, focus>>
InBreaker(A) == focus = "breaker" /\ A /\ UNCHANGED <<sagaVars, choreoVars, focus>>

Init ==
    /\ focus \in {"saga", "transfers", "breaker"}
    /\ SagaInit /\ ChoreoInit /\ BreakerInit

Next ==
    \/ InSaga(SagaNext)
    \/ focus = "transfers" /\ ChoreoNext /\ UNCHANGED <<sagaVars, breakerVars, focus>>
    \/ InBreaker(BreakerNext)

(* The driver and the publisher keep working and time passes. *)
SagaFairness ==
    /\ \A s \in Sagas : WF_vars(InSaga(Drive(s))) /\ WF_vars(InSaga(Expire(s)))
    /\ WF_vars(InSaga(Send))

(* Time passes, the server keeps running the handlers it has admitted, and *)
(* clients keep sending requests.                                          *)
BreakerFairness ==
    /\ WF_vars(InBreaker(CooldownPasses))
    /\ WF_vars(InBreaker(\E t \in Threads : AllowRequest(t)))
    /\ \A t \in Threads : WF_vars(InBreaker(Step(t)))

FairSpec == Init /\ [][Next]_vars /\ SagaFairness /\ BreakerFairness
=============================================================================
