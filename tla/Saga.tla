--------------------------------- MODULE Saga ---------------------------------
(***************************************************************************)
(* src/src/service/saga.rs: the orchestrator, the outbox its commands go   *)
(* through and the timeouts.  The code that drives them is not in the      *)
(* repository: it asks next_action, enqueues the action with a timeout,    *)
(* tells the orchestrator how the step ended or that its time is over, and *)
(* enqueues the compensations it gets back.  The participants execute a    *)
(* message once, however often it is published, and answer each time.      *)
(* SagaActions, errors and times are left out; a step is its index.        *)
(*                                                                         *)
(* History: done and undone, what the participants executed; stray, the    *)
(* sagas that were told of something that was not their open step.         *)
(***************************************************************************)
EXTENDS Integers, Sequences, SequencesExt, FiniteSets

CONSTANTS
    Sagas,
    Steps,              \* number of steps of each saga's definition
    MaxRetries,         \* of an outbox message
    MaxCrashes          \* bound on publications that are not marked

ASSUME SagaAssumption ==
    Steps \in [Sagas -> Nat] /\ MaxRetries \in Nat /\ MaxCrashes \in Nat

VARIABLES
    active,             \* active_sagas
    completed,          \* completed_sagas
    outbox,
    timeouts,           \* sagas with a registered timeout, in order
    waiting,            \* sagas whose current step was enqueued
    sending,            \* the message being published, or 0
    replies,            \* answers on their way: <<saga, step, kind, ok>>
    executed,           \* messages the participants know, with their answer
    crashes,
    done, undone, stray

sagaVars == <<active, completed, outbox, timeouts, waiting, sending, replies, executed,
             crashes, done, undone, stray>>
history == <<done, undone, stray>>

SagaInit ==
    /\ active = <<>>
    /\ completed = <<>>
    /\ outbox = <<>>
    /\ timeouts = <<>>
    /\ waiting = {}
    /\ sending = 0
    /\ replies = {}
    /\ executed = {}
    /\ crashes = 0
    /\ done = {} /\ undone = {} /\ stray = {}

NewInstance == [status |-> "Pending", current |-> 0, steps |-> <<>>]

Insert(f, s, v) == [x \in DOMAIN f \cup {s} |-> IF x = s THEN v ELSE f[x]]
Without(f, s) == [x \in DOMAIN f \ {s} |-> f[x]]

(* Sagas that were started: their ids are not used again. *)
Known == DOMAIN active \cup {completed[i].id : i \in DOMAIN completed}

Start(s) ==
    /\ s \notin Known
    /\ Steps[s] > 0
    /\ active' = Insert(active, s, NewInstance)
    /\ UNCHANGED <<completed, outbox, timeouts, waiting, sending, replies, executed,
                   crashes, history>>

-----------------------------------------------------------------------------
(* Outbox and TimeoutHandler. *)
Message(s, step, kind) ==
    [saga |-> s, step |-> step, kind |-> kind, status |-> "Pending", retries |-> 0]

Register(ts, s) == Append(ts, s)
Clear(ts, s) == SelectSeq(ts, LAMBDA x : x # s)

(* The publisher takes pending_messages from the front. *)
Pending(k) ==
    /\ outbox[k].status = "Pending"
    /\ \A j \in 1 .. k - 1 : outbox[j].status # "Pending"

(* Mutant: one retry less. *)
RetryableLess(k) == outbox[k].status = "Failed" /\ outbox[k].retries + 1 < MaxRetries

Retryable(k) == outbox[k].status = "Failed" /\ outbox[k].retries < MaxRetries

(* The participant behind message k executes it, unless it has, and        *)
(* answers; a compensation succeeds.                                       *)
Publish(k) ==
    /\ sending = 0
    /\ Pending(k) \/ Retryable(k)
    /\ sending' = k
    /\ LET m == outbox[k]
           known == {e \in executed : e[1] = k}
       IN  \E ok \in {e[2] : e \in known} \cup (IF known # {} THEN {}
                                               ELSE IF m.kind = "do" THEN BOOLEAN
                                               ELSE {TRUE}) :
              /\ executed' = executed \cup {<<k, ok>>}
              /\ replies' = replies \cup {<<m.saga, m.step, m.kind, ok>>}
              /\ done' = IF m.kind = "do" /\ ok THEN done \cup {<<m.saga, m.step>>} ELSE done
              /\ undone' = IF m.kind = "undo" THEN undone \cup {<<m.saga, m.step>>} ELSE undone
    /\ UNCHANGED <<active, completed, outbox, timeouts, waiting, crashes, stray>>

MarkPublished ==
    /\ sending # 0
    /\ outbox' = [outbox EXCEPT ![sending].status = "Published"]
    /\ sending' = 0
    /\ UNCHANGED <<active, completed, timeouts, waiting, replies, executed, crashes, history>>

(* The transport refuses the message, as often as it is offered.           *)
PublishFails(k) ==
    /\ sending = 0
    /\ Pending(k) \/ Retryable(k)
    /\ outbox' = [outbox EXCEPT ![k].status = "Failed", ![k].retries = @ + 1]
    /\ UNCHANGED <<active, completed, timeouts, waiting, sending, replies, executed,
                   crashes, history>>

(* The publisher dies between publishing and marking. *)
PublisherCrashes ==
    /\ sending # 0 /\ crashes < MaxCrashes
    /\ crashes' = crashes + 1
    /\ sending' = 0
    /\ UNCHANGED <<active, completed, outbox, timeouts, waiting, replies, executed, history>>

-----------------------------------------------------------------------------
(* SagaOrchestrator. *)
Open(s) == s \in DOMAIN active /\ active[s].status \in {"Pending", "InProgress"}

(* next_action, whose action is enqueued with a timeout. *)
NextAction(s) ==
    /\ Open(s) /\ active[s].current < Steps[s]
    /\ s \notin waiting
    /\ outbox' = Append(outbox, Message(s, active[s].current, "do"))
    /\ timeouts' = Register(timeouts, s)
    /\ waiting' = waiting \cup {s}
    /\ UNCHANGED <<active, completed, sending, replies, executed, crashes, history>>

(* Mutant: a finished saga stays among the active ones. *)
StepSucceededKept(s) ==
    LET i == [status |-> "InProgress", current |-> active[s].current + 1,
              steps |-> Append(active[s].steps, active[s].current)]
    IN  /\ active' = Insert(active, s, i)
        /\ completed' = IF i.current >= Steps[s]
                        THEN Append(completed, [id |-> s, status |-> "Completed",
                                                steps |-> i.steps])
                        ELSE completed

StepSucceeded(s) ==
    LET i == [status |-> "InProgress", current |-> active[s].current + 1,
              steps |-> Append(active[s].steps, active[s].current)]
    IN  IF i.current >= Steps[s]
        THEN /\ active' = Without(active, s)
             /\ completed' = Append(completed, [id |-> s, status |-> "Completed",
                                                steps |-> i.steps])
        ELSE active' = Insert(active, s, i) /\ UNCHANGED completed

(* Mutant: the newest completed step is not compensated. *)
CompensationsButLast(s) ==
    LET back == Reverse(active[s].steps)
    IN  IF back = <<>> THEN <<>>
        ELSE [i \in DOMAIN Tail(back) |-> Message(s, Tail(back)[i], "undo")]

Compensations(s) ==
    LET back == Reverse(active[s].steps)
    IN  [i \in DOMAIN back |-> Message(s, back[i], "undo")]

(* The compensations step_failed returns are enqueued. *)
StepFailed(s) ==
    /\ active' = [active EXCEPT ![s].status = "Compensating"]
    /\ outbox' = outbox \o Compensations(s)
    /\ UNCHANGED completed

(* An answer to a step arrives; neither call names the step. *)
Answer(r) ==
    /\ r \in replies /\ r[3] = "do"
    /\ replies' = replies \ {r}
    /\ LET s == r[1]
           expected == s \in waiting /\ Open(s) /\ active[s].current = r[2]
       IN  /\ stray' = IF expected THEN stray ELSE stray \cup {s}
           /\ waiting' = waiting \ {s}
           /\ timeouts' = Clear(timeouts, s)
           /\ IF s \notin DOMAIN active THEN UNCHANGED <<active, completed, outbox>>
              ELSE IF r[4] THEN StepSucceeded(s) /\ UNCHANGED outbox
              ELSE StepFailed(s)
    /\ UNCHANGED <<sending, executed, crashes, done, undone>>

(* check_expired names the saga: the step counts as failed. *)
Expire(s) ==
    /\ s \in ToSet(timeouts) /\ s \in DOMAIN active
    /\ timeouts' = Clear(timeouts, s)
    /\ waiting' = waiting \ {s}
    /\ stray' = IF Open(s) THEN stray ELSE stray \cup {s}
    /\ StepFailed(s)
    /\ UNCHANGED <<sending, replies, executed, crashes, done, undone>>

Undoing(s) == {k \in DOMAIN outbox : outbox[k].saga = s /\ outbox[k].kind = "undo"}
Undone(s) == \A k \in Undoing(s) : <<k, TRUE>> \in executed

CompensationComplete(s) ==
    /\ s \in DOMAIN active
    /\ active' = [active EXCEPT ![s].status = "Failed"]
    /\ UNCHANGED <<completed, outbox, timeouts, waiting, sending, replies, executed,
                   crashes, history>>

(* Answers to compensations are only counted. *)
DropAnswer(r) ==
    /\ r \in replies /\ r[3] = "undo"
    /\ replies' = replies \ {r}
    /\ UNCHANGED <<active, completed, outbox, timeouts, waiting, sending, executed,
                   crashes, history>>

(* The driver asks for the next step, or reports the compensation when     *)
(* every participant has answered.                                         *)
Drive(s) ==
    \/ NextAction(s)
    \/ /\ s \in DOMAIN active /\ active[s].status = "Compensating" /\ Undone(s)
       /\ CompensationComplete(s)
Send == MarkPublished \/ \E k \in DOMAIN outbox : Publish(k)

SagaNext ==
    \/ \E s \in Sagas : Start(s) \/ Drive(s) \/ Expire(s)
    \/ Send
    \/ \E k \in DOMAIN outbox : PublishFails(k)
    \/ PublisherCrashes
    \/ \E r \in replies : Answer(r) \/ DropAnswer(r)

SagaSpec == SagaInit /\ [][SagaNext]_sagaVars

-----------------------------------------------------------------------------
(* The completed steps of a saga are the first ones, each once and in      *)
(* order, up to the one next_action hands out; a saga is moved to          *)
(* completed_sagas exactly once, when the last of them is there.           *)
StepsInOrder ==
    /\ \A s \in DOMAIN active :
          /\ active[s].steps = [i \in 1 .. active[s].current |-> i - 1]
          /\ active[s].current < Steps[s]
    /\ \A i \in DOMAIN completed :
          /\ completed[i].steps = [j \in 1 .. Steps[completed[i].id] |-> j - 1]
          /\ completed[i].id \notin DOMAIN active
          /\ \A j \in DOMAIN completed : completed[i].id = completed[j].id => i = j

StepsOf(set, s) == {x[2] : x \in {y \in set : y[1] = s}}

(* "If any step fails, compensation runs in reverse order": whenever a     *)
(* saga has ended and no answer of its participants is on the way, either  *)
(* every step was done and none undone, or exactly the steps that were     *)
(* done were undone, unless the orchestrator was told of something else    *)
(* than the open step (an answer behind a timeout, an answer twice), which *)
(* it cannot tell apart.                                                   *)
AllOrNothing ==
    \A s \in Known : s \notin stray /\ (\A r \in replies : r[1] # s) =>
        IF s \in DOMAIN active
        THEN active[s].status = "Failed" => StepsOf(done, s) = StepsOf(undone, s)
        ELSE StepsOf(done, s) = 0 .. Steps[s] - 1 /\ StepsOf(undone, s) = {}

Ended(s) == s \in Known /\ (s \in DOMAIN active => active[s].status = "Failed")

(* A compensation of s that no participant will see: it was refused so     *)
(* often that it is not offered again.                                     *)
GivenUp(s) ==
    \E k \in Undoing(s) : /\ outbox[k].status = "Failed" /\ outbox[k].retries >= MaxRetries
                          /\ <<k, TRUE>> \notin executed

(* A started saga ends, completed or compensated, whatever messages are    *)
(* refused, repeated or answered late, unless one of its compensations is  *)
(* refused max_retries times: retryable then leaves it out and nothing     *)
(* else looks at it, so the saga stays Compensating.  A refused step does  *)
(* not do that: its timeout ends it.                                       *)
SagaEnds == \A s \in Sagas : s \in Known ~> Ended(s) \/ GivenUp(s)
=============================================================================
