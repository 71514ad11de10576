------------------------------ MODULE SagaProofs ------------------------------
(***************************************************************************)
(* Proofs about the two ways to run a transaction of several steps.  Of    *)
(* the sagas of Saga.tla: the order of their steps, and that they are all  *)
(* done or all undone, for any number of sagas, steps, retries and crashes *)
(* of the publisher.  Of the choreographed transfer: what its events and   *)
(* its view may be trusted with, and where the money is, however events    *)
(* are delayed, reordered and repeated.                                    *)
(***************************************************************************)
EXTENDS Saga, Choreography, TotalsProofs

Statuses == {"Pending", "InProgress", "Compensating", "Failed"}
Kinds == {"do", "undo"}

Instances == [status : Statuses, current : Nat, steps : Seq(Nat)]
Messages == [saga : Sagas, step : Nat, kind : Kinds,
             status : {"Pending", "Published", "Failed"}, retries : Nat]
Records == [id : Sagas, status : {"Completed"}, steps : Seq(Nat)]

SagaTypeOK ==
    /\ DOMAIN active \subseteq Sagas
    /\ \A s \in DOMAIN active : active[s] \in Instances
    /\ completed \in Seq(Records)
    /\ outbox \in Seq(Messages)
    /\ waiting \subseteq DOMAIN active
    /\ sending \in {0} \cup DOMAIN outbox
    /\ replies \subseteq Sagas \X Nat \X Kinds \X BOOLEAN
    /\ executed \subseteq Nat \X BOOLEAN
    /\ done \subseteq Sagas \X Nat /\ undone \subseteq Sagas \X Nat

(* Saga s was asked to do or undo step c, and the participant answered. *)
Asks(k, s, kind, c) == outbox[k].saga = s /\ outbox[k].kind = kind /\ outbox[k].step = c
Asked(s, kind, c) == \E k \in DOMAIN outbox : Asks(k, s, kind, c)
Answered(s, kind, c, ok) == \E k \in DOMAIN outbox : Asks(k, s, kind, c) /\ <<k, ok>> \in executed

(* What a participant executed was asked of it, and it has one answer to a *)
(* message; a compensation succeeds; a published message was executed.     *)
Executed ==
    /\ \A e \in executed : e[1] \in DOMAIN outbox
    /\ \A e, f \in executed : e[1] = f[1] => e[2] = f[2]
    /\ \A e \in executed : outbox[e[1]].kind = "undo" => e[2]
    /\ sending # 0 => \E e \in executed : e[1] = sending
    /\ \A k \in DOMAIN outbox : outbox[k].status = "Published" => \E e \in executed : e[1] = k

(* The steps done and undone are those answered, and an answer on its way  *)
(* was given.                                                              *)
Truthful ==
    /\ \A s \in Sagas, c \in Nat : <<s, c>> \in done <=> Answered(s, "do", c, TRUE)
    /\ \A s \in Sagas, c \in Nat : <<s, c>> \in undone <=> Answered(s, "undo", c, TRUE)
    /\ \A s \in Sagas, c \in Nat, kind \in Kinds, ok \in BOOLEAN :
          <<s, c, kind, ok>> \in replies => Answered(s, kind, c, ok)

(* An active saga that was told of nothing but its open step: the steps    *)
(* before the current one are done; the current one is asked for once it   *)
(* is handed out, and its answer is on its way or made the saga            *)
(* compensate; a saga that compensates has asked to undo exactly the steps *)
(* before the current one.                                                 *)
ActiveTold(s) ==
    LET c == active[s].current
    IN  /\ s \in waiting => Open(s)
        /\ \A n \in Nat : Asked(s, "do", n) => n <= c
        /\ Asked(s, "do", c) => s \in waiting \/ ~Open(s)
        /\ \A n \in Nat : n < c => <<s, n>> \in done
        /\ \A ok \in BOOLEAN : Answered(s, "do", c, ok) =>
              <<s, c, "do", ok>> \in replies \/ (~ok /\ ~Open(s))
        /\ \A n \in Nat : Asked(s, "undo", n) <=> ~Open(s) /\ n < c

(* A completed saga has done its steps and undone none. *)
CompletedTold(s) ==
    /\ \A n \in Nat : Asked(s, "do", n) => n < Steps[s]
    /\ \A n \in Nat : n < Steps[s] => <<s, n>> \in done
    /\ \A n \in Nat : ~Asked(s, "undo", n)

Unasked(s) == \A kind \in Kinds, n \in Nat : ~Asked(s, kind, n)

Told(s) ==
    /\ s \in DOMAIN active /\ s \notin stray => ActiveTold(s)
    /\ s \in Known \ DOMAIN active /\ s \notin stray => CompletedTold(s)
    /\ s \notin Known => Unasked(s)

(* Inductive invariants. *)
OrderInv == SagaTypeOK /\ StepsInOrder
SagaInv == Executed /\ Truthful /\ \A s \in Sagas : Told(s)

-----------------------------------------------------------------------------
(* The order of the steps. *)

Ids == {completed[i].id : i \in DOMAIN completed}

(* What is known of an active saga. *)
LEMMA InstanceFacts ==
    ASSUME OrderInv, NEW s \in DOMAIN active
    PROVE  /\ s \in Sagas /\ Steps[s] \in Nat /\ s \notin Ids
           /\ active[s] \in Instances
           /\ active[s].status \in Statuses
           /\ active[s].current \in Nat /\ active[s].current < Steps[s]
           /\ active[s].steps \in Seq(Nat)
           /\ active[s].steps = [i \in 1 .. active[s].current |-> i - 1]
           /\ Len(active[s].steps) = active[s].current
<1>1. s \in Sagas /\ active[s] \in Instances
    BY DEF OrderInv, SagaTypeOK
<1>2. /\ active[s].status \in Statuses /\ active[s].current \in Nat
      /\ active[s].steps \in Seq(Nat) /\ Steps[s] \in Nat
    BY <1>1, SagaAssumption DEF Instances
<1>3. /\ active[s].steps = [i \in 1 .. active[s].current |-> i - 1]
      /\ active[s].current < Steps[s] /\ s \notin Ids
    BY DEF OrderInv, StepsInOrder, Ids
<1>4. DOMAIN active[s].steps = 1 .. active[s].current
    BY <1>3
<1>5. Len(active[s].steps) = active[s].current
    BY <1>2, <1>4
<1> QED BY <1>1, <1>2, <1>3, <1>5

(* Saga s gets a new state; the others keep theirs. *)
Updates(s, status, current) ==
    /\ DOMAIN active' = DOMAIN active \cup {s}
    /\ active'[s] \in Instances
    /\ active'[s].status = status /\ active'[s].current = current
    /\ active'[s].steps = [i \in 1 .. current |-> i - 1]
    /\ \A u \in DOMAIN active \ {s} : active'[u] = active[u]

(* It keeps the order if the new state does. *)
LEMMA UpdateKeeps ==
    ASSUME OrderInv, NEW s \in Sagas, NEW status, NEW current \in Nat,
           s \notin Ids, current < Steps[s], Updates(s, status, current), UNCHANGED completed
    PROVE  /\ DOMAIN active' \subseteq Sagas
           /\ \A u \in DOMAIN active' : active'[u] \in Instances
           /\ StepsInOrder'
           /\ Known' = Known \cup {s}
<1>1. DOMAIN active' \subseteq Sagas /\ \A u \in DOMAIN active' : active'[u] \in Instances
    BY DEF OrderInv, SagaTypeOK, Updates
<1>2. \A u \in DOMAIN active' : /\ active'[u].steps = [i \in 1 .. active'[u].current |-> i - 1]
                                /\ active'[u].current < Steps[u]
    BY DEF OrderInv, StepsInOrder, Updates
<1>3. \A i \in DOMAIN completed : completed[i].id \notin DOMAIN active'
    BY DEF OrderInv, StepsInOrder, Updates, Ids
<1>4. StepsInOrder'
    BY <1>2, <1>3 DEF OrderInv, StepsInOrder
<1>5. Known' = Known \cup {s}
    BY DEF Known, Updates
<1> QED BY <1>1, <1>4, <1>5

(* A saga is started. *)
LEMMA StartFacts ==
    ASSUME OrderInv, NEW s \in Sagas, Start(s)
    PROVE  s \notin Ids /\ s \notin DOMAIN active /\ 0 < Steps[s] /\ Updates(s, "Pending", 0)
<1>1. active' = Insert(active, s, NewInstance) /\ s \notin Known /\ 0 < Steps[s]
    BY SagaAssumption DEF Start
<1>2. s \notin Ids /\ s \notin DOMAIN active
    BY <1>1 DEF Known, Ids
<1>3. /\ NewInstance \in Instances /\ NewInstance.status = "Pending"
      /\ NewInstance.current = 0 /\ NewInstance.steps = <<>>
    BY DEF NewInstance, Instances, Statuses
<1>4. <<>> = [i \in 1 .. 0 |-> i - 1]
    OBVIOUS
<1>5. /\ DOMAIN active' = DOMAIN active \cup {s} /\ active'[s] = NewInstance
      /\ \A u \in DOMAIN active \ {s} : active'[u] = active[u]
    BY <1>1 DEF Insert
<1> QED BY <1>1, <1>2, <1>3, <1>4, <1>5 DEF Updates

(* A saga gets another status and nothing else. *)
LEMMA StatusFacts ==
    ASSUME OrderInv, NEW s \in DOMAIN active, NEW status \in Statuses,
           active' = [active EXCEPT ![s].status = status]
    PROVE  Updates(s, status, active[s].current)
<1> DEFINE i == [status |-> status, current |-> active[s].current, steps |-> active[s].steps]
<1>1. active[s] \in Instances /\ active[s].current \in Nat /\ active[s].steps \in Seq(Nat)
      /\ active[s].steps = [j \in 1 .. active[s].current |-> j - 1]
    BY InstanceFacts
<1>2. i \in Instances /\ i.status = status /\ i.current = active[s].current
      /\ i.steps = active[s].steps
    BY <1>1 DEF Instances
<1>3. active'[s] = i
    BY <1>1 DEF Instances
<1>4. DOMAIN active' = DOMAIN active \cup {s} /\ \A u \in DOMAIN active \ {s} : active'[u] = active[u]
    OBVIOUS
<1> HIDE DEF i
<1> QED BY <1>1, <1>2, <1>3, <1>4 DEF Updates

(* A step succeeds: the next one is the current one, or the saga is moved  *)
(* to the completed ones.                                                  *)
LEMMA SucceededFacts ==
    ASSUME OrderInv, NEW s \in DOMAIN active, StepSucceeded(s)
    PROVE  \/ /\ active[s].current + 1 < Steps[s] /\ UNCHANGED completed
              /\ Updates(s, "InProgress", active[s].current + 1)
           \/ /\ active[s].current + 1 = Steps[s]
              /\ DOMAIN active' = DOMAIN active \ {s}
              /\ \A u \in DOMAIN active \ {s} : active'[u] = active[u]
              /\ \E r \in Records : /\ r.id = s /\ r.steps = [i \in 1 .. Steps[s] |-> i - 1]
                                    /\ completed' = Append(completed, r)
<1> DEFINE c == active[s].current
           st == Append(active[s].steps, c)
           j == [status |-> "InProgress", current |-> c + 1, steps |-> st]
           r == [id |-> s, status |-> "Completed", steps |-> st]
<1>1. /\ s \in Sagas /\ active[s] \in Instances /\ c \in Nat /\ c < Steps[s] /\ Steps[s] \in Nat
      /\ active[s].steps \in Seq(Nat) /\ Len(active[s].steps) = c
      /\ active[s].steps = [n \in 1 .. c |-> n - 1]
    BY InstanceFacts
<1>2. st \in Seq(Nat) /\ st = [n \in 1 .. c + 1 |-> n - 1]
    <2>1. st \in Seq(Nat) /\ Len(st) = c + 1
        BY <1>1
    <2>2. ASSUME NEW n \in 1 .. c + 1 PROVE st[n] = n - 1
        BY <1>1, <2>2
    <2> QED BY <1>1, <2>1, <2>2
<1>3. j \in Instances /\ j.status = "InProgress" /\ j.current = c + 1 /\ j.steps = st
    BY <1>1, <1>2 DEF Instances, Statuses
<1>4. r \in Records /\ r.id = s /\ r.steps = st
    BY <1>1, <1>2 DEF Records
<1>5. IF c + 1 >= Steps[s]
      THEN active' = Without(active, s) /\ completed' = Append(completed, r)
      ELSE active' = Insert(active, s, j) /\ UNCHANGED completed
    BY <1>3 DEF StepSucceeded
<1> HIDE DEF st, j, r
<1>6. CASE c + 1 >= Steps[s]
    <2>1. c + 1 = Steps[s]
        BY <1>1, <1>6
    <2>2. /\ DOMAIN active' = DOMAIN active \ {s}
          /\ \A u \in DOMAIN active \ {s} : active'[u] = active[u]
        BY <1>5, <1>6 DEF Without
    <2> QED BY <1>2, <1>4, <1>5, <1>6, <2>1, <2>2
<1>7. CASE ~(c + 1 >= Steps[s])
    <2>1. c + 1 < Steps[s]
        BY <1>1, <1>7
    <2>2. /\ DOMAIN active' = DOMAIN active \cup {s} /\ active'[s] = j
          /\ \A u \in DOMAIN active \ {s} : active'[u] = active[u]
        BY <1>5, <1>7 DEF Insert
    <2> QED BY <1>2, <1>3, <1>5, <1>7, <2>1, <2>2 DEF Updates
<1> QED BY <1>6, <1>7

(* The outbox gains messages that ask saga s for the steps C. *)
Grows(s, kind, C) ==
    /\ outbox' \in Seq(Messages)
    /\ DOMAIN outbox \subseteq DOMAIN outbox'
    /\ \A k \in DOMAIN outbox : outbox'[k] = outbox[k]
    /\ \A k \in DOMAIN outbox' \ DOMAIN outbox :
          /\ Asks(k, s, kind, outbox[k].step)'
          /\ outbox'[k].step \in C /\ outbox'[k].status = "Pending"
    /\ \A c \in C : \E k \in DOMAIN outbox' \ DOMAIN outbox : outbox'[k].step = c

(* A message made for a step. *)
LEMMA MessageFacts ==
    ASSUME NEW s \in Sagas, NEW c \in Nat, NEW kind \in Kinds
    PROVE  /\ Message(s, c, kind) \in Messages
           /\ Message(s, c, kind).saga = s /\ Message(s, c, kind).step = c
           /\ Message(s, c, kind).kind = kind /\ Message(s, c, kind).status = "Pending"
BY DEF Message, Messages

(* An action is enqueued. *)
LEMMA EnqueueGrows ==
    ASSUME SagaTypeOK, NEW s \in Sagas, NEW c \in Nat, NEW kind \in Kinds,
           outbox' = Append(outbox, Message(s, c, kind))
    PROVE  Grows(s, kind, {c})
<1> DEFINE m == Message(s, c, kind)
<1>1. m \in Messages /\ m.saga = s /\ m.step = c /\ m.kind = kind /\ m.status = "Pending"
    BY MessageFacts
<1> HIDE DEF m
<1>2. outbox \in Seq(Messages) /\ outbox' = Append(outbox, m)
    BY DEF SagaTypeOK, m
<1>3. /\ outbox' \in Seq(Messages) /\ DOMAIN outbox = 1 .. Len(outbox) /\ Len(outbox) \in Nat
      /\ DOMAIN outbox' = 1 .. Len(outbox) + 1 /\ outbox'[Len(outbox) + 1] = m
      /\ \A k \in DOMAIN outbox : outbox'[k] = outbox[k]
    BY <1>1, <1>2
<1>4. DOMAIN outbox \subseteq DOMAIN outbox' /\ DOMAIN outbox' \ DOMAIN outbox = {Len(outbox) + 1}
    BY <1>3
<1> QED BY <1>1, <1>3, <1>4 DEF Grows, Asks

(* The compensations of a saga undo the steps before the current one. *)
LEMMA CompensationFacts ==
    ASSUME OrderInv, NEW s \in DOMAIN active
    PROVE  /\ Compensations(s) \in Seq(Messages)
           /\ Len(Compensations(s)) = active[s].current
           /\ \A i \in 1 .. active[s].current :
                 Compensations(s)[i] = Message(s, active[s].current - i, "undo")
<1> DEFINE c == active[s].current
           back == Reverse(active[s].steps)
<1>1. /\ s \in Sagas /\ c \in Nat /\ Len(active[s].steps) = c
      /\ active[s].steps = [n \in 1 .. c |-> n - 1]
    BY InstanceFacts
<1>2. back = [i \in 1 .. c |-> active[s].steps[(c - i) + 1]]
    BY <1>1 DEF Reverse
<1>3. DOMAIN back = 1 .. c /\ \A i \in 1 .. c : back[i] = c - i
    <2>1. ASSUME NEW i \in 1 .. c PROVE back[i] = c - i
        <3>1. (c - i) + 1 \in 1 .. c /\ ((c - i) + 1) - 1 = c - i
            BY <1>1
        <3> QED BY <1>1, <1>2, <3>1, Zenon
    <2> QED BY <1>2, <2>1
<1>4. Compensations(s) = [i \in 1 .. c |-> Message(s, c - i, "undo")]
    BY <1>3 DEF Compensations
<1>5. \A i \in 1 .. c : Message(s, c - i, "undo") \in Messages
    BY <1>1, MessageFacts DEF Kinds
<1> HIDE DEF c, back
<1>6. Compensations(s) \in Seq(Messages) /\ Len(Compensations(s)) = c
    BY <1>1, <1>4, <1>5
<1> QED BY <1>4, <1>6 DEF c

(* What the concatenation q of a and b holds. *)
Joined(q, a, b) ==
    /\ DOMAIN a = 1 .. Len(a) /\ Len(a) \in Nat
    /\ DOMAIN q = 1 .. Len(a) + Len(b)
    /\ \A k \in 1 .. Len(a) : q[k] = a[k]
    /\ \A i \in 1 .. Len(b) : q[Len(a) + i] = b[i]

LEMMA Concatenated ==
    ASSUME NEW S, NEW a \in Seq(S), NEW b \in Seq(S)
    PROVE  a \o b \in Seq(S) /\ Joined(a \o b, a, b)
BY DEF Joined

(* They are enqueued. *)
LEMMA FailedGrows ==
    ASSUME OrderInv, NEW s \in DOMAIN active, StepFailed(s)
    PROVE  Grows(s, "undo", 0 .. active[s].current - 1)
<1> DEFINE c == active[s].current
           new == Compensations(s)
<1>1. s \in Sagas /\ c \in Nat /\ outbox \in Seq(Messages) /\ outbox' = outbox \o new
    BY InstanceFacts DEF OrderInv, SagaTypeOK, StepFailed
<1>2. /\ new \in Seq(Messages) /\ Len(new) = c
      /\ \A i \in 1 .. c : new[i] = Message(s, c - i, "undo")
    BY CompensationFacts
<1>3. ASSUME NEW i \in 1 .. c
      PROVE  /\ new[i].saga = s /\ new[i].step = c - i
             /\ new[i].kind = "undo" /\ new[i].status = "Pending"
    <2>1. c - i \in Nat /\ "undo" \in Kinds
        BY <1>1 DEF Kinds
    <2> QED BY <1>1, <1>2, <2>1, MessageFacts
<1> HIDE DEF c, new
<1>4. /\ outbox' \in Seq(Messages) /\ DOMAIN outbox = 1 .. Len(outbox) /\ Len(outbox) \in Nat
      /\ DOMAIN outbox' = 1 .. Len(outbox) + c
      /\ \A k \in 1 .. Len(outbox) : outbox'[k] = outbox[k]
      /\ \A i \in 1 .. c : outbox'[Len(outbox) + i] = new[i]
    <2>1. outbox' \in Seq(Messages) /\ Joined(outbox', outbox, new)
        BY <1>1, <1>2, Concatenated
    <2> QED BY <1>2, <2>1 DEF Joined
<1>5. DOMAIN outbox' \ DOMAIN outbox = Len(outbox) + 1 .. Len(outbox) + c
    BY <1>1, <1>4
<1>6. ASSUME NEW k \in DOMAIN outbox' \ DOMAIN outbox
      PROVE  /\ outbox'[k].saga = s /\ outbox'[k].kind = "undo" /\ outbox'[k].status = "Pending"
             /\ outbox'[k].step \in 0 .. c - 1
    <2>1. PICK i \in 1 .. c : k = Len(outbox) + i
        <3>1. k - Len(outbox) \in 1 .. c /\ k = Len(outbox) + (k - Len(outbox))
            BY <1>1, <1>4, <1>5
        <3> QED BY <3>1
    <2>2. c - i \in 0 .. c - 1
        BY <1>1
    <2>3. outbox'[k] = new[i]
        BY <1>4, <2>1
    <2> QED BY <1>3, <2>2, <2>3
<1>7. ASSUME NEW n \in 0 .. c - 1
      PROVE  \E k \in DOMAIN outbox' \ DOMAIN outbox : outbox'[k].step = n
    <2>1. PICK i \in 1 .. c : c - i = n
        <3>1. c - n \in 1 .. c /\ c - (c - n) = n
            BY <1>1
        <3> QED BY <3>1
    <2>2. Len(outbox) + i \in DOMAIN outbox' \ DOMAIN outbox
        BY <1>1, <1>4, <1>5
    <2>3. outbox'[Len(outbox) + i].step = n
        BY <1>3, <1>4, <2>1
    <2> QED BY <2>2, <2>3
<1>8. DOMAIN outbox \subseteq DOMAIN outbox'
    BY <1>1, <1>4
<1>9. Grows(s, "undo", 0 .. c - 1)
    BY <1>1, <1>4, <1>6, <1>7, <1>8 DEF Grows, Asks
<1> QED BY <1>9 DEF c

(* A message of the outbox is of the right type. *)
LEMMA MessageType ==
    ASSUME SagaTypeOK, NEW k \in DOMAIN outbox
    PROVE  /\ outbox[k] \in Messages /\ k \in Nat
           /\ outbox[k].saga \in Sagas /\ outbox[k].step \in Nat
           /\ outbox[k].kind \in Kinds /\ outbox[k].retries \in Nat
<1>1. outbox \in Seq(Messages)
    BY DEF SagaTypeOK
<1>2. outbox[k] \in Messages /\ k \in Nat
    BY <1>1
<1> QED BY <1>2 DEF Messages

(* The messages of the outbox keep what they ask for. *)
Relabels ==
    /\ outbox' \in Seq(Messages)
    /\ DOMAIN outbox' = DOMAIN outbox
    /\ \A k \in DOMAIN outbox : /\ outbox'[k].saga = outbox[k].saga
                                /\ outbox'[k].kind = outbox[k].kind
                                /\ outbox'[k].step = outbox[k].step

(* A message gets another status and another count of retries. *)
LEMMA RelabelFacts ==
    ASSUME SagaTypeOK, NEW k \in DOMAIN outbox, NEW status \in {"Published", "Failed"},
           \/ outbox' = [outbox EXCEPT ![k].status = status]
           \/ outbox' = [outbox EXCEPT ![k].status = status, ![k].retries = @ + 1]
    PROVE  Relabels /\ \A j \in DOMAIN outbox :
                          outbox'[j].status = IF j = k THEN status ELSE outbox[j].status
<1>1. outbox \in Seq(Messages) /\ DOMAIN outbox = 1 .. Len(outbox) /\ Len(outbox) \in Nat
    BY DEF SagaTypeOK
<1>2. outbox[k] \in Messages /\ outbox[k].retries \in Nat
    BY MessageType
<1>3. /\ outbox'[k] \in Messages /\ outbox'[k].status = status
      /\ outbox'[k].saga = outbox[k].saga /\ outbox'[k].kind = outbox[k].kind
      /\ outbox'[k].step = outbox[k].step
    BY <1>1, <1>2, SMTT(30) DEF Messages
<1>4. DOMAIN outbox' = DOMAIN outbox /\ \A j \in DOMAIN outbox \ {k} : outbox'[j] = outbox[j]
    OBVIOUS
<1>5. \A j \in DOMAIN outbox : outbox[j] \in Messages
    BY <1>1
<1>6. outbox' = [j \in 1 .. Len(outbox) |-> outbox'[j]]
    BY <1>1
<1>7. \A j \in 1 .. Len(outbox) : outbox'[j] \in Messages
    BY <1>1, <1>3, <1>4, <1>5
<1>8. outbox' \in Seq(Messages)
    BY <1>1, <1>6, <1>7
<1> QED BY <1>3, <1>4, <1>8 DEF Relabels

(* A message is published: its participant executes it, unless it has, and *)
(* answers.                                                                *)
LEMMA PublishFacts ==
    ASSUME SagaTypeOK, NEW k \in DOMAIN outbox, Publish(k)
    PROVE  \E ok \in BOOLEAN :
              /\ executed' = executed \cup {<<k, ok>>}
              /\ replies' = replies \cup {<<outbox[k].saga, outbox[k].step, outbox[k].kind, ok>>}
              /\ done' = IF outbox[k].kind = "do" /\ ok
                         THEN done \cup {<<outbox[k].saga, outbox[k].step>>} ELSE done
              /\ undone' = IF outbox[k].kind = "undo"
                           THEN undone \cup {<<outbox[k].saga, outbox[k].step>>} ELSE undone
              /\ \/ <<k, ok>> \in executed
                 \/ /\ \A e \in executed : e[1] # k
                    /\ outbox[k].kind = "undo" => ok
<1> DEFINE m == outbox[k]
           known == {e \in executed : e[1] = k}
<1>1. m.kind \in Kinds
    BY MessageType
<1>2. \A e \in known : e[2] \in BOOLEAN /\ <<k, e[2]>> \in executed
    BY DEF SagaTypeOK
<1>3. PICK ok \in {e[2] : e \in known} \cup (IF known # {} THEN {}
                                             ELSE IF m.kind = "do" THEN BOOLEAN ELSE {TRUE}) :
         /\ executed' = executed \cup {<<k, ok>>}
         /\ replies' = replies \cup {<<m.saga, m.step, m.kind, ok>>}
         /\ done' = IF m.kind = "do" /\ ok THEN done \cup {<<m.saga, m.step>>} ELSE done
         /\ undone' = IF m.kind = "undo" THEN undone \cup {<<m.saga, m.step>>} ELSE undone
    BY DEF Publish
<1>4. CASE known # {}
    <2>1. ok \in BOOLEAN /\ <<k, ok>> \in executed
        BY <1>2, <1>3, <1>4
    <2> QED BY <1>3, <2>1
<1>5. CASE known = {}
    <2>1. ok \in BOOLEAN /\ (m.kind = "undo" => ok) /\ \A e \in executed : e[1] # k
        BY <1>1, <1>3, <1>5
    <2> QED BY <1>3, <2>1
<1> QED BY <1>4, <1>5

(* The publisher's steps. *)
LEMMA OrderPublish ==
    ASSUME OrderInv,
           \/ MarkPublished \/ PublisherCrashes
           \/ \E k \in DOMAIN outbox : Publish(k) \/ PublishFails(k)
    PROVE  OrderInv'
<1> USE DEF OrderInv
<1>1. ASSUME UNCHANGED <<active, completed>> PROVE StepsInOrder'
    BY <1>1 DEF StepsInOrder
<1>2. CASE MarkPublished
    <2>1. sending \in DOMAIN outbox /\ UNCHANGED <<active, completed>>
        BY <1>2 DEF MarkPublished, SagaTypeOK
    <2>2. Relabels
        BY <1>2, <2>1, RelabelFacts DEF MarkPublished
    <2>3. SagaTypeOK'
        BY <1>2, <2>2 DEF MarkPublished, SagaTypeOK, Relabels, history
    <2> QED BY <1>1, <2>1, <2>3
<1>3. CASE PublisherCrashes
    <2>1. SagaTypeOK' /\ UNCHANGED <<active, completed>>
        BY <1>3 DEF PublisherCrashes, SagaTypeOK, history
    <2> QED BY <1>1, <2>1
<1>4. ASSUME NEW k \in DOMAIN outbox, PublishFails(k) PROVE OrderInv'
    <2>1. UNCHANGED <<active, completed, waiting, sending, replies, executed, done, undone>>
        BY <1>4 DEF PublishFails, history
    <2>2. Relabels
        BY <1>4, RelabelFacts DEF PublishFails
    <2>3. SagaTypeOK'
        BY <2>1, <2>2 DEF SagaTypeOK, Relabels
    <2> QED BY <1>1, <2>1, <2>3
<1>5. ASSUME NEW k \in DOMAIN outbox, Publish(k) PROVE OrderInv'
    <2>1. /\ UNCHANGED <<active, completed, outbox, waiting>> /\ sending' = k
          /\ outbox \in Seq(Messages)
        BY <1>5 DEF Publish, SagaTypeOK
    <2>2. /\ outbox[k].saga \in Sagas /\ outbox[k].step \in Nat /\ outbox[k].kind \in Kinds
          /\ k \in Nat
        BY MessageType
    <2>3. PICK ok \in BOOLEAN :
              /\ executed' = executed \cup {<<k, ok>>}
              /\ replies' = replies \cup {<<outbox[k].saga, outbox[k].step, outbox[k].kind, ok>>}
              /\ done' = IF outbox[k].kind = "do" /\ ok
                         THEN done \cup {<<outbox[k].saga, outbox[k].step>>} ELSE done
              /\ undone' = IF outbox[k].kind = "undo"
                           THEN undone \cup {<<outbox[k].saga, outbox[k].step>>} ELSE undone
        BY <1>5, PublishFacts
    <2>4. SagaTypeOK'
        BY <2>1, <2>2, <2>3 DEF SagaTypeOK
    <2> QED BY <1>1, <2>1, <2>4
<1> QED BY <1>2, <1>3, <1>4, <1>5

(* A step of a saga failed, as far as the orchestrator can tell. *)
LEMMA OrderFailed ==
    ASSUME OrderInv, NEW s \in DOMAIN active, StepFailed(s)
    PROVE  /\ DOMAIN active' = DOMAIN active
           /\ \A u \in DOMAIN active' : active'[u] \in Instances
           /\ StepsInOrder' /\ Known' = Known
           /\ UNCHANGED completed
           /\ Updates(s, "Compensating", active[s].current)
           /\ Grows(s, "undo", 0 .. active[s].current - 1)
<1>1. active' = [active EXCEPT ![s].status = "Compensating"] /\ UNCHANGED completed
    BY DEF StepFailed
<1>2. /\ s \in Sagas /\ s \notin Ids /\ active[s].current \in Nat /\ active[s].current < Steps[s]
    BY InstanceFacts
<1>3. Updates(s, "Compensating", active[s].current)
    BY <1>1, StatusFacts DEF Statuses
<1>4. /\ \A u \in DOMAIN active' : active'[u] \in Instances
      /\ StepsInOrder' /\ Known' = Known \cup {s}
    BY <1>1, <1>2, <1>3, UpdateKeeps
<1>5. DOMAIN active' = DOMAIN active /\ s \in Known
    BY <1>3 DEF Updates, Known
<1> QED BY <1>1, <1>3, <1>4, <1>5, FailedGrows

(* A step of a saga succeeded, as far as the orchestrator can tell. *)
LEMMA OrderSucceeded ==
    ASSUME OrderInv, NEW s \in DOMAIN active, StepSucceeded(s)
    PROVE  /\ DOMAIN active \ {s} \subseteq DOMAIN active' /\ DOMAIN active' \subseteq DOMAIN active
           /\ \A u \in DOMAIN active' : active'[u] \in Instances
           /\ \A u \in DOMAIN active \ {s} : active'[u] = active[u]
           /\ completed' \in Seq(Records)
           /\ StepsInOrder' /\ Known' = Known
<1> DEFINE c == active[s].current
<1>1. /\ s \in Sagas /\ s \notin Ids /\ c \in Nat /\ s \in Known
      /\ completed \in Seq(Records) /\ DOMAIN active \subseteq Sagas
    BY InstanceFacts DEF OrderInv, SagaTypeOK, Known
<1>2. CASE c + 1 < Steps[s] /\ UNCHANGED completed /\ Updates(s, "InProgress", c + 1)
    <2>1. c + 1 \in Nat
        BY <1>1
    <2>2. /\ \A u \in DOMAIN active' : active'[u] \in Instances
          /\ StepsInOrder' /\ Known' = Known \cup {s}
        BY <1>1, <1>2, <2>1, UpdateKeeps
    <2>3. DOMAIN active' = DOMAIN active /\ \A u \in DOMAIN active \ {s} : active'[u] = active[u]
        BY <1>2 DEF Updates
    <2> QED BY <1>1, <1>2, <2>2, <2>3
<1>3. ASSUME DOMAIN active' = DOMAIN active \ {s},
             \A u \in DOMAIN active \ {s} : active'[u] = active[u],
             NEW r \in Records, r.id = s, r.steps = [i \in 1 .. Steps[s] |-> i - 1],
             completed' = Append(completed, r)
      PROVE  /\ completed' \in Seq(Records) /\ Known' = Known /\ StepsInOrder'
             /\ \A u \in DOMAIN active' : active'[u] \in Instances
    <2>1. /\ completed' \in Seq(Records) /\ DOMAIN completed = 1 .. Len(completed)
          /\ DOMAIN completed' = DOMAIN completed \cup {Len(completed) + 1}
          /\ Len(completed) + 1 \notin DOMAIN completed
          /\ completed'[Len(completed) + 1] = r
          /\ \A i \in DOMAIN completed : completed'[i] = completed[i]
        BY <1>1, <1>3
    <2>2. \A u \in DOMAIN active' : active'[u] \in Instances
        BY <1>3 DEF OrderInv, SagaTypeOK
    <2>3. Ids' = Ids \cup {s}
        BY <1>3, <2>1 DEF Ids
    <2>4. Known' = Known
        BY <1>3, <2>3 DEF Known, Ids
    <2>5. \A u \in DOMAIN active' : /\ active'[u].steps = [i \in 1 .. active'[u].current |-> i - 1]
                                    /\ active'[u].current < Steps[u]
        BY <1>3 DEF OrderInv, StepsInOrder
    <2>6. ASSUME NEW i \in DOMAIN completed'
          PROVE  /\ completed'[i].steps = [j \in 1 .. Steps[completed'[i].id] |-> j - 1]
                 /\ completed'[i].id \notin DOMAIN active'
                 /\ \A j \in DOMAIN completed' : completed'[i].id = completed'[j].id => i = j
        <3>1. CASE i = Len(completed) + 1
            <4>1. completed'[i] = r /\ s \notin DOMAIN active'
                BY <1>3, <2>1, <3>1
            <4>2. \A j \in DOMAIN completed : completed'[j].id # s
                BY <1>1, <2>1 DEF Ids
            <4>3. \A j \in DOMAIN completed' : completed'[i].id = completed'[j].id => i = j
                BY <1>3, <2>1, <3>1, <4>1, <4>2
            <4> QED BY <1>3, <4>1, <4>3
        <3>2. CASE i \in DOMAIN completed
            <4>1. completed'[i] = completed[i] /\ completed[i].id # s
                BY <1>1, <2>1, <3>2 DEF Ids
            <4>2. /\ completed[i].steps = [j \in 1 .. Steps[completed[i].id] |-> j - 1]
                  /\ completed[i].id \notin DOMAIN active
                  /\ \A j \in DOMAIN completed : completed[i].id = completed[j].id => i = j
                BY <3>2 DEF OrderInv, StepsInOrder
            <4> QED BY <1>3, <2>1, <4>1, <4>2
        <3> QED BY <2>1, <3>1, <3>2
    <2>7. StepsInOrder'
        BY <2>5, <2>6 DEF StepsInOrder
    <2> QED BY <2>1, <2>2, <2>4, <2>7
<1> QED BY <1>2, <1>3, SucceededFacts

(* The orchestrator's steps. *)
LEMMA OrderDrive ==
    ASSUME OrderInv, NEW s \in Sagas, Start(s) \/ Drive(s) \/ Expire(s)
    PROVE  OrderInv'
<1> USE DEF OrderInv
<1>1. CASE Start(s)
    <2>1. /\ s \notin Ids /\ 0 < Steps[s] /\ Updates(s, "Pending", 0)
          /\ UNCHANGED <<completed, outbox, waiting, sending, replies, executed, done, undone>>
        BY <1>1, StartFacts DEF Start, history
    <2>2. /\ DOMAIN active' \subseteq Sagas /\ \A u \in DOMAIN active' : active'[u] \in Instances
          /\ StepsInOrder'
        BY <2>1, UpdateKeeps
    <2>3. waiting' \subseteq DOMAIN active'
        BY <2>1 DEF SagaTypeOK, Updates
    <2> QED BY <2>1, <2>2, <2>3 DEF SagaTypeOK
<1>2. CASE NextAction(s)
    <2>1. /\ s \in DOMAIN active /\ outbox' = Append(outbox, Message(s, active[s].current, "do"))
          /\ waiting' = waiting \cup {s}
          /\ UNCHANGED <<active, completed, sending, replies, executed, done, undone>>
        BY <1>2 DEF NextAction, Open, history
    <2>2. Grows(s, "do", {active[s].current})
        BY <2>1, EnqueueGrows, InstanceFacts DEF Kinds
    <2>3. SagaTypeOK'
        BY <2>1, <2>2 DEF SagaTypeOK, Grows
    <2>4. StepsInOrder'
        BY <2>1 DEF StepsInOrder
    <2> QED BY <2>3, <2>4
<1>3. CASE CompensationComplete(s)
    <2>1. /\ s \in DOMAIN active /\ active' = [active EXCEPT ![s].status = "Failed"]
          /\ UNCHANGED <<completed, outbox, waiting, sending, replies, executed, done, undone>>
        BY <1>3 DEF CompensationComplete, history
    <2>2. Updates(s, "Failed", active[s].current)
        BY <2>1, StatusFacts DEF Statuses
    <2>3. s \notin Ids /\ active[s].current \in Nat /\ active[s].current < Steps[s]
        BY <2>1, InstanceFacts
    <2>4. /\ DOMAIN active' \subseteq Sagas /\ \A u \in DOMAIN active' : active'[u] \in Instances
          /\ StepsInOrder'
        BY <2>1, <2>2, <2>3, UpdateKeeps
    <2>5. waiting' \subseteq DOMAIN active'
        BY <2>1, <2>2 DEF SagaTypeOK, Updates
    <2> QED BY <2>1, <2>4, <2>5 DEF SagaTypeOK
<1>4. CASE Expire(s)
    <2>1. /\ s \in DOMAIN active /\ StepFailed(s) /\ waiting' = waiting \ {s}
          /\ UNCHANGED <<sending, replies, executed, done, undone>>
        BY <1>4 DEF Expire
    <2>2. /\ DOMAIN active' = DOMAIN active /\ \A u \in DOMAIN active' : active'[u] \in Instances
          /\ StepsInOrder' /\ UNCHANGED completed
          /\ Grows(s, "undo", 0 .. active[s].current - 1)
        BY <2>1, OrderFailed
    <2> QED BY <2>1, <2>2 DEF SagaTypeOK, Grows
<1> QED BY <1>1, <1>2, <1>3, <1>4 DEF Drive

(* An answer arrives. *)
LEMMA OrderAnswer ==
    ASSUME OrderInv, NEW r \in replies, Answer(r) \/ DropAnswer(r)
    PROVE  OrderInv'
<1> USE DEF OrderInv
<1>1. CASE DropAnswer(r)
    <2>1. StepsInOrder'
        BY <1>1 DEF DropAnswer, StepsInOrder
    <2>2. SagaTypeOK'
        BY <1>1 DEF DropAnswer, SagaTypeOK, history
    <2> QED BY <2>1, <2>2
<1>2. CASE Answer(r)
    <2> DEFINE s == r[1]
    <2>1. /\ replies' = replies \ {r} /\ waiting' = waiting \ {s}
          /\ UNCHANGED <<sending, executed, done, undone>>
        BY <1>2 DEF Answer
    <2>2. CASE s \notin DOMAIN active
        <3>1. UNCHANGED <<active, completed, outbox>>
            BY <1>2, <2>2 DEF Answer
        <3>2. StepsInOrder'
            BY <3>1 DEF StepsInOrder
        <3> QED BY <2>1, <3>1, <3>2 DEF SagaTypeOK
    <2>3. CASE s \in DOMAIN active /\ r[4]
        <3>1. StepSucceeded(s) /\ UNCHANGED outbox
            BY <1>2, <2>3 DEF Answer
        <3>2. /\ DOMAIN active \ {s} \subseteq DOMAIN active' /\ DOMAIN active' \subseteq DOMAIN active
              /\ \A u \in DOMAIN active' : active'[u] \in Instances
              /\ completed' \in Seq(Records) /\ StepsInOrder'
            BY <2>3, <3>1, OrderSucceeded
        <3> QED BY <2>1, <3>1, <3>2 DEF SagaTypeOK
    <2>4. CASE s \in DOMAIN active /\ ~r[4]
        <3>1. StepFailed(s)
            BY <1>2, <2>4 DEF Answer
        <3>2. /\ DOMAIN active' = DOMAIN active /\ \A u \in DOMAIN active' : active'[u] \in Instances
              /\ StepsInOrder' /\ UNCHANGED completed
              /\ Grows(s, "undo", 0 .. active[s].current - 1)
            BY <2>4, <3>1, OrderFailed
        <3> QED BY <2>1, <3>2 DEF SagaTypeOK, Grows
    <2> QED BY <2>2, <2>3, <2>4
<1> QED BY <1>1, <1>2

(* At the start there is no saga. *)
LEMMA OrderInit == SagaInit => OrderInv
<1> SUFFICES ASSUME SagaInit PROVE OrderInv
    OBVIOUS
<1>1. DOMAIN active = {} /\ completed = <<>> /\ outbox = <<>> /\ waiting = {} /\ sending = 0
      /\ replies = {} /\ executed = {} /\ done = {} /\ undone = {}
    BY DEF SagaInit
<1>2. <<>> \in Seq(Records) /\ <<>> \in Seq(Messages)
    OBVIOUS
<1> QED BY <1>1, <1>2 DEF OrderInv, SagaTypeOK, StepsInOrder

(* Every step keeps the order of the steps. *)
LEMMA OrderStep == OrderInv /\ [SagaNext]_sagaVars => OrderInv'
<1> SUFFICES ASSUME OrderInv, [SagaNext]_sagaVars PROVE OrderInv'
    OBVIOUS
<1>1. CASE UNCHANGED sagaVars
    BY <1>1 DEF sagaVars, OrderInv, SagaTypeOK, StepsInOrder
<1> QED BY <1>1, OrderDrive, OrderPublish, OrderAnswer DEF SagaNext, Send

(* For any sagas, retries and crashes: the completed steps of a saga are   *)
(* the first ones, each once and in order, and a saga is completed once,   *)
(* with all of them.                                                       *)
THEOREM StepsAlwaysInOrder == SagaSpec => []StepsInOrder
<1>1. OrderInv => StepsInOrder
    BY DEF OrderInv
<1> QED BY <1>1, OrderInit, OrderStep, PTL DEF SagaSpec

-----------------------------------------------------------------------------
(* All or nothing. *)

(* A longer outbox asks for what is new, and nothing of it was answered. *)
LEMMA GrownAsked ==
    ASSUME SagaTypeOK, Executed, NEW s, NEW kind, NEW C, Grows(s, kind, C),
           UNCHANGED <<executed, sending>>
    PROVE  /\ \A u, j, n : Asked(u, j, n)' <=> Asked(u, j, n) \/ (u = s /\ j = kind /\ n \in C)
           /\ \A u, j, n, ok : Answered(u, j, n, ok)' <=> Answered(u, j, n, ok)
           /\ Executed'
<1>1. /\ DOMAIN outbox \subseteq DOMAIN outbox' /\ \A k \in DOMAIN outbox : outbox'[k] = outbox[k]
      /\ \A k \in DOMAIN outbox' \ DOMAIN outbox :
            /\ outbox'[k].saga = s /\ outbox'[k].kind = kind
            /\ outbox'[k].step \in C /\ outbox'[k].status = "Pending"
      /\ \A c \in C : \E k \in DOMAIN outbox' \ DOMAIN outbox : outbox'[k].step = c
    BY DEF Grows, Asks
<1>2. ASSUME NEW u, NEW j, NEW n
      PROVE  Asked(u, j, n)' <=> Asked(u, j, n) \/ (u = s /\ j = kind /\ n \in C)
    BY <1>1 DEF Asked, Asks
<1>3. \A k, ok : <<k, ok>> \in executed => k \in DOMAIN outbox
    BY DEF Executed
<1>4. ASSUME NEW u, NEW j, NEW n, NEW ok
      PROVE  Answered(u, j, n, ok)' <=> Answered(u, j, n, ok)
    BY <1>1, <1>3 DEF Answered, Asks
<1>5. Executed'
    <2>1. \A e \in executed : e[1] \in DOMAIN outbox' /\ outbox'[e[1]] = outbox[e[1]]
        BY <1>1 DEF Executed
    <2>2. \A k \in DOMAIN outbox' : outbox'[k].status = "Published" => \E e \in executed : e[1] = k
        BY <1>1 DEF Executed
    <2> QED BY <2>1, <2>2 DEF Executed
<1> QED BY <1>2, <1>4, <1>5

(* Messages that only change their status ask for the same. *)
LEMMA RelabelledAsked ==
    ASSUME Relabels, UNCHANGED executed
    PROVE  /\ \A u, j, n : Asked(u, j, n)' <=> Asked(u, j, n)
           /\ \A u, j, n, ok : Answered(u, j, n, ok)' <=> Answered(u, j, n, ok)
BY DEF Relabels, Asked, Answered, Asks

(* Nothing happened to saga s but that its participants went on. *)
Alike(s) ==
    /\ s \in DOMAIN active' <=> s \in DOMAIN active
    /\ s \in DOMAIN active => active'[s] = active[s]
    /\ s \in Known' <=> s \in Known
    /\ s \in waiting' <=> s \in waiting
    /\ s \notin stray' => s \notin stray
    /\ \A kind \in Kinds, n \in Nat : Asked(s, kind, n)' <=> Asked(s, kind, n)
    /\ \A n \in Nat : <<s, n>> \in done => <<s, n>> \in done'
    /\ \A n \in Nat, ok \in BOOLEAN :
          <<s, n, "do", ok>> \in replies => <<s, n, "do", ok>> \in replies'
    /\ \A n \in Nat, ok \in BOOLEAN : Answered(s, "do", n, ok)' =>
          Answered(s, "do", n, ok) \/ <<s, n, "do", ok>> \in replies'

(* What holds of it still does. *)
LEMMA ToldKept ==
    ASSUME OrderInv, NEW s \in Sagas, Told(s), Alike(s)
    PROVE  Told(s)'
<1>1. ASSUME s \in DOMAIN active', s \notin stray' PROVE ActiveTold(s)'
    <2> DEFINE c == active[s].current
    <2>1. s \in DOMAIN active /\ active'[s] = active[s] /\ ActiveTold(s) /\ c \in Nat
        BY <1>1, InstanceFacts DEF Told, Alike
    <2>2. active'[s].current = c /\ (Open(s)' <=> Open(s))
        BY <1>1, <2>1 DEF Open
    <2>3. /\ s \in waiting' => Open(s)
          /\ \A n \in Nat : Asked(s, "do", n)' => n <= c
          /\ Asked(s, "do", c)' => s \in waiting' \/ ~Open(s)
          /\ \A n \in Nat : n < c => <<s, n>> \in done'
          /\ \A n \in Nat : Asked(s, "undo", n)' <=> ~Open(s) /\ n < c
        BY <2>1 DEF ActiveTold, Alike, Kinds
    <2>4. \A ok \in BOOLEAN : Answered(s, "do", c, ok)' =>
              <<s, c, "do", ok>> \in replies' \/ (~ok /\ ~Open(s))
        BY <2>1 DEF ActiveTold, Alike
    <2> QED BY <2>2, <2>3, <2>4 DEF ActiveTold
<1>2. ASSUME s \in Known' \ DOMAIN active', s \notin stray' PROVE CompletedTold(s)'
    <2>1. CompletedTold(s)
        BY <1>2 DEF Told, Alike
    <2> QED BY <2>1 DEF CompletedTold, Alike, Kinds
<1>3. ASSUME s \notin Known' PROVE Unasked(s)'
    <2>1. Unasked(s)
        BY <1>3 DEF Told, Alike
    <2> QED BY <2>1 DEF Unasked, Alike
<1> QED BY <1>1, <1>2, <1>3 DEF Told

(* A step that neither asks nor answers keeps what is told. *)
LEMMA StillTold ==
    ASSUME OrderInv, SagaInv, Executed',
           UNCHANGED <<active, completed, waiting, replies, done, undone, stray>>,
           \A u, j, n : Asked(u, j, n)' <=> Asked(u, j, n),
           \A u, j, n, ok : Answered(u, j, n, ok)' <=> Answered(u, j, n, ok)
    PROVE  SagaInv'
<1>1. Truthful'
    BY DEF SagaInv, Truthful
<1>2. ASSUME NEW s \in Sagas PROVE Told(s)'
    <2>1. Known' = Known
        BY DEF Known
    <2>2. Alike(s)
        BY <2>1 DEF Alike
    <2> QED BY <2>2, ToldKept DEF SagaInv
<1> QED BY <1>1, <1>2 DEF SagaInv

(* The publisher publishes, and the participant answers. *)
LEMMA ToldPublish ==
    ASSUME OrderInv, SagaInv, NEW k \in DOMAIN outbox, Publish(k)
    PROVE  SagaInv'
<1> DEFINE m == outbox[k]
<1>1. /\ UNCHANGED <<active, completed, outbox, waiting, stray>> /\ sending' = k
      /\ SagaTypeOK /\ Executed /\ Truthful
    BY DEF Publish, OrderInv, SagaInv
<1>2. m.saga \in Sagas /\ m.step \in Nat /\ m.kind \in Kinds /\ k \in Nat
    BY <1>1, MessageType
<1>3. PICK ok \in BOOLEAN :
         /\ executed' = executed \cup {<<k, ok>>}
         /\ replies' = replies \cup {<<m.saga, m.step, m.kind, ok>>}
         /\ done' = IF m.kind = "do" /\ ok THEN done \cup {<<m.saga, m.step>>} ELSE done
         /\ undone' = IF m.kind = "undo" THEN undone \cup {<<m.saga, m.step>>} ELSE undone
         /\ \/ <<k, ok>> \in executed
            \/ /\ \A e \in executed : e[1] # k
               /\ m.kind = "undo" => ok
    BY <1>1, PublishFacts
<1>4. (m.kind = "undo" => ok) /\ \A e \in executed : e[1] = k => e[2] = ok
    BY <1>1, <1>3 DEF Executed
<1>5. Executed'
    <2>1. \A e \in executed' : e \in executed \/ e = <<k, ok>>
        BY <1>3
    <2>2. \A e \in executed' : e[1] \in DOMAIN outbox
        BY <1>1, <2>1 DEF Executed
    <2>3. \A e, f \in executed' : e[1] = f[1] => e[2] = f[2]
        BY <1>1, <1>4, <2>1 DEF Executed
    <2>4. \A e \in executed' : outbox[e[1]].kind = "undo" => e[2]
        BY <1>1, <1>4, <2>1 DEF Executed
    <2>5. \E e \in executed' : e[1] = k
        BY <1>3
    <2>6. \A j \in DOMAIN outbox : outbox[j].status = "Published" => \E e \in executed' : e[1] = j
        BY <1>1, <1>3 DEF Executed
    <2> QED BY <1>1, <2>2, <2>3, <2>4, <2>5, <2>6 DEF Executed
<1>6. \A u, j, n : Asked(u, j, n)' <=> Asked(u, j, n)
    BY <1>1 DEF Asked, Asks
<1>7. ASSUME NEW u, NEW j, NEW n, NEW b
      PROVE  Answered(u, j, n, b)' <=>
                Answered(u, j, n, b) \/ (u = m.saga /\ j = m.kind /\ n = m.step /\ b = ok)
    BY <1>1, <1>3 DEF Answered, Asks
<1>8. Truthful'
    <2>1. ASSUME NEW u \in Sagas, NEW n \in Nat
          PROVE  <<u, n>> \in done' <=> Answered(u, "do", n, TRUE)'
        <3>1. <<u, n>> \in done' <=> \/ <<u, n>> \in done
                                     \/ m.kind = "do" /\ ok /\ u = m.saga /\ n = m.step
            BY <1>3
        <3>2. <<u, n>> \in done <=> Answered(u, "do", n, TRUE)
            BY <1>1 DEF Truthful
        <3> QED BY <1>7, <3>1, <3>2
    <2>2. ASSUME NEW u \in Sagas, NEW n \in Nat
          PROVE  <<u, n>> \in undone' <=> Answered(u, "undo", n, TRUE)'
        <3>1. <<u, n>> \in undone' <=> \/ <<u, n>> \in undone
                                       \/ m.kind = "undo" /\ u = m.saga /\ n = m.step
            BY <1>3
        <3>2. <<u, n>> \in undone <=> Answered(u, "undo", n, TRUE)
            BY <1>1 DEF Truthful
        <3> QED BY <1>4, <1>7, <3>1, <3>2
    <2>3. ASSUME NEW u \in Sagas, NEW n \in Nat, NEW j \in Kinds, NEW b \in BOOLEAN,
                 <<u, n, j, b>> \in replies'
          PROVE  Answered(u, j, n, b)'
        <3>1. \/ <<u, n, j, b>> \in replies
              \/ u = m.saga /\ n = m.step /\ j = m.kind /\ b = ok
            BY <1>3, <2>3
        <3>2. <<u, n, j, b>> \in replies => Answered(u, j, n, b)
            BY <1>1 DEF Truthful
        <3> QED BY <1>7, <3>1, <3>2
    <2> QED BY <2>1, <2>2, <2>3 DEF Truthful
<1>9. ASSUME NEW s \in Sagas PROVE Told(s)'
    <2>1. Known' = Known
        BY <1>1 DEF Known
    <2>2. \A n \in Nat, b \in BOOLEAN : Answered(s, "do", n, b)' =>
             Answered(s, "do", n, b) \/ <<s, n, "do", b>> \in replies'
        BY <1>3, <1>7
    <2>3. /\ \A n \in Nat : <<s, n>> \in done => <<s, n>> \in done'
          /\ \A n \in Nat, b \in BOOLEAN :
                <<s, n, "do", b>> \in replies => <<s, n, "do", b>> \in replies'
        BY <1>3
    <2>4. Alike(s)
        BY <1>1, <1>6, <2>1, <2>2, <2>3 DEF Alike
    <2> QED BY <2>4, ToldKept DEF SagaInv
<1> QED BY <1>5, <1>8, <1>9 DEF SagaInv

(* The publisher marks a message, fails or dies. *)
LEMMA ToldMark ==
    ASSUME OrderInv, SagaInv,
           MarkPublished \/ PublisherCrashes \/ \E k \in DOMAIN outbox : PublishFails(k)
    PROVE  SagaInv'
<1> USE DEF OrderInv
<1>1. Executed
    BY DEF SagaInv
<1>2. CASE PublisherCrashes
    <2>1. /\ UNCHANGED <<active, completed, outbox, waiting, replies, executed, done, undone, stray>>
          /\ sending' = 0
        BY <1>2 DEF PublisherCrashes, history
    <2>2. /\ \A u, j, n : Asked(u, j, n)' <=> Asked(u, j, n)
          /\ \A u, j, n, ok : Answered(u, j, n, ok)' <=> Answered(u, j, n, ok)
        BY <2>1 DEF Asked, Answered, Asks
    <2>3. Executed'
        BY <1>1, <2>1 DEF Executed
    <2> QED BY <2>1, <2>2, <2>3, StillTold
<1>3. ASSUME NEW k \in DOMAIN outbox, NEW status \in {"Published", "Failed"},
             \/ outbox' = [outbox EXCEPT ![k].status = status]
             \/ outbox' = [outbox EXCEPT ![k].status = status, ![k].retries = @ + 1],
             UNCHANGED <<active, completed, waiting, replies, executed, done, undone, stray>>,
             status = "Published" => \E e \in executed : e[1] = k,
             sending' \in {0, sending}
      PROVE  SagaInv'
    <2>1. Relabels /\ \A j \in DOMAIN outbox :
                          outbox'[j].status = IF j = k THEN status ELSE outbox[j].status
        BY <1>3, RelabelFacts
    <2>2. /\ \A u, j, n : Asked(u, j, n)' <=> Asked(u, j, n)
          /\ \A u, j, n, ok : Answered(u, j, n, ok)' <=> Answered(u, j, n, ok)
        BY <1>3, <2>1, RelabelledAsked
    <2>3. /\ \A e \in executed : e[1] \in DOMAIN outbox'
          /\ \A e \in executed : outbox'[e[1]].kind = "undo" => e[2]
          /\ \A j \in DOMAIN outbox' : outbox'[j].status = "Published" => \E e \in executed : e[1] = j
        BY <1>1, <1>3, <2>1 DEF Executed, Relabels
    <2>4. Executed'
        BY <1>1, <1>3, <2>3 DEF Executed
    <2> QED BY <1>3, <2>2, <2>4, StillTold
<1>4. CASE MarkPublished
    <2>1. sending \in DOMAIN outbox /\ \E e \in executed : e[1] = sending
        BY <1>1, <1>4 DEF MarkPublished, SagaTypeOK, Executed
    <2>2. /\ outbox' = [outbox EXCEPT ![sending].status = "Published"] /\ sending' = 0
          /\ UNCHANGED <<active, completed, waiting, replies, executed, done, undone, stray>>
        BY <1>4 DEF MarkPublished, history
    <2> QED BY <1>3, <2>1, <2>2
<1>5. ASSUME NEW k \in DOMAIN outbox, PublishFails(k) PROVE SagaInv'
    <2>1. /\ outbox' = [outbox EXCEPT ![k].status = "Failed", ![k].retries = @ + 1]
          /\ sending' = sending
          /\ UNCHANGED <<active, completed, waiting, replies, executed, done, undone, stray>>
        BY <1>5 DEF PublishFails, history
    <2> QED BY <1>3, <2>1
<1> QED BY <1>2, <1>4, <1>5

(* A step of saga s alone, which answers nothing. *)
Elsewhere(s) ==
    /\ \A u \in Sagas \ {s} :
          /\ u \in DOMAIN active' <=> u \in DOMAIN active
          /\ u \in DOMAIN active => active'[u] = active[u]
          /\ u \in Known' <=> u \in Known
          /\ u \in waiting' <=> u \in waiting
          /\ u \notin stray' => u \notin stray
    /\ \A u \in Sagas \ {s}, kind \in Kinds, n \in Nat : Asked(u, kind, n)' <=> Asked(u, kind, n)
    /\ \A u, j, n, ok : Answered(u, j, n, ok)' <=> Answered(u, j, n, ok)
    /\ replies' \subseteq replies
    /\ \A r \in replies : r[1] # s => r \in replies'
    /\ UNCHANGED <<done, undone>>

(* It leaves the other sagas alone. *)
LEMMA OthersTold ==
    ASSUME OrderInv, SagaInv, Executed', NEW s \in Sagas, Elsewhere(s), Told(s)'
    PROVE  SagaInv'
<1>1. Truthful'
    <2>1. /\ \A u \in Sagas, c \in Nat : <<u, c>> \in done' <=> Answered(u, "do", c, TRUE)'
          /\ \A u \in Sagas, c \in Nat : <<u, c>> \in undone' <=> Answered(u, "undo", c, TRUE)'
        BY DEF SagaInv, Truthful, Elsewhere
    <2>2. \A u \in Sagas, c \in Nat, kind \in Kinds, ok \in BOOLEAN :
             <<u, c, kind, ok>> \in replies' => Answered(u, kind, c, ok)'
        BY DEF SagaInv, Truthful, Elsewhere
    <2> QED BY <2>1, <2>2 DEF Truthful
<1>2. ASSUME NEW u \in Sagas, u # s PROVE Told(u)'
    <2>1. /\ u \in DOMAIN active' <=> u \in DOMAIN active
          /\ u \in DOMAIN active => active'[u] = active[u]
          /\ u \in Known' <=> u \in Known
          /\ u \in waiting' <=> u \in waiting
          /\ u \notin stray' => u \notin stray
          /\ \A kind \in Kinds, n \in Nat : Asked(u, kind, n)' <=> Asked(u, kind, n)
        BY <1>2 DEF Elsewhere
    <2>2. \A n \in Nat, ok \in BOOLEAN :
             <<u, n, "do", ok>> \in replies => <<u, n, "do", ok>> \in replies'
        BY <1>2 DEF Elsewhere
    <2>3. /\ \A n \in Nat : <<u, n>> \in done => <<u, n>> \in done'
          /\ \A n \in Nat, ok \in BOOLEAN : Answered(u, "do", n, ok)' => Answered(u, "do", n, ok)
        BY DEF Elsewhere
    <2>4. Alike(u)
        BY <2>1, <2>2, <2>3 DEF Alike
    <2> QED BY <2>4, ToldKept DEF SagaInv
<1> QED BY <1>1, <1>2 DEF SagaInv

(* What was answered was asked for. *)
LEMMA AnsweredAsked ==
    ASSUME NEW s, NEW kind, NEW n, NEW ok, Answered(s, kind, n, ok)
    PROVE  Asked(s, kind, n)
BY DEF Answered, Asked

(* A saga starts. *)
LEMMA ToldStart ==
    ASSUME OrderInv, SagaInv, NEW s \in Sagas, Start(s)
    PROVE  SagaInv'
<1>1. /\ s \notin Ids /\ s \notin DOMAIN active /\ 0 < Steps[s] /\ Updates(s, "Pending", 0)
      /\ UNCHANGED <<completed, outbox, waiting, sending, replies, executed, done, undone, stray>>
    BY StartFacts DEF Start, history
<1>2. Known' = Known \cup {s}
    BY <1>1, UpdateKeeps
<1>3. /\ \A u, j, n : Asked(u, j, n)' <=> Asked(u, j, n)
      /\ \A u, j, n, ok : Answered(u, j, n, ok)' <=> Answered(u, j, n, ok)
    BY <1>1 DEF Asked, Answered, Asks
<1>4. Executed'
    BY <1>1 DEF SagaInv, Executed
<1>5. Elsewhere(s)
    BY <1>1, <1>2, <1>3 DEF Elsewhere, Updates
<1>6. /\ s \in DOMAIN active' /\ active'[s].current = 0 /\ active'[s].status = "Pending"
      /\ s \notin waiting'
    BY <1>1 DEF Updates, OrderInv, SagaTypeOK
<1>7. Open(s)'
    BY <1>6 DEF Open
<1>8. \A j \in Kinds, n \in Nat : ~Asked(s, j, n)'
    BY <1>1, <1>3 DEF SagaInv, Told, Unasked, Known, Ids
<1>9. \A n \in Nat, ok \in BOOLEAN : ~Answered(s, "do", n, ok)'
    BY <1>3, <1>8, AnsweredAsked DEF Kinds
<1>10. ActiveTold(s)'
    BY <1>6, <1>7, <1>8, <1>9 DEF ActiveTold, Kinds
<1>11. Told(s)'
    BY <1>2, <1>6, <1>10 DEF Told
<1> QED BY <1>4, <1>5, <1>11, OthersTold

(* The next action is handed out. *)
LEMMA ToldNextAction ==
    ASSUME OrderInv, SagaInv, NEW s \in Sagas, NextAction(s)
    PROVE  SagaInv'
<1> DEFINE c == active[s].current
<1>1. /\ s \in DOMAIN active /\ Open(s) /\ outbox' = Append(outbox, Message(s, c, "do"))
      /\ s \notin waiting /\ waiting' = waiting \cup {s}
      /\ UNCHANGED <<active, completed, sending, replies, executed, done, undone, stray>>
    BY DEF NextAction, Open, history
<1>2. c \in Nat
    BY <1>1, InstanceFacts
<1>3. Grows(s, "do", {c})
    BY <1>1, <1>2, EnqueueGrows DEF Kinds, OrderInv
<1>4. /\ \A u, j, n : Asked(u, j, n)' <=> Asked(u, j, n) \/ (u = s /\ j = "do" /\ n = c)
      /\ \A u, j, n, ok : Answered(u, j, n, ok)' <=> Answered(u, j, n, ok)
      /\ Executed'
    BY <1>1, <1>3, GrownAsked DEF OrderInv, SagaInv
<1>5. Known' = Known /\ s \in Known
    BY <1>1 DEF Known
<1>6. Elsewhere(s)
    BY <1>1, <1>4, <1>5 DEF Elsewhere
<1>7. ASSUME s \notin stray PROVE ActiveTold(s)'
    <2>1. ActiveTold(s)
        BY <1>1, <1>7 DEF SagaInv, Told
    <2>2. (Open(s)' <=> Open(s)) /\ active'[s].current = c
        BY <1>1 DEF Open
    <2>3. /\ \A n \in Nat : Asked(s, "do", n)' => n <= c
          /\ \A n \in Nat : Asked(s, "undo", n)' <=> ~Open(s) /\ n < c
          /\ \A n \in Nat : n < c => <<s, n>> \in done'
          /\ \A ok \in BOOLEAN : Answered(s, "do", c, ok)' =>
                <<s, c, "do", ok>> \in replies' \/ (~ok /\ ~Open(s))
        BY <1>1, <1>2, <1>4, <2>1 DEF ActiveTold
    <2> QED BY <1>1, <2>2, <2>3 DEF ActiveTold
<1>8. Told(s)'
    BY <1>1, <1>5, <1>7 DEF Told
<1> QED BY <1>4, <1>6, <1>8, OthersTold

(* The compensations of a saga are complete. *)
LEMMA ToldCompensated ==
    ASSUME OrderInv, SagaInv, NEW s \in Sagas, s \in DOMAIN active,
           active[s].status = "Compensating", CompensationComplete(s)
    PROVE  SagaInv'
<1> DEFINE c == active[s].current
<1>1. /\ s \in DOMAIN active /\ active[s].status = "Compensating"
      /\ active' = [active EXCEPT ![s].status = "Failed"]
      /\ UNCHANGED <<completed, outbox, waiting, sending, replies, executed, done, undone, stray>>
    BY DEF CompensationComplete, history
<1>2. Updates(s, "Failed", c)
    BY <1>1, StatusFacts DEF Statuses
<1>3. /\ \A u, j, n : Asked(u, j, n)' <=> Asked(u, j, n)
      /\ \A u, j, n, ok : Answered(u, j, n, ok)' <=> Answered(u, j, n, ok)
    BY <1>1 DEF Asked, Answered, Asks
<1>4. Executed'
    BY <1>1 DEF SagaInv, Executed
<1>5. DOMAIN active' = DOMAIN active /\ Known' = Known /\ s \in Known
    BY <1>1, <1>2 DEF Known, Updates
<1>6. Elsewhere(s)
    BY <1>1, <1>2, <1>3, <1>5 DEF Elsewhere, Updates
<1>7. ~Open(s) /\ ~Open(s)' /\ active'[s].current = c /\ s \in DOMAIN active'
    BY <1>1, <1>2 DEF Open, Updates
<1>8. ASSUME s \notin stray PROVE ActiveTold(s)'
    <2>1. ActiveTold(s)
        BY <1>1, <1>8 DEF SagaInv, Told
    <2> QED BY <1>1, <1>3, <1>7, <2>1 DEF ActiveTold
<1>9. Told(s)'
    BY <1>1, <1>5, <1>7, <1>8 DEF Told
<1> QED BY <1>4, <1>6, <1>9, OthersTold

(* The orchestrator takes a step for failed: if it was the open one, its   *)
(* answer is gone and was a failure, or is still on its way.               *)
LEMMA ToldFailed ==
    ASSUME OrderInv, SagaInv, NEW s \in DOMAIN active, StepFailed(s),
           waiting' = waiting \ {s}, UNCHANGED <<sending, executed, done, undone>>,
           replies' \subseteq replies, \A r \in replies : r[1] # s => r \in replies',
           stray \subseteq stray', stray' \subseteq stray \cup {s},
           s \notin stray' => Open(s),
           s \notin stray' => \A n \in Nat :
              <<s, n, "do", TRUE>> \in replies => <<s, n, "do", TRUE>> \in replies'
    PROVE  SagaInv'
<1>0. PICK c \in Nat : c = active[s].current
    BY InstanceFacts
<1>1. /\ DOMAIN active' = DOMAIN active /\ Known' = Known /\ UNCHANGED completed
      /\ Updates(s, "Compensating", c) /\ Grows(s, "undo", 0 .. c - 1)
    BY <1>0, OrderFailed
<1>2. s \in Sagas /\ s \in Known
    BY InstanceFacts DEF Known
<1>3. /\ \A u, j, n : Asked(u, j, n)' <=>
            Asked(u, j, n) \/ (u = s /\ j = "undo" /\ n \in 0 .. c - 1)
      /\ \A u, j, n, ok : Answered(u, j, n, ok)' <=> Answered(u, j, n, ok)
      /\ Executed'
    BY <1>1, GrownAsked DEF OrderInv, SagaInv
<1>4. Elsewhere(s)
    BY <1>1, <1>3 DEF Elsewhere, Updates
<1>5. ~Open(s)' /\ active'[s].current = c /\ s \in DOMAIN active' /\ s \notin waiting'
    BY <1>1 DEF Open, Updates
<1>6. ASSUME s \notin stray' PROVE ActiveTold(s)'
    <2>1. ActiveTold(s) /\ Open(s)
        BY <1>2, <1>6 DEF SagaInv, Told
    <2>2. ASSUME NEW n \in Nat PROVE Asked(s, "undo", n)' <=> n < c
        <3>1. ~Asked(s, "undo", n) /\ (n \in 0 .. c - 1 <=> n < c)
            BY <1>0, <2>1 DEF ActiveTold
        <3> QED BY <1>3, <3>1
    <2>3. \A n \in Nat : Asked(s, "do", n)' => n <= c
        BY <1>0, <1>3, <2>1 DEF ActiveTold
    <2>4. \A n \in Nat : n < c => <<s, n>> \in done'
        BY <1>0, <2>1 DEF ActiveTold
    <2>5. ASSUME NEW ok \in BOOLEAN, Answered(s, "do", c, ok)'
          PROVE  <<s, c, "do", ok>> \in replies' \/ ~ok
        <3>1. Answered(s, "do", c, ok)
            BY <1>3, <2>5
        <3>2. <<s, c, "do", ok>> \in replies
            BY <1>0, <2>1, <3>1 DEF ActiveTold
        <3> QED BY <1>6, <3>2
    <2> QED BY <1>5, <2>2, <2>3, <2>4, <2>5 DEF ActiveTold
<1>7. Told(s)'
    BY <1>1, <1>2, <1>5, <1>6 DEF Told
<1> QED BY <1>2, <1>3, <1>4, <1>7, OthersTold

(* The orchestrator takes a step for succeeded: if it was the open one, it *)
(* was done.                                                               *)
LEMMA ToldSucceeded ==
    ASSUME OrderInv, SagaInv, NEW s \in DOMAIN active, StepSucceeded(s),
           waiting' = waiting \ {s}, UNCHANGED <<outbox, sending, executed, done, undone>>,
           replies' \subseteq replies, \A r \in replies : r[1] # s => r \in replies',
           stray \subseteq stray', stray' \subseteq stray \cup {s},
           s \notin stray' => Open(s) /\ <<s, active[s].current>> \in done
    PROVE  SagaInv'
<1>1. PICK c \in Nat : c = active[s].current
    BY InstanceFacts
<1>2. /\ DOMAIN active \ {s} \subseteq DOMAIN active' /\ DOMAIN active' \subseteq DOMAIN active
      /\ \A u \in DOMAIN active \ {s} : active'[u] = active[u]
      /\ Known' = Known
    BY OrderSucceeded
<1>3. s \in Sagas /\ s \in Known /\ Steps[s] \in Nat
    BY InstanceFacts DEF Known
<1>4. /\ \A u, j, n : Asked(u, j, n)' <=> Asked(u, j, n)
      /\ \A u, j, n, ok : Answered(u, j, n, ok)' <=> Answered(u, j, n, ok)
    BY DEF Asked, Answered, Asks
<1>5. Executed'
    BY DEF SagaInv, Executed
<1>6. Elsewhere(s)
    BY <1>2, <1>4 DEF Elsewhere
<1>7. ASSUME s \notin stray' PROVE Told(s)'
    <2>1. ActiveTold(s) /\ Open(s) /\ <<s, c>> \in done
        BY <1>1, <1>3, <1>7 DEF SagaInv, Told
    <2>2. /\ \A n \in Nat : Asked(s, "do", n)' => n <= c
          /\ \A n \in Nat : n <= c => <<s, n>> \in done'
          /\ \A n \in Nat : ~Asked(s, "undo", n)'
        BY <1>1, <1>4, <2>1 DEF ActiveTold
    <2>3. CASE c + 1 < Steps[s] /\ Updates(s, "InProgress", c + 1)
        <3>1. s \in DOMAIN active' /\ active'[s].current = c + 1 /\ active'[s].status = "InProgress"
            BY <2>3 DEF Updates
        <3>2. Open(s)' /\ s \notin waiting'
            BY <3>1 DEF Open
        <3>3. ~Asked(s, "do", c + 1)'
            BY <2>2
        <3>4. \A ok : ~Answered(s, "do", c + 1, ok)'
            BY <1>4, <3>3, AnsweredAsked
        <3>5. /\ \A n \in Nat : Asked(s, "do", n)' => n <= c + 1
              /\ \A n \in Nat : n < c + 1 => <<s, n>> \in done'
            BY <2>2
        <3>6. ActiveTold(s)'
            BY <2>2, <3>1, <3>2, <3>3, <3>4, <3>5 DEF ActiveTold
        <3> QED BY <1>2, <1>3, <3>1, <3>6 DEF Told
    <2>4. CASE c + 1 = Steps[s] /\ DOMAIN active' = DOMAIN active \ {s}
        <3>1. \A n \in Nat : n < Steps[s] <=> n <= c
            BY <2>4
        <3>2. CompletedTold(s)'
            BY <2>2, <3>1 DEF CompletedTold
        <3> QED BY <1>2, <1>3, <2>4, <3>2 DEF Told
    <2> QED BY <1>1, <2>3, <2>4, SucceededFacts
<1>8. ASSUME s \in stray' PROVE Told(s)'
    BY <1>2, <1>3, <1>8 DEF Told
<1> QED BY <1>3, <1>5, <1>6, <1>7, <1>8, OthersTold

(* An answer arrives. *)
LEMMA ToldAnswer ==
    ASSUME OrderInv, SagaInv, NEW r \in replies, Answer(r) \/ DropAnswer(r)
    PROVE  SagaInv'
<1>0. /\ r = <<r[1], r[2], r[3], r[4]>>
      /\ r[1] \in Sagas /\ r[2] \in Nat /\ r[3] \in Kinds /\ r[4] \in BOOLEAN
    BY DEF OrderInv, SagaTypeOK
<1>1. PICK s \in Sagas, c \in Nat, kind \in Kinds, ok \in BOOLEAN : r = <<s, c, kind, ok>>
    BY <1>0
<1>2. r[1] = s /\ r[2] = c /\ r[3] = kind /\ r[4] = ok
    BY <1>1
<1>3. CASE DropAnswer(r)
    <2>1. /\ UNCHANGED <<active, completed, outbox, waiting, sending, executed, done, undone, stray>>
          /\ replies' = replies \ {r} /\ kind = "undo"
        BY <1>2, <1>3 DEF DropAnswer, history
    <2>2. /\ \A u, j, n : Asked(u, j, n)' <=> Asked(u, j, n)
          /\ \A u, j, n, b : Answered(u, j, n, b)' <=> Answered(u, j, n, b)
        BY <2>1 DEF Asked, Answered, Asks
    <2>3. Executed' /\ Known' = Known
        BY <2>1 DEF SagaInv, Executed, Known
    <2>4. Elsewhere(s)
        BY <1>2, <2>1, <2>2, <2>3 DEF Elsewhere
    <2>5. \A n \in Nat, b \in BOOLEAN : <<s, n, "do", b>> \in replies => <<s, n, "do", b>> \in replies'
        BY <1>1, <2>1
    <2>6. Alike(s)
        BY <2>1, <2>2, <2>3, <2>5 DEF Alike
    <2>7. Told(s)'
        BY <2>6, ToldKept DEF SagaInv
    <2> QED BY <2>3, <2>4, <2>7, OthersTold
<1>4. CASE Answer(r)
    <2> DEFINE expected == s \in waiting /\ Open(s) /\ active[s].current = c
    <2>1. /\ kind = "do" /\ replies' = replies \ {r} /\ waiting' = waiting \ {s}
          /\ stray' = IF expected THEN stray ELSE stray \cup {s}
          /\ UNCHANGED <<sending, executed, done, undone>>
        BY <1>2, <1>4 DEF Answer
    <2>2. IF s \notin DOMAIN active THEN UNCHANGED <<active, completed, outbox>>
          ELSE IF ok THEN StepSucceeded(s) /\ UNCHANGED outbox
          ELSE StepFailed(s)
        BY <1>2, <1>4 DEF Answer
    <2>3. /\ replies' \subseteq replies /\ \A q \in replies : q[1] # s => q \in replies'
          /\ stray \subseteq stray' /\ stray' \subseteq stray \cup {s}
          /\ s \notin stray' => expected
        BY <1>2, <2>1
    <2>4. CASE s \notin DOMAIN active
        <3>1. UNCHANGED <<active, completed, outbox>> /\ s \in stray'
            BY <2>1, <2>2, <2>4 DEF Open
        <3>2. /\ \A u, j, n : Asked(u, j, n)' <=> Asked(u, j, n)
              /\ \A u, j, n, b : Answered(u, j, n, b)' <=> Answered(u, j, n, b)
            BY <2>1, <3>1 DEF Asked, Answered, Asks
        <3>3. Executed' /\ Known' = Known
            BY <2>1, <3>1 DEF SagaInv, Executed, Known
        <3>4. Elsewhere(s)
            BY <2>1, <2>3, <3>1, <3>2, <3>3 DEF Elsewhere
        <3>5. s \notin Known => Unasked(s)'
            BY <3>2 DEF SagaInv, Told, Unasked
        <3>6. Told(s)'
            BY <3>1, <3>3, <3>5 DEF Told
        <3> QED BY <3>3, <3>4, <3>6, OthersTold
    <2>5. CASE s \in DOMAIN active /\ ok
        <3>1. StepSucceeded(s) /\ UNCHANGED outbox
            BY <2>2, <2>5
        <3>2. <<s, c>> \in done
            BY <1>1, <2>1, <2>5 DEF SagaInv, Truthful
        <3>3. s \notin stray' => Open(s) /\ <<s, active[s].current>> \in done
            BY <2>3, <3>2
        <3> HIDE DEF expected
        <3> QED BY <2>1, <2>3, <2>5, <3>1, <3>3, ToldSucceeded
    <2>6. CASE s \in DOMAIN active /\ ~ok
        <3>1. StepFailed(s)
            BY <2>2, <2>6
        <3>2. s \notin stray' => Open(s)
            BY <2>3
        <3>3. \A n \in Nat : <<s, n, "do", TRUE>> \in replies => <<s, n, "do", TRUE>> \in replies'
            BY <1>1, <2>1, <2>6
        <3> HIDE DEF expected
        <3> QED BY <2>1, <2>3, <2>6, <3>1, <3>2, <3>3, ToldFailed
    <2> QED BY <2>4, <2>5, <2>6
<1> QED BY <1>3, <1>4

(* The time of a step is over. *)
LEMMA ToldExpire ==
    ASSUME OrderInv, SagaInv, NEW s \in Sagas, Expire(s)
    PROVE  SagaInv'
<1>1. /\ s \in DOMAIN active /\ StepFailed(s) /\ waiting' = waiting \ {s}
      /\ stray' = IF Open(s) THEN stray ELSE stray \cup {s}
      /\ UNCHANGED <<sending, replies, executed, done, undone>>
    BY DEF Expire
<1>2. stray \subseteq stray' /\ stray' \subseteq stray \cup {s} /\ (s \notin stray' => Open(s))
    BY <1>1
<1> QED BY <1>1, <1>2, ToldFailed

(* At the start nothing was asked for. *)
LEMMA ToldInit == SagaInit => SagaInv
<1> SUFFICES ASSUME SagaInit PROVE SagaInv
    OBVIOUS
<1>1. /\ DOMAIN active = {} /\ DOMAIN outbox = {} /\ DOMAIN completed = {} /\ sending = 0
      /\ replies = {} /\ executed = {} /\ done = {} /\ undone = {}
    BY DEF SagaInit
<1>2. \A s, j, n : ~Asked(s, j, n) /\ \A ok : ~Answered(s, j, n, ok)
    BY <1>1 DEF Asked, Answered
<1>3. Executed /\ Truthful
    BY <1>1, <1>2 DEF Executed, Truthful
<1>4. Known = {}
    BY <1>1 DEF Known
<1>5. \A s \in Sagas : Told(s)
    BY <1>1, <1>2, <1>4 DEF Told, Unasked
<1> QED BY <1>3, <1>5 DEF SagaInv

(* Every step keeps the sagas told. *)
LEMMA ToldStep == OrderInv /\ SagaInv /\ [SagaNext]_sagaVars => SagaInv'
<1> SUFFICES ASSUME OrderInv, SagaInv, [SagaNext]_sagaVars PROVE SagaInv'
    OBVIOUS
<1>1. CASE UNCHANGED sagaVars
    <2>1. /\ UNCHANGED <<active, completed, outbox, waiting, sending, replies, executed,
                         done, undone, stray>>
        BY <1>1 DEF sagaVars
    <2>2. /\ \A u, j, n : Asked(u, j, n)' <=> Asked(u, j, n)
          /\ \A u, j, n, ok : Answered(u, j, n, ok)' <=> Answered(u, j, n, ok)
        BY <2>1 DEF Asked, Answered, Asks
    <2>3. Executed'
        BY <2>1 DEF SagaInv, Executed
    <2> QED BY <2>1, <2>2, <2>3, StillTold
<1>2. ASSUME NEW s \in Sagas, Start(s) \/ Drive(s) \/ Expire(s) PROVE SagaInv'
    BY <1>2, ToldStart, ToldNextAction, ToldCompensated, ToldExpire DEF Drive
<1> QED BY <1>1, <1>2, ToldPublish, ToldMark, ToldAnswer DEF SagaNext, Send

(* A saga that was reported compensated is: the driver reports it when     *)
(* every compensation was executed.                                        *)
FailedUndone == \A s \in DOMAIN active : active[s].status = "Failed" => Undone(s)

(* A step gives at most saga s another state, which is not Failed, and new *)
(* compensations.                                                          *)
Resumes(s) ==
    /\ s \in DOMAIN active' => active'[s].status # "Failed"
    /\ \A u \in DOMAIN active' \ {s} : u \in DOMAIN active /\ active'[u] = active[u]
Compensates(s) ==
    \A k \in DOMAIN outbox' :
       outbox'[k].kind = "undo" /\ outbox'[k].saga # s =>
          k \in DOMAIN outbox /\ outbox[k].kind = "undo" /\ outbox[k].saga = outbox'[k].saga

LEMMA UndoneMove ==
    ASSUME FailedUndone, NEW s, executed \subseteq executed', Resumes(s), Compensates(s)
    PROVE  FailedUndone'
<1> SUFFICES ASSUME NEW u \in DOMAIN active', active'[u].status = "Failed",
                    NEW k \in DOMAIN outbox', outbox'[k].saga = u, outbox'[k].kind = "undo"
             PROVE  <<k, TRUE>> \in executed'
    BY DEF FailedUndone, Undone, Undoing
<1>1. u # s /\ u \in DOMAIN active /\ active[u].status = "Failed"
    BY DEF Resumes
<1>2. k \in DOMAIN outbox /\ outbox[k].kind = "undo" /\ outbox[k].saga = u
    BY <1>1 DEF Compensates
<1> QED BY <1>1, <1>2 DEF FailedUndone, Undone, Undoing

(* A step leaves the sagas alone and adds no compensation. *)
LEMMA UndoneStill ==
    ASSUME FailedUndone, executed \subseteq executed', UNCHANGED active,
           \A k \in DOMAIN outbox' : outbox'[k].kind = "undo" =>
              k \in DOMAIN outbox /\ outbox[k].kind = "undo" /\ outbox[k].saga = outbox'[k].saga
    PROVE  FailedUndone'
<1> SUFFICES ASSUME NEW u \in DOMAIN active', active'[u].status = "Failed",
                    NEW k \in DOMAIN outbox', outbox'[k].saga = u, outbox'[k].kind = "undo"
             PROVE  <<k, TRUE>> \in executed'
    BY DEF FailedUndone, Undone, Undoing
<1> QED BY DEF FailedUndone, Undone, Undoing

LEMMA UndoneDrive ==
    ASSUME OrderInv, FailedUndone, NEW s \in Sagas, Start(s) \/ Drive(s) \/ Expire(s)
    PROVE  FailedUndone'
<1>1. CASE Start(s)
    <2>1. Updates(s, "Pending", 0) /\ UNCHANGED <<outbox, executed>> /\ s \notin DOMAIN active
        BY <1>1, StartFacts DEF Start, Known, OrderInv
    <2>2. Resumes(s)
        BY <2>1 DEF Updates, Resumes
    <2>3. Compensates(s)
        BY <2>1 DEF Compensates
    <2> QED BY <2>1, <2>2, <2>3, UndoneMove
<1>2. CASE NextAction(s)
    <2>1. /\ s \in DOMAIN active /\ outbox' = Append(outbox, Message(s, active[s].current, "do"))
          /\ UNCHANGED <<active, executed>>
        BY <1>2 DEF NextAction, Open
    <2>2. Grows(s, "do", {active[s].current})
        BY <2>1, EnqueueGrows, InstanceFacts DEF Kinds, OrderInv
    <2> QED BY <2>1, <2>2, UndoneStill DEF Grows, Asks
<1>3. CASE s \in DOMAIN active /\ Undone(s) /\ CompensationComplete(s)
    <2>1. /\ active' = [active EXCEPT ![s].status = "Failed"] /\ UNCHANGED <<outbox, executed>>
        BY <1>3 DEF CompensationComplete
    <2>2. DOMAIN active' = DOMAIN active /\ \A u \in DOMAIN active \ {s} : active'[u] = active[u]
        BY <2>1
    <2>3. \A u \in DOMAIN active : Undone(u)' <=> Undone(u)
        BY <2>1 DEF Undone, Undoing
    <2> QED BY <1>3, <2>2, <2>3 DEF FailedUndone
<1>4. CASE Expire(s)
    <2>1. s \in DOMAIN active /\ StepFailed(s) /\ UNCHANGED executed
        BY <1>4 DEF Expire
    <2>2. /\ Updates(s, "Compensating", active[s].current)
          /\ Grows(s, "undo", 0 .. active[s].current - 1)
        BY <2>1, OrderFailed
    <2>3. Resumes(s)
        BY <2>1, <2>2 DEF Updates, Resumes
    <2>4. Compensates(s)
        BY <2>2 DEF Grows, Asks, Compensates
    <2> QED BY <2>1, <2>3, <2>4, UndoneMove
<1> QED BY <1>1, <1>2, <1>3, <1>4 DEF Drive

LEMMA UndoneAnswer ==
    ASSUME OrderInv, FailedUndone, NEW r \in replies, Answer(r)
    PROVE  FailedUndone'
<1>1. PICK s : s = r[1]
    OBVIOUS
<1>2. UNCHANGED executed
    BY DEF Answer
<1>3. CASE s \notin DOMAIN active
    <2>1. UNCHANGED <<active, outbox>>
        BY <1>1, <1>3 DEF Answer
    <2> QED BY <1>2, <2>1, UndoneStill
<1>4. CASE s \in DOMAIN active /\ r[4]
    <2>1. StepSucceeded(s) /\ UNCHANGED outbox
        BY <1>1, <1>4 DEF Answer
    <2>2. Resumes(s)
        <3>1. PICK i : /\ i.status = "InProgress"
                       /\ \/ active' = Without(active, s)
                          \/ active' = Insert(active, s, i)
            <4>1. PICK i : i = [status |-> "InProgress", current |-> active[s].current + 1,
                                steps |-> Append(active[s].steps, active[s].current)]
                OBVIOUS
            <4> QED BY <2>1, <4>1 DEF StepSucceeded
        <3>2. CASE active' = Without(active, s)
            BY <3>2 DEF Without, Resumes
        <3>3. CASE active' = Insert(active, s, i)
            <4>1. /\ DOMAIN active' = DOMAIN active \cup {s} /\ active'[s] = i
                  /\ \A v \in DOMAIN active \ {s} : active'[v] = active[v]
                BY <3>3 DEF Insert
            <4>2. active'[s].status # "Failed"
                BY <3>1, <4>1
            <4> QED BY <4>1, <4>2 DEF Resumes
        <3> QED BY <3>1, <3>2, <3>3
    <2>3. Compensates(s)
        BY <2>1 DEF Compensates
    <2> QED BY <1>2, <2>2, <2>3, UndoneMove
<1>5. CASE s \in DOMAIN active /\ ~r[4]
    <2>1. StepFailed(s)
        BY <1>1, <1>5 DEF Answer
    <2>2. /\ Updates(s, "Compensating", active[s].current)
          /\ Grows(s, "undo", 0 .. active[s].current - 1)
        BY <1>5, <2>1, OrderFailed
    <2>3. Resumes(s)
        BY <1>5, <2>2 DEF Updates, Resumes
    <2>4. Compensates(s)
        BY <2>2 DEF Grows, Asks, Compensates
    <2> QED BY <1>2, <2>3, <2>4, UndoneMove
<1> QED BY <1>3, <1>4, <1>5

LEMMA UndoneStep == OrderInv /\ FailedUndone /\ [SagaNext]_sagaVars => FailedUndone'
<1> SUFFICES ASSUME OrderInv, FailedUndone, [SagaNext]_sagaVars PROVE FailedUndone'
    OBVIOUS
<1>1. ASSUME UNCHANGED <<active, outbox>>, executed \subseteq executed' PROVE FailedUndone'
    BY <1>1, UndoneStill
<1>2. ASSUME NEW k \in DOMAIN outbox, Publish(k) PROVE FailedUndone'
    BY <1>1, <1>2 DEF Publish
<1>3. ASSUME NEW k \in DOMAIN outbox, PublishFails(k) PROVE FailedUndone'
    <2>1. UNCHANGED <<active, executed>> /\ SagaTypeOK
        BY <1>3 DEF PublishFails, OrderInv
    <2>2. Relabels
        BY <1>3, <2>1, RelabelFacts DEF PublishFails
    <2> QED BY <2>1, <2>2, UndoneStill DEF Relabels
<1>4. CASE MarkPublished
    <2>1. sending \in DOMAIN outbox /\ UNCHANGED <<active, executed>> /\ SagaTypeOK
        BY <1>4 DEF MarkPublished, OrderInv, SagaTypeOK
    <2>2. Relabels
        BY <1>4, <2>1, RelabelFacts DEF MarkPublished
    <2> QED BY <2>1, <2>2, UndoneStill DEF Relabels
<1>5. CASE PublisherCrashes \/ \E r \in replies : DropAnswer(r)
    BY <1>1, <1>5 DEF PublisherCrashes, DropAnswer
<1>6. CASE UNCHANGED sagaVars
    BY <1>1, <1>6 DEF sagaVars
<1> QED BY <1>2, <1>3, <1>4, <1>5, <1>6, UndoneDrive, UndoneAnswer DEF SagaNext, Send

(* The steps of one saga in a set of sagas and steps. *)
LEMMA StepsOfFacts ==
    ASSUME NEW D, D \subseteq Sagas \X Nat, NEW s
    PROVE  \A n : n \in StepsOf(D, s) <=> n \in Nat /\ <<s, n>> \in D
<1>1. \A x \in D : x = <<x[1], x[2]>> /\ x[2] \in Nat
    OBVIOUS
<1>2. ASSUME NEW n, n \in StepsOf(D, s) PROVE n \in Nat /\ <<s, n>> \in D
    BY <1>1, <1>2 DEF StepsOf
<1>3. ASSUME NEW n, <<s, n>> \in D PROVE n \in StepsOf(D, s)
    <2>1. <<s, n>>[1] = s /\ <<s, n>>[2] = n
        OBVIOUS
    <2> QED BY <1>3, <2>1 DEF StepsOf
<1> QED BY <1>2, <1>3

(* "If any step fails, compensation runs in reverse order": for any sagas, *)
(* retries, refusals and crashes of the publisher, a saga that ended with  *)
(* no answer on the way has done every step and undone none, or has undone *)
(* exactly what it did, unless the orchestrator was told of something else *)
(* than its open step.                                                     *)
THEOREM AlwaysAllOrNothing == SagaSpec => []AllOrNothing
<1>1. OrderInv /\ SagaInv /\ FailedUndone => AllOrNothing
    <2> SUFFICES ASSUME OrderInv, SagaInv, FailedUndone, NEW s \in Known, s \notin stray,
                        \A r \in replies : r[1] # s
                 PROVE  IF s \in DOMAIN active
                        THEN active[s].status = "Failed" => StepsOf(done, s) = StepsOf(undone, s)
                        ELSE StepsOf(done, s) = 0 .. Steps[s] - 1 /\ StepsOf(undone, s) = {}
        BY DEF AllOrNothing
    <2>1. s \in Sagas /\ Steps[s] \in Nat
        <3>1. \A i \in DOMAIN completed : completed[i].id \in Sagas
            <4>1. \A i \in DOMAIN completed : completed[i] \in Records
                BY DEF OrderInv, SagaTypeOK
            <4> QED BY <4>1 DEF Records
        <3> QED BY <3>1, SagaAssumption DEF Known, OrderInv, SagaTypeOK
    <2>2. /\ \A n : n \in StepsOf(done, s) <=> n \in Nat /\ <<s, n>> \in done
          /\ \A n : n \in StepsOf(undone, s) <=> n \in Nat /\ <<s, n>> \in undone
        BY StepsOfFacts DEF OrderInv, SagaTypeOK
    <2>3. /\ \A n \in Nat : <<s, n>> \in done <=> Answered(s, "do", n, TRUE)
          /\ \A n \in Nat : <<s, n>> \in undone <=> Answered(s, "undo", n, TRUE)
        BY <2>1 DEF SagaInv, Truthful
    <2>4. CASE s \in DOMAIN active /\ active[s].status = "Failed"
        <3>1. PICK c \in Nat : c = active[s].current
            BY <2>4, InstanceFacts
        <3>2. ActiveTold(s) /\ ~Open(s)
            BY <2>1, <2>4 DEF SagaInv, Told, Open
        <3>3. ASSUME NEW n \in Nat PROVE <<s, n>> \in done <=> n < c
            <4>1. ASSUME <<s, n>> \in done PROVE n < c
                <5>1. Answered(s, "do", n, TRUE) /\ Asked(s, "do", n)
                    BY <2>3, <4>1, AnsweredAsked
                <5>2. n <= c
                    BY <3>1, <3>2, <5>1 DEF ActiveTold
                <5>3. n # c
                    BY <3>1, <3>2, <5>1 DEF ActiveTold
                <5> QED BY <5>2, <5>3
            <4> QED BY <3>1, <3>2, <4>1 DEF ActiveTold
        <3>4. ASSUME NEW n \in Nat PROVE <<s, n>> \in undone <=> n < c
            <4>1. Asked(s, "undo", n) <=> n < c
                BY <3>1, <3>2 DEF ActiveTold
            <4>2. ASSUME Asked(s, "undo", n) PROVE Answered(s, "undo", n, TRUE)
                <5>1. PICK k \in DOMAIN outbox : Asks(k, s, "undo", n)
                    BY <4>2 DEF Asked
                <5>2. outbox[k].saga = s /\ outbox[k].kind = "undo"
                    BY <5>1 DEF Asks
                <5>3. <<k, TRUE>> \in executed
                    BY <2>4, <5>2 DEF FailedUndone, Undone, Undoing
                <5> QED BY <5>1, <5>3 DEF Answered
            <4> QED BY <2>3, <4>1, <4>2, AnsweredAsked
        <3>5. \A n : n \in StepsOf(done, s) <=> n \in StepsOf(undone, s)
            BY <2>2, <3>3, <3>4
        <3>6. StepsOf(done, s) = StepsOf(undone, s)
            BY <3>5
        <3> QED BY <2>4, <3>6
    <2>5. CASE s \notin DOMAIN active
        <3>1. CompletedTold(s)
            BY <2>1, <2>5 DEF SagaInv, Told
        <3>2. ASSUME NEW n \in Nat
              PROVE  (<<s, n>> \in done <=> n < Steps[s]) /\ <<s, n>> \notin undone
            BY <2>3, <3>1, AnsweredAsked DEF CompletedTold
        <3>3. \A n : n \in 0 .. Steps[s] - 1 <=> n \in Nat /\ n < Steps[s]
            BY <2>1
        <3>4. StepsOf(undone, s) = {}
            BY <2>2, <3>2
        <3>5. \A n : n \in StepsOf(done, s) <=> n \in 0 .. Steps[s] - 1
            BY <2>2, <3>2, <3>3
        <3> QED BY <2>5, <3>4, <3>5
    <2> QED BY <2>4, <2>5
<1>2. SagaInit => FailedUndone
    BY DEF SagaInit, FailedUndone
<1>3. SagaSpec => [](OrderInv /\ SagaInv /\ FailedUndone)
    BY <1>2, OrderInit, OrderStep, ToldInit, ToldStep, UndoneStep, PTL DEF SagaSpec
<1> QED BY <1>1, <1>3, PTL

-------------------------------------------------------------------------------
(* The choreographed transfer. *)

EventTypes == {"Initiated", "Debited", "Credited", "DebitFailed", "CreditFailed"}
Events == [type : EventTypes, transfer : Transfers, at : Nat]

Places == {From[x] : x \in Transfers} \cup {To[x] : x \in Transfers}

(* A handler of the account service in progress. *)
Working == [at : {"read", "write", "mark"}, type : {"Initiated", "Debited"},
            transfer : Transfers, account : Places, balance : Int]

TypeOK ==
    /\ balances \in [DOMAIN Seeds -> Int]
    /\ processedDebits \subseteq Transfers /\ processedCredits \subseteq Transfers
    /\ bus \subseteq Events /\ clock \in Nat
    /\ work \in [Handlers -> {Idle} \cup Working]
    /\ refunds \in [Transfers -> Nat]
    /\ applied \subseteq bus
    /\ overlapped \in BOOLEAN

(* The events: their times tell them apart, and an event that says a       *)
(* transfer was debited or credited is true.                               *)
EventsTrue ==
    /\ \A e, f \in bus : e.at = f.at => e = f
    /\ \A e \in bus : e.at <= clock
    /\ \A e \in bus : e.type = "Debited" => e.transfer \in processedDebits
    /\ \A e \in bus : e.type = "Credited" => e.transfer \in processedCredits

(* What the transaction service and the projector report comes from an     *)
(* event, and in the projector from the newest it has seen.                *)
ReportsTrue ==
    /\ \A x \in DOMAIN states : states[x] = "Completed" => x \in processedCredits
    /\ \A x \in DOMAIN view : \E e \in applied :
          e.transfer = x /\ view[x] = [status |-> Status[e.type], at |-> e.at]
    /\ \A e \in applied : e.transfer \in DOMAIN view /\ view[e.transfer].at >= e.at

(* Inductive invariant of what is reported. *)
CoreInv == TypeOK /\ EventsTrue /\ ReportsTrue

(* Nothing has happened at the start. *)
LEMMA CoreInit == ChoreoInit => CoreInv
<1> SUFFICES ASSUME ChoreoInit PROVE CoreInv
    OBVIOUS
<1>1. TypeOK
    BY ChoreographyAssumption DEF ChoreoInit, TypeOK
<1>2. EventsTrue /\ ReportsTrue
    BY DEF ChoreoInit, EventsTrue, ReportsTrue
<1> QED BY <1>1, <1>2 DEF CoreInv

(* A new event is later than every other; it keeps them true if it is.     *)
LEMMA EmitStep ==
    ASSUME TypeOK, EventsTrue, NEW type \in EventTypes, NEW x \in Transfers, Emit(type, x),
           processedDebits \subseteq processedDebits', processedCredits \subseteq processedCredits',
           type = "Debited" => x \in processedDebits',
           type = "Credited" => x \in processedCredits'
    PROVE  bus' \subseteq Events /\ bus \subseteq bus' /\ clock' \in Nat /\ EventsTrue'
<1> DEFINE n == [type |-> type, transfer |-> x, at |-> clock + 1]
<1>1. bus' = bus \cup {n} /\ clock' = clock + 1 /\ clock \in Nat
    BY DEF Emit, TypeOK
<1>2. n \in Events /\ n.type = type /\ n.transfer = x /\ n.at = clock + 1
    BY <1>1 DEF Events
<1> HIDE DEF n
<1>3. \A e \in bus : e.at \in Nat /\ e.at <= clock /\ e.at # n.at
    BY <1>1, <1>2 DEF TypeOK, Events, EventsTrue
<1>4. bus' \subseteq Events /\ bus \subseteq bus' /\ clock' \in Nat
    BY <1>1, <1>2 DEF TypeOK
<1>5. EventsTrue'
    <2>1. \A e, f \in bus' : e.at = f.at => e = f
        BY <1>1, <1>3 DEF EventsTrue
    <2>2. \A e \in bus' : e.at <= clock'
        BY <1>1, <1>2, <1>3
    <2>3. \A e \in bus' : e.type = "Debited" => e.transfer \in processedDebits'
        BY <1>1, <1>2 DEF EventsTrue
    <2>4. \A e \in bus' : e.type = "Credited" => e.transfer \in processedCredits'
        BY <1>1, <1>2 DEF EventsTrue
    <2> QED BY <2>1, <2>2, <2>3, <2>4 DEF EventsTrue
<1> QED BY <1>4, <1>5

(* A step that publishes nothing and takes no mark back keeps the events   *)
(* true.                                                                   *)
LEMMA NoEmitStep ==
    ASSUME TypeOK, EventsTrue, UNCHANGED <<bus, clock>>,
           processedDebits \subseteq processedDebits', processedCredits \subseteq processedCredits'
    PROVE  bus' \subseteq Events /\ bus \subseteq bus' /\ clock' \in Nat /\ EventsTrue'
BY DEF TypeOK, EventsTrue

(* A step of the account service leaves the reports as they are. *)
LEMMA ReportsKept ==
    ASSUME ReportsTrue, UNCHANGED <<states, view, applied>>,
           processedCredits \subseteq processedCredits'
    PROVE  ReportsTrue'
BY DEF ReportsTrue, Status

(* A handler in progress is of the right type. *)
LEMMA Busy ==
    ASSUME TypeOK, NEW t \in Handlers, work[t].at # "idle"
    PROVE  /\ work[t] \in Working /\ work[t] # Idle
           /\ work[t].transfer \in Transfers /\ work[t].account \in Places
           /\ work[t].type \in {"Initiated", "Debited"} /\ work[t].balance \in Int
           /\ work[t].at \in {"read", "write", "mark"}
<1>1. work[t] \in {Idle} \cup Working /\ Idle.at = "idle"
    BY DEF TypeOK, Idle
<1>2. work[t] \in Working /\ work[t] # Idle
    BY <1>1
<1> QED BY <1>2 DEF Working

(* The steps of the transaction service and of the projector. *)
LEMMA ReportStep ==
    ASSUME CoreInv,
           \/ \E x \in Transfers : InitiateTransfer(x)
           \/ \E e \in bus : HandleOutcome(e) \/ ApplyEvent(e)
    PROVE  CoreInv'
<1> USE DEF CoreInv
<1>1. ASSUME NEW x \in Transfers, InitiateTransfer(x) PROVE CoreInv'
    <2>1. bus' \subseteq Events /\ bus \subseteq bus' /\ clock' \in Nat /\ EventsTrue'
        BY <1>1, EmitStep DEF InitiateTransfer, EventTypes, accountVars
    <2>2. TypeOK'
        BY <1>1, <2>1 DEF InitiateTransfer, accountVars, TypeOK
    <2>3. ReportsTrue'
        BY <1>1 DEF InitiateTransfer, accountVars, Put, ReportsTrue, Status
    <2> QED BY <2>1, <2>2, <2>3
<1>2. ASSUME NEW e \in bus, HandleOutcome(e) PROVE CoreInv'
    <2>1. EventsTrue' /\ TypeOK'
        BY <1>2 DEF HandleOutcome, accountVars, EventsTrue, TypeOK
    <2>2. StateAfter[e.type] = "Completed" => e.transfer \in processedCredits
        BY <1>2 DEF HandleOutcome, StateAfter, EventsTrue
    <2>3. ReportsTrue'
        BY <1>2, <2>2 DEF HandleOutcome, accountVars, Put, ReportsTrue, Status
    <2> QED BY <2>1, <2>3
<1>3. ASSUME NEW e \in bus, ApplyEvent(e) PROVE CoreInv'
    <2>1. EventsTrue' /\ TypeOK'
        BY <1>3 DEF ApplyEvent, accountVars, EventsTrue, TypeOK
    <2> DEFINE shown == [status |-> Status[e.type], at |-> e.at]
    <2>2. \A f \in applied \cup {e} : f.at \in Nat
        BY DEF TypeOK, Events
    <2>3. \A x \in DOMAIN view : view[x].at \in Nat
        BY <2>2 DEF ReportsTrue
    <2>4. applied' = applied \cup {e} /\ states' = states /\ processedCredits' = processedCredits
        BY <1>3 DEF ApplyEvent, accountVars
    <2>5. CASE e.transfer \in DOMAIN view /\ e.at <= view[e.transfer].at
        <3>1. view' = view
            BY <1>3, <2>5 DEF ApplyEvent
        <3> QED BY <2>1, <2>2, <2>3, <2>4, <2>5, <3>1 DEF ReportsTrue, Status
    <2>6. CASE ~(e.transfer \in DOMAIN view /\ e.at <= view[e.transfer].at)
        <3>1. view' = Put(view, e.transfer, shown)
            BY <1>3, <2>6 DEF ApplyEvent
        <3>2. /\ DOMAIN view' = DOMAIN view \cup {e.transfer} /\ view'[e.transfer] = shown
              /\ \A x \in DOMAIN view \ {e.transfer} : view'[x] = view[x]
              /\ shown.at = e.at
            BY <3>1 DEF Put
        <3> HIDE DEF shown
        <3>3. ASSUME NEW x \in DOMAIN view'
              PROVE  \E f \in applied' :
                        f.transfer = x /\ view'[x] = [status |-> Status[f.type], at |-> f.at]
            <4>1. CASE x = e.transfer
                BY <2>4, <3>2, <4>1 DEF shown
            <4>2. CASE x # e.transfer
                <5>1. x \in DOMAIN view /\ view'[x] = view[x]
                    BY <3>2, <4>2
                <5>2. PICK f \in applied :
                         f.transfer = x /\ view[x] = [status |-> Status[f.type], at |-> f.at]
                    BY <5>1 DEF ReportsTrue
                <5> QED BY <2>4, <5>1, <5>2
            <4> QED BY <4>1, <4>2
        <3>4. ASSUME NEW f \in applied'
              PROVE  f.transfer \in DOMAIN view' /\ view'[f.transfer].at >= f.at
            <4>1. CASE f = e
                BY <2>2, <3>2, <4>1
            <4>2. CASE f # e /\ f.transfer = e.transfer
                <5>1. f \in applied /\ f.transfer \in DOMAIN view /\ view[f.transfer].at >= f.at
                    BY <2>4, <4>2 DEF ReportsTrue
                <5> QED BY <2>2, <2>3, <2>6, <3>2, <4>2, <5>1
            <4>3. CASE f # e /\ f.transfer # e.transfer
                BY <2>4, <3>2, <4>3 DEF ReportsTrue
            <4> QED BY <4>1, <4>2, <4>3
        <3>5. ReportsTrue'
            BY <2>4, <3>3, <3>4 DEF ReportsTrue, Status
        <3> QED BY <2>1, <3>5
    <2> QED BY <2>5, <2>6
<1> QED BY <1>1, <1>2, <1>3

(* The handlers of the account service take up an event, or answer it      *)
(* again.                                                                  *)
LEMMA HandleFacts ==
    ASSUME TypeOK, EventsTrue, NEW t \in Handlers, NEW e \in bus,
           HandleTransferInitiated(t, e) \/ HandleAccountDebited(t, e)
    PROVE  /\ UNCHANGED <<accountVars, states, view, refunds, applied>>
           /\ work[t] = Idle /\ e.transfer \in Transfers
           /\ \/ /\ UNCHANGED <<work, overlapped>>
                 /\ Emit("Debited", e.transfer) /\ e.transfer \in processedDebits
              \/ /\ UNCHANGED <<work, overlapped>>
                 /\ Emit("Credited", e.transfer) /\ e.transfer \in processedCredits
              \/ /\ e.type = "Initiated" /\ e.transfer \notin processedDebits
                 /\ Begin(t, e, From[e.transfer])
              \/ /\ e.type = "Debited" /\ e.transfer \notin processedCredits
                 /\ e.transfer \in processedDebits
                 /\ Begin(t, e, To[e.transfer])
<1>1. e.transfer \in Transfers
    BY DEF TypeOK, Events
<1>2. e.type = "Debited" => e.transfer \in processedDebits
    BY DEF EventsTrue
<1>3. UNCHANGED <<accountVars, states, view, refunds, applied>> /\ work[t] = Idle
    BY DEF HandleTransferInitiated, HandleAccountDebited, Deliver
<1>4. CASE HandleTransferInitiated(t, e)
    BY <1>1, <1>3, <1>4 DEF HandleTransferInitiated, Again
<1>5. CASE HandleAccountDebited(t, e)
    BY <1>1, <1>2, <1>3, <1>5 DEF HandleAccountDebited, Again
<1> QED BY <1>4, <1>5

(* The work a handler takes up. *)
LEMMA BeginWork ==
    ASSUME TypeOK, NEW t \in Handlers, NEW e \in bus, NEW account \in Places,
           e.type \in {"Initiated", "Debited"}, Begin(t, e, account)
    PROVE  /\ work' \in [Handlers -> {Idle} \cup Working]
           /\ work'[t] \in Working
           /\ work'[t].at = "read" /\ work'[t].type = e.type
           /\ work'[t].transfer = e.transfer /\ work'[t].account = account
           /\ \A u \in Handlers \ {t} : work'[u] = work[u]
<1> DEFINE w == [at |-> "read", type |-> e.type, transfer |-> e.transfer,
                 account |-> account, balance |-> 0]
<1>1. w \in Working
    BY DEF Working, TypeOK, Events
<1>2. work' = [work EXCEPT ![t] = w]
    BY DEF Begin
<1>3. work'[t] = w /\ \A u \in Handlers \ {t} : work'[u] = work[u]
    BY <1>2 DEF TypeOK
<1>4. w.at = "read" /\ w.type = e.type /\ w.transfer = e.transfer /\ w.account = account
    OBVIOUS
<1> HIDE DEF w
<1> QED BY <1>1, <1>2, <1>3, <1>4 DEF TypeOK

(* A thread that is done. *)
LEMMA FinishWork ==
    ASSUME TypeOK, NEW t \in Handlers, HandlerDone(t)
    PROVE  /\ work' \in [Handlers -> {Idle} \cup Working] /\ work'[t] = Idle
           /\ \A u \in Handlers \ {t} : work'[u] = work[u]
BY DEF HandlerDone, TypeOK

(* A thread goes on to its next step with a balance. *)
Advanced(t, at, b) ==
    /\ work'[t].at = at /\ work'[t].balance = b
    /\ work'[t].type = work[t].type /\ work'[t].transfer = work[t].transfer
    /\ work'[t].account = work[t].account
    /\ \A u \in Handlers \ {t} : work'[u] = work[u]

(* It keeps its transfer and account. *)
LEMMA AdvanceWork ==
    ASSUME TypeOK, NEW t \in Handlers, work[t].at # "idle",
           NEW at \in {"write", "mark"}, NEW b \in Int,
           \/ work' = [work EXCEPT ![t].at = at, ![t].balance = b]
           \/ work' = [work EXCEPT ![t].at = at] /\ b = work[t].balance
    PROVE  work' \in [Handlers -> {Idle} \cup Working] /\ Advanced(t, at, b)
<1> DEFINE w == [at |-> at, type |-> work[t].type, transfer |-> work[t].transfer,
                 account |-> work[t].account, balance |-> b]
<1>1. work[t] \in Working
    BY Busy
<1>2. w \in Working /\ w.at = at /\ w.type = work[t].type /\ w.transfer = work[t].transfer
      /\ w.account = work[t].account /\ w.balance = b
    BY <1>1 DEF Working
<1>3. work'[t] = w
    BY <1>1 DEF TypeOK, Working
<1>4. \A u \in Handlers \ {t} : work'[u] = work[u]
    BY DEF TypeOK
<1>5. work' = [u \in Handlers |-> work'[u]]
    BY DEF TypeOK
<1> HIDE DEF w
<1>6. work' \in [Handlers -> {Idle} \cup Working]
    BY <1>2, <1>3, <1>4, <1>5 DEF TypeOK
<1> QED BY <1>2, <1>3, <1>4, <1>6 DEF Advanced

(* What a step of the account service may change. *)
AccountChange ==
    /\ UNCHANGED <<states, view, applied>>
    /\ processedDebits \subseteq processedDebits' /\ processedDebits' \subseteq Transfers
    /\ processedCredits \subseteq processedCredits' /\ processedCredits' \subseteq Transfers
    /\ bus' \subseteq Events /\ bus \subseteq bus' /\ clock' \in Nat /\ EventsTrue'
    /\ work' \in [Handlers -> {Idle} \cup Working]
    /\ balances' \in [DOMAIN Seeds -> Int] /\ refunds' \in [Transfers -> Nat]
    /\ overlapped' \in BOOLEAN

(* Such a change keeps the invariant. *)
LEMMA ChangeKeeps == CoreInv /\ AccountChange => CoreInv'
<1> SUFFICES ASSUME CoreInv, AccountChange PROVE CoreInv'
    OBVIOUS
<1>1. ReportsTrue'
    BY ReportsKept DEF CoreInv, AccountChange
<1>2. TypeOK'
    BY DEF CoreInv, AccountChange, TypeOK
<1> QED BY <1>1, <1>2 DEF CoreInv, AccountChange

(* Every step of the account service is such a change. *)
LEMMA AccountStep ==
    ASSUME CoreInv, NEW t \in Handlers,
           \/ \E e \in bus : HandleTransferInitiated(t, e) \/ HandleAccountDebited(t, e)
           \/ ReadDebit(t) \/ ReadCredit(t) \/ Write(t) \/ Mark(t)
    PROVE  AccountChange
<1> USE DEF CoreInv
<1> DEFINE w == work[t]
<1>1. ASSUME NEW e \in bus, HandleTransferInitiated(t, e) \/ HandleAccountDebited(t, e)
      PROVE  AccountChange
    <2>1. /\ UNCHANGED <<balances, processedDebits, processedCredits, states, view, refunds, applied>>
          /\ e.transfer \in Transfers
        BY <1>1, HandleFacts DEF accountVars
    <2>2. CASE /\ UNCHANGED <<work, overlapped>>
               /\ \/ Emit("Debited", e.transfer) /\ e.transfer \in processedDebits
                  \/ Emit("Credited", e.transfer) /\ e.transfer \in processedCredits
        <3>1. bus' \subseteq Events /\ bus \subseteq bus' /\ clock' \in Nat /\ EventsTrue'
            BY <2>1, <2>2, EmitStep DEF EventTypes
        <3> QED BY <2>1, <2>2, <3>1 DEF AccountChange, TypeOK
    <2>3. ASSUME NEW account \in Places, e.type \in {"Initiated", "Debited"},
                 Begin(t, e, account)
          PROVE  AccountChange
        <3>1. work' \in [Handlers -> {Idle} \cup Working]
            BY <2>3, BeginWork
        <3>2. UNCHANGED <<bus, clock>> /\ overlapped' \in BOOLEAN
            BY <2>3 DEF Begin, TypeOK
        <3>3. bus' \subseteq Events /\ bus \subseteq bus' /\ clock' \in Nat /\ EventsTrue'
            BY <2>1, <3>2, NoEmitStep
        <3> QED BY <2>1, <3>1, <3>2, <3>3 DEF AccountChange, TypeOK
    <2>4. From[e.transfer] \in Places /\ To[e.transfer] \in Places
        BY <2>1 DEF Places
    <2> QED BY <1>1, <2>2, <2>3, <2>4, HandleFacts
<1>2. ASSUME ReadDebit(t) PROVE AccountChange
    <2>1. /\ UNCHANGED <<balances, processedDebits, processedCredits, states, view, applied, overlapped, refunds>>
          /\ w.at = "read"
        BY <1>2 DEF ReadDebit, Keep, accountVars
    <2>2. w.transfer \in Transfers /\ w.at # "idle"
        BY <2>1, Busy
    <2>3. CASE /\ w.account \in DOMAIN balances /\ balances[w.account] >= Amount[w.transfer]
               /\ work' = [work EXCEPT ![t].at = "write",
                                       ![t].balance = balances[w.account] - Amount[w.transfer]]
               /\ UNCHANGED <<bus, clock>>
        <3>1. balances[w.account] - Amount[w.transfer] \in Int
            BY <2>2, <2>3, ChoreographyAssumption DEF TypeOK
        <3>2. work' \in [Handlers -> {Idle} \cup Working]
            BY <2>2, <2>3, <3>1, AdvanceWork
        <3>3. bus' \subseteq Events /\ bus \subseteq bus' /\ clock' \in Nat /\ EventsTrue'
            BY <2>1, <2>3, NoEmitStep
        <3> QED BY <2>1, <3>2, <3>3 DEF AccountChange, TypeOK
    <2>4. CASE Emit("DebitFailed", w.transfer) /\ HandlerDone(t)
        <3>1. bus' \subseteq Events /\ bus \subseteq bus' /\ clock' \in Nat /\ EventsTrue'
            BY <2>1, <2>2, <2>4, EmitStep DEF EventTypes
        <3>2. work' \in [Handlers -> {Idle} \cup Working]
            BY <2>4, FinishWork
        <3> QED BY <2>1, <3>1, <3>2 DEF AccountChange, TypeOK
    <2> QED BY <1>2, <2>3, <2>4 DEF ReadDebit
<1>3. ASSUME ReadCredit(t) PROVE AccountChange
    <2>1. /\ UNCHANGED <<processedDebits, processedCredits, states, view, applied, overlapped>>
          /\ w.at = "read"
        BY <1>3 DEF ReadCredit, Keep
    <2>2. w.transfer \in Transfers /\ w.at # "idle"
        BY <2>1, Busy
    <2>3. CASE /\ w.account \in DOMAIN balances
               /\ work' = [work EXCEPT ![t].at = "write",
                                       ![t].balance = balances[w.account] + Amount[w.transfer]]
               /\ UNCHANGED <<balances, bus, clock, refunds>>
        <3>1. balances[w.account] + Amount[w.transfer] \in Int
            BY <2>2, <2>3, ChoreographyAssumption DEF TypeOK
        <3>2. work' \in [Handlers -> {Idle} \cup Working]
            BY <2>2, <2>3, <3>1, AdvanceWork
        <3>3. bus' \subseteq Events /\ bus \subseteq bus' /\ clock' \in Nat /\ EventsTrue'
            BY <2>1, <2>3, NoEmitStep
        <3> QED BY <2>1, <2>3, <3>2, <3>3 DEF AccountChange, TypeOK
    <2>4. CASE Refund(w.transfer) /\ Emit("CreditFailed", w.transfer) /\ HandlerDone(t)
        <3>1. bus' \subseteq Events /\ bus \subseteq bus' /\ clock' \in Nat /\ EventsTrue'
            BY <2>1, <2>2, <2>4, EmitStep DEF EventTypes
        <3>2. work' \in [Handlers -> {Idle} \cup Working]
            BY <2>4, FinishWork
        <3>3. PICK n \in Int : n = Amount[w.transfer]
            BY <2>2, ChoreographyAssumption
        <3>4. balances' \in [DOMAIN Seeds -> Int]
            BY <2>4, <3>3 DEF Refund, TypeOK
        <3>5. refunds' \in [Transfers -> Nat]
            BY <2>2, <2>4 DEF Refund, TypeOK
        <3> QED BY <2>1, <3>1, <3>2, <3>4, <3>5 DEF AccountChange, TypeOK
    <2> QED BY <1>3, <2>3, <2>4 DEF ReadCredit
<1>4. ASSUME Write(t) PROVE AccountChange
    <2>1. /\ UNCHANGED <<processedDebits, processedCredits, states, view, applied, overlapped, bus,
                         clock, refunds>>
          /\ w.at = "write" /\ balances' = [balances EXCEPT ![w.account] = w.balance]
          /\ work' = [work EXCEPT ![t].at = "mark"]
        BY <1>4 DEF Write, Keep
    <2>2. w.balance \in Int
        BY <2>1, Busy
    <2>3. work' \in [Handlers -> {Idle} \cup Working]
        BY <2>1, <2>2, AdvanceWork
    <2>4. balances' \in [DOMAIN Seeds -> Int]
        BY <2>1, <2>2 DEF TypeOK
    <2>5. bus' \subseteq Events /\ bus \subseteq bus' /\ clock' \in Nat /\ EventsTrue'
        BY <2>1, NoEmitStep
    <2> QED BY <2>1, <2>3, <2>4, <2>5 DEF AccountChange, TypeOK
<1>5. ASSUME Mark(t) PROVE AccountChange
    <2>1. /\ UNCHANGED <<states, view, applied, overlapped, balances, refunds>>
          /\ w.at = "mark" /\ HandlerDone(t)
        BY <1>5 DEF Mark, Keep
    <2>2. w.transfer \in Transfers
        BY <2>1, Busy
    <2>3. work' \in [Handlers -> {Idle} \cup Working]
        BY <2>1, FinishWork
    <2>4. /\ processedDebits \subseteq processedDebits' /\ processedDebits' \subseteq Transfers
          /\ processedCredits \subseteq processedCredits' /\ processedCredits' \subseteq Transfers
          /\ w.type = "Initiated" => w.transfer \in processedDebits'
          /\ w.type # "Initiated" => w.transfer \in processedCredits'
          /\ Emit(IF w.type = "Initiated" THEN "Debited" ELSE "Credited", w.transfer)
        BY <1>5, <2>2 DEF Mark, TypeOK
    <2>5. bus' \subseteq Events /\ bus \subseteq bus' /\ clock' \in Nat /\ EventsTrue'
        <3>1. CASE w.type = "Initiated"
            BY <2>2, <2>4, <3>1, EmitStep DEF EventTypes
        <3>2. CASE w.type # "Initiated"
            BY <2>2, <2>4, <3>2, EmitStep DEF EventTypes
        <3> QED BY <3>1, <3>2
    <2> QED BY <2>1, <2>3, <2>4, <2>5 DEF AccountChange, TypeOK
<1> QED BY <1>1, <1>2, <1>3, <1>4, <1>5

(* Every step keeps what is reported true. *)
LEMMA CoreStep == CoreInv /\ [ChoreoNext]_choreoVars => CoreInv'
<1> SUFFICES ASSUME CoreInv, [ChoreoNext]_choreoVars PROVE CoreInv'
    OBVIOUS
<1>1. CASE UNCHANGED choreoVars
    BY <1>1 DEF choreoVars, CoreInv, TypeOK, EventsTrue, ReportsTrue, Status
<1>2. CASE ChoreoNext
    BY <1>2, ReportStep, AccountStep, ChangeKeeps DEF ChoreoNext
<1> QED BY <1>1, <1>2

(* In whatever order and however often events reach the projector, it      *)
(* shows the newest of those it has seen.                                  *)
THEOREM ViewAlwaysNewest == ChoreoSpec => []ViewIsNewest
<1>1. CoreInv => ViewIsNewest
    <2> SUFFICES ASSUME CoreInv, NEW e \in applied
                 PROVE  /\ view[e.transfer].at >= e.at
                        /\ e.at = view[e.transfer].at =>
                              view[e.transfer].status = Status[e.type]
        BY DEF ViewIsNewest
    <2>1. e.transfer \in DOMAIN view /\ view[e.transfer].at >= e.at
        BY DEF CoreInv, ReportsTrue
    <2>2. PICK f \in applied : /\ f.transfer = e.transfer
                               /\ view[e.transfer] = [status |-> Status[f.type], at |-> f.at]
        BY <2>1 DEF CoreInv, ReportsTrue
    <2>3. e \in bus /\ f \in bus
        BY DEF CoreInv, TypeOK
    <2>4. e.at = f.at => e = f
        BY <2>3 DEF CoreInv, EventsTrue
    <2> QED BY <2>1, <2>2, <2>4
<1> QED
    BY <1>1, CoreInit, CoreStep, PTL DEF ChoreoSpec

-----------------------------------------------------------------------------
(* Where the money is. *)

(* Whether a handler has written a transfer's debit or credit and is about *)
(* to mark it.                                                             *)
Marking(x, type) ==
    \E t \in Handlers : work[t].at = "mark" /\ work[t].type = type /\ work[t].transfer = x

Debited(x) == x \in processedDebits \/ Marking(x, "Initiated")
Credited(x) == x \in processedCredits \/ Marking(x, "Debited")

(* The money of each transfer that has left one account and reached none. *)
Lost ==
    [x \in Transfers |->
        IF Debited(x) /\ ~Credited(x) /\ refunds[x] = 0 THEN Amount[x] ELSE 0]

(* Which account a handler works on, and which accounts of a transfer are  *)
(* known: a transfer is credited, or refunded, never both.                 *)
Placed ==
    /\ \A t \in Handlers : work[t].at # "idle" =>
          work[t].account = IF work[t].type = "Initiated" THEN From[work[t].transfer]
                            ELSE To[work[t].transfer]
    /\ \A t \in Handlers : work[t].at # "idle" /\ work[t].type = "Debited" =>
          work[t].transfer \in processedDebits
    /\ \A t \in Handlers : work[t].at \in {"write", "mark"} => work[t].account \in DOMAIN Seeds
    /\ processedCredits \subseteq processedDebits
    /\ \A x \in processedCredits : To[x] \in DOMAIN Seeds
    /\ \A x \in processedDebits : From[x] \in DOMAIN Seeds
    /\ \A x \in Transfers : refunds[x] > 0 => x \in processedDebits /\ To[x] \notin DOMAIN Seeds

(* Handlers that do not race touch different accounts and transfers. *)
Apart == \A t, u \in Handlers : t # u => Touched(t) \cap Touched(u) = {}

(* What a handler read is still so when it writes. *)
Fresh ==
    /\ \A t \in Handlers : work[t].at = "write" =>
          work[t].balance = IF work[t].type = "Initiated"
                            THEN balances[work[t].account] - Amount[work[t].transfer]
                            ELSE balances[work[t].account] + Amount[work[t].transfer]
    /\ \A t \in Handlers : work[t].at # "idle" =>
          IF work[t].type = "Initiated" THEN work[t].transfer \notin processedDebits
          ELSE work[t].transfer \notin processedCredits

(* The money is where the transfers say, in the middle of handlers too. *)
Balanced == Sum(balances) + Sum(Lost) = Sum(Seeds) + Sum(Extra)

(* Inductive invariant of the money. *)
MoneyInv == Placed /\ (~overlapped => Apart /\ Fresh /\ Balanced)

(* What the handler of a thread touches. *)
LEMMA TouchedBusy ==
    ASSUME TypeOK, NEW t \in Handlers
    PROVE  /\ work[t].at # "idle" =>
                 Touched(t) = {work[t].account, work[t].transfer, From[work[t].transfer]}
           /\ work[t] = Idle => Touched(t) = {} /\ work[t].at = "idle"
BY Busy DEF Touched, Idle

(* Handlers that are apart work on different accounts and transfers. *)
LEMMA ApartFacts ==
    ASSUME TypeOK, Apart, NEW t \in Handlers, NEW u \in Handlers, t # u,
           work[t].at # "idle", work[u].at # "idle"
    PROVE  /\ work[t].transfer # work[u].transfer
           /\ work[t].account # work[u].account
           /\ From[work[t].transfer] # work[u].account
<1>1. Touched(t) \cap Touched(u) = {}
    BY DEF Apart
<1> QED BY <1>1, TouchedBusy

(* A thread that keeps what it touches, or lets go of it, stays apart. *)
LEMMA ApartKept ==
    ASSUME TypeOK, TypeOK', Apart, NEW t \in Handlers,
           \A u \in Handlers \ {t} : work'[u] = work[u],
           \/ work'[t] = Idle
           \/ /\ work[t].at # "idle" /\ work'[t].at # "idle"
              /\ work'[t].account = work[t].account /\ work'[t].transfer = work[t].transfer
    PROVE  Apart'
<1>1. ASSUME NEW u \in Handlers PROVE Touched(u)' \subseteq Touched(u)
    <2>1. CASE u # t
        BY <2>1 DEF Touched
    <2>2. CASE u = t /\ work'[t] = Idle
        BY <2>2 DEF Touched
    <2>3. CASE u = t /\ work'[t] # Idle
        <3>1. Touched(t) = {work[t].account, work[t].transfer, From[work[t].transfer]}
            BY <2>3, TouchedBusy
        <3>2. Touched(t)' \subseteq {work'[t].account, work'[t].transfer, From[work'[t].transfer]}
            BY DEF Touched
        <3> QED BY <2>3, <3>1, <3>2
    <2> QED BY <2>1, <2>2, <2>3
<1> QED BY <1>1 DEF Apart

(* Who is about to mark what, when a thread outside its mark moves on. *)
LEMMA MarkingKept ==
    ASSUME NEW t \in Handlers, \A u \in Handlers \ {t} : work'[u] = work[u],
           work[t].at # "mark", work'[t].at # "mark"
    PROVE  \A x, type : Marking(x, type)' <=> Marking(x, type)
BY DEF Marking

(* The weights are integers. *)
LEMMA Weights ==
    ASSUME TypeOK
    PROVE  /\ Lost \in [Transfers -> Int] /\ Extra \in [Transfers -> Int]
           /\ Sum(Lost) = NetTotal(Transfers, Lost) /\ Sum(Lost) \in Int
           /\ Sum(Extra) = NetTotal(Transfers, Extra) /\ Sum(Extra) \in Int
           /\ Sum(balances) = NetTotal(DOMAIN Seeds, balances) /\ Sum(balances) \in Int
           /\ Sum(Seeds) \in Int
<1>1. Lost \in [Transfers -> Int] /\ Extra \in [Transfers -> Int]
    BY ChoreographyAssumption DEF Lost, Extra, TypeOK
<1>2. DOMAIN Lost = Transfers /\ DOMAIN Extra = Transfers /\ DOMAIN balances = DOMAIN Seeds
    BY <1>1 DEF TypeOK
<1>3. NetTotal(Transfers, Lost) \in Int /\ NetTotal(Transfers, Extra) \in Int
    BY <1>1, NetTotalType, ChoreographyAssumption
<1>4. NetTotal(DOMAIN Seeds, balances) \in Int /\ NetTotal(DOMAIN Seeds, Seeds) \in Int
    BY NetTotalType, ChoreographyAssumption DEF TypeOK
<1> QED BY <1>1, <1>2, <1>3, <1>4 DEF Sum

(* A step that moves no money and marks nothing anew keeps the balance. *)
LEMMA BalancedKept ==
    ASSUME Balanced, UNCHANGED <<balances, refunds>>,
           \A x \in Transfers : (Debited(x)' <=> Debited(x)) /\ (Credited(x)' <=> Credited(x))
    PROVE  Balanced'
<1>1. Lost' = Lost /\ Extra' = Extra
    BY DEF Lost, Extra
<1> QED BY <1>1 DEF Balanced, Sum

(* A handler begins; it races with every handler that has its transfer or  *)
(* one of its accounts.                                                    *)
LEMMA MoneyBegin ==
    ASSUME CoreInv, CoreInv', MoneyInv, NEW t \in Handlers, NEW e \in bus, work[t] = Idle,
           UNCHANGED <<balances, processedDebits, processedCredits, refunds>>,
           NEW account \in Places, Begin(t, e, account),
           \/ /\ e.type = "Initiated" /\ e.transfer \notin processedDebits
              /\ account = From[e.transfer]
           \/ /\ e.type = "Debited" /\ e.transfer \notin processedCredits
              /\ e.transfer \in processedDebits /\ account = To[e.transfer]
    PROVE  MoneyInv'
<1> USE DEF CoreInv
<1>1. /\ work'[t].at = "read" /\ work'[t].type = e.type
      /\ work'[t].transfer = e.transfer /\ work'[t].account = account
      /\ \A u \in Handlers \ {t} : work'[u] = work[u]
    BY BeginWork
<1>2. work[t].at = "idle"
    BY TouchedBusy
<1>3. Placed'
    BY <1>1 DEF MoneyInv, Placed
<1>4. ASSUME ~overlapped' PROVE Apart' /\ Fresh' /\ Balanced'
    <2>1. ~overlapped /\ \A u \in Handlers \ {t} :
                       Touched(u) \cap {account, e.transfer, From[e.transfer]} = {}
        BY <1>4 DEF Begin
    <2>2. Apart /\ Fresh /\ Balanced
        BY <2>1 DEF MoneyInv
    <2>3. Touched(t)' \subseteq {account, e.transfer, From[e.transfer]}
        BY <1>1 DEF Touched
    <2>4. \A u \in Handlers \ {t} : Touched(u)' = Touched(u)
        BY <1>1 DEF Touched
    <2>5. Apart'
        BY <2>1, <2>2, <2>3, <2>4 DEF Apart
    <2>6. Fresh'
        BY <1>1, <2>2 DEF Fresh
    <2>7. \A x, type : Marking(x, type)' <=> Marking(x, type)
        BY <1>1, <1>2, MarkingKept
    <2>8. Balanced'
        BY <2>2, <2>7, BalancedKept DEF Debited, Credited
    <2> QED BY <2>5, <2>6, <2>8
<1> QED BY <1>3, <1>4 DEF MoneyInv

(* A handler reads the balance and computes the new one. *)
LEMMA MoneyRead ==
    ASSUME CoreInv, CoreInv', MoneyInv, NEW t \in Handlers, work[t].at = "read",
           UNCHANGED <<balances, processedDebits, processedCredits, refunds, overlapped>>,
           work[t].account \in DOMAIN balances, NEW b \in Int,
           b = IF work[t].type = "Initiated"
               THEN balances[work[t].account] - Amount[work[t].transfer]
               ELSE balances[work[t].account] + Amount[work[t].transfer],
           Advanced(t, "write", b)
    PROVE  MoneyInv'
<1> USE DEF CoreInv
<1>1. /\ work'[t].at = "write" /\ work'[t].balance = b
      /\ work'[t].type = work[t].type /\ work'[t].transfer = work[t].transfer
      /\ work'[t].account = work[t].account
      /\ \A u \in Handlers \ {t} : work'[u] = work[u]
    BY DEF Advanced
<1>2. work[t].account \in DOMAIN Seeds
    BY DEF TypeOK
<1>3. Placed'
    <2>1. \A u \in Handlers : /\ work'[u].at # "idle" <=> work[u].at # "idle"
                              /\ work'[u].type = work[u].type
                              /\ work'[u].transfer = work[u].transfer
                              /\ work'[u].account = work[u].account
        BY <1>1
    <2>2. \A u \in Handlers : work'[u].at \in {"write", "mark"} => work'[u].account \in DOMAIN Seeds
        BY <1>1, <1>2 DEF MoneyInv, Placed
    <2>3. /\ \A u \in Handlers : work'[u].at # "idle" =>
                work'[u].account = IF work'[u].type = "Initiated" THEN From[work'[u].transfer]
                                   ELSE To[work'[u].transfer]
          /\ \A u \in Handlers : work'[u].at # "idle" /\ work'[u].type = "Debited" =>
                work'[u].transfer \in processedDebits'
        BY <2>1 DEF MoneyInv, Placed
    <2> QED BY <2>2, <2>3 DEF MoneyInv, Placed
<1>4. ASSUME ~overlapped' PROVE Apart' /\ Fresh' /\ Balanced'
    <2>1. Apart /\ Fresh /\ Balanced
        BY <1>4 DEF MoneyInv
    <2>2. Apart'
        BY <1>1, <2>1, ApartKept
    <2>3. Fresh'
        <3> SUFFICES ASSUME NEW u \in Handlers
                     PROVE  /\ work'[u].at = "write" =>
                               work'[u].balance = IF work'[u].type = "Initiated"
                                                  THEN balances[work'[u].account] - Amount[work'[u].transfer]
                                                  ELSE balances[work'[u].account] + Amount[work'[u].transfer]
                            /\ work'[u].at # "idle" =>
                               IF work'[u].type = "Initiated"
                               THEN work'[u].transfer \notin processedDebits
                               ELSE work'[u].transfer \notin processedCredits
            BY DEF Fresh
        <3>1. CASE u = t
            BY <1>1, <2>1, <3>1 DEF Fresh
        <3>2. CASE u # t
            <4>1. work'[u] = work[u]
                BY <1>1, <3>2
            <4> QED BY <2>1, <4>1 DEF Fresh
        <3> QED BY <3>1, <3>2
    <2>4. \A x, type : Marking(x, type)' <=> Marking(x, type)
        BY <1>1, MarkingKept
    <2>5. Balanced'
        BY <2>1, <2>4, BalancedKept DEF Debited, Credited
    <2> QED BY <2>2, <2>3, <2>5
<1> QED BY <1>3, <1>4 DEF MoneyInv

(* A handler finds no funds and ends. *)
LEMMA MoneyRefuse ==
    ASSUME CoreInv, CoreInv', MoneyInv, NEW t \in Handlers, work[t].at = "read", HandlerDone(t),
           UNCHANGED <<balances, processedDebits, processedCredits, refunds, overlapped>>
    PROVE  MoneyInv'
<1> USE DEF CoreInv
<1>1. work'[t] = Idle /\ Idle.at = "idle" /\ \A u \in Handlers \ {t} : work'[u] = work[u]
    BY FinishWork DEF Idle
<1>2. Placed'
    BY <1>1 DEF MoneyInv, Placed
<1>3. ASSUME ~overlapped' PROVE Apart' /\ Fresh' /\ Balanced'
    <2>1. Apart /\ Fresh /\ Balanced
        BY <1>3 DEF MoneyInv
    <2>2. Apart'
        BY <1>1, <2>1, ApartKept
    <2>3. Fresh'
        BY <1>1, <2>1 DEF Fresh
    <2>4. \A x, type : Marking(x, type)' <=> Marking(x, type)
        BY <1>1, MarkingKept
    <2>5. Balanced'
        BY <2>1, <2>4, BalancedKept DEF Debited, Credited
    <2> QED BY <2>2, <2>3, <2>5
<1> QED BY <1>2, <1>3 DEF MoneyInv

(* A handler marks its transfer: nothing moves, since what was written     *)
(* counted already.                                                        *)
LEMMA MoneyMark ==
    ASSUME CoreInv, CoreInv', MoneyInv, NEW t \in Handlers, Mark(t)
    PROVE  MoneyInv'
<1> USE DEF CoreInv
<1> DEFINE x == work[t].transfer
<1>1. /\ work[t].at = "mark" /\ HandlerDone(t) /\ UNCHANGED <<balances, refunds, overlapped>>
      /\ processedDebits' = IF work[t].type = "Initiated" THEN processedDebits \cup {x}
                            ELSE processedDebits
      /\ processedCredits' = IF work[t].type = "Initiated" THEN processedCredits
                             ELSE processedCredits \cup {x}
    BY DEF Mark, Keep
<1>2. x \in Transfers /\ work[t].type \in {"Initiated", "Debited"}
    BY <1>1, Busy
<1>3. work'[t] = Idle /\ Idle.at = "idle" /\ \A u \in Handlers \ {t} : work'[u] = work[u]
    BY <1>1, FinishWork DEF Idle
<1>4. Placed'
    BY <1>1, <1>2, <1>3 DEF MoneyInv, Placed
<1>5. ASSUME ~overlapped' PROVE Apart' /\ Fresh' /\ Balanced'
    <2>1. Apart /\ Fresh /\ Balanced
        BY <1>1, <1>5 DEF MoneyInv
    <2>2. Apart'
        BY <1>3, <2>1, ApartKept
    <2>3. \A u \in Handlers \ {t} : work[u].at # "idle" => work[u].transfer # x
        BY <1>1, <2>1, ApartFacts
    <2>4. Fresh'
        <3> SUFFICES ASSUME NEW u \in Handlers, work'[u].at # "idle"
                     PROVE  /\ work'[u].at = "write" =>
                               work'[u].balance = IF work'[u].type = "Initiated"
                                                  THEN balances'[work'[u].account] - Amount[work'[u].transfer]
                                                  ELSE balances'[work'[u].account] + Amount[work'[u].transfer]
                            /\ IF work'[u].type = "Initiated"
                               THEN work'[u].transfer \notin processedDebits'
                               ELSE work'[u].transfer \notin processedCredits'
            BY DEF Fresh
        <3>1. u # t /\ work'[u] = work[u]
            BY <1>3
        <3> QED BY <1>1, <2>1, <2>3, <3>1 DEF Fresh
    <2>5. ASSUME NEW y PROVE (Debited(y)' <=> Debited(y)) /\ (Credited(y)' <=> Credited(y))
        <3>1. \A type : Marking(y, type) <=>
                           Marking(y, type)' \/ (y = x /\ type = work[t].type)
            BY <1>1, <1>3 DEF Marking
        <3> QED BY <1>1, <1>2, <3>1 DEF Debited, Credited
    <2>6. Balanced'
        BY <1>1, <2>1, <2>5, BalancedKept
    <2> QED BY <2>2, <2>4, <2>6
<1> QED BY <1>4, <1>5 DEF MoneyInv

(* Numbers on both sides that change by the same. *)
LEMMA Moves ==
    ASSUME NEW B \in Int, NEW L \in Int, NEW E \in Int, NEW S \in Int, B + L = S + E,
           NEW b \in Int, NEW l \in Int, NEW e \in Int,
           NEW b2 \in Int, NEW l2 \in Int, NEW e2 \in Int, b2 + l2 + e = b + l + e2
    PROVE  (B - b + b2) + (L - l + l2) = S + (E - e + e2)
OBVIOUS

(* A change of one balance and of one transfer's weight that cancel out    *)
(* keeps the balance.                                                      *)
LEMMA BalancedMove ==
    ASSUME TypeOK, TypeOK', Balanced, NEW a \in DOMAIN Seeds, NEW x \in Transfers,
           \A c \in DOMAIN Seeds \ {a} : balances'[c] = balances[c],
           \A y \in Transfers \ {x} : Lost'[y] = Lost[y] /\ Extra'[y] = Extra[y],
           balances'[a] + Lost'[x] + Extra[x] = balances[a] + Lost[x] + Extra'[x]
    PROVE  Balanced'
<1>1. /\ Lost \in [Transfers -> Int] /\ Extra \in [Transfers -> Int]
      /\ Lost' \in [Transfers -> Int] /\ Extra' \in [Transfers -> Int]
      /\ balances \in [DOMAIN Seeds -> Int] /\ balances' \in [DOMAIN Seeds -> Int]
      /\ IsFiniteSet(Transfers) /\ IsFiniteSet(DOMAIN Seeds)
    BY ChoreographyAssumption DEF Lost, Extra, TypeOK
<1>2. NetTotal(DOMAIN Seeds, balances') = NetTotal(DOMAIN Seeds, balances) - balances[a] + balances'[a]
    BY <1>1, NetTotalChange
<1>3. NetTotal(Transfers, Lost') = NetTotal(Transfers, Lost) - Lost[x] + Lost'[x]
    BY <1>1, NetTotalChange
<1>4. NetTotal(Transfers, Extra') = NetTotal(Transfers, Extra) - Extra[x] + Extra'[x]
    BY <1>1, NetTotalChange
<1>5. /\ NetTotal(DOMAIN Seeds, balances) \in Int /\ NetTotal(Transfers, Lost) \in Int
      /\ NetTotal(Transfers, Extra) \in Int
    BY <1>1, NetTotalType
<1>6. NetTotal(DOMAIN Seeds, balances) + NetTotal(Transfers, Lost) = Sum(Seeds) + NetTotal(Transfers, Extra)
    BY Weights DEF Balanced
<1>7. /\ Sum(balances)' = NetTotal(DOMAIN Seeds, balances') /\ Sum(Lost)' = NetTotal(Transfers, Lost')
      /\ Sum(Extra)' = NetTotal(Transfers, Extra')
    BY <1>1 DEF Sum
<1>8. /\ balances[a] \in Int /\ balances'[a] \in Int /\ Lost[x] \in Int /\ Lost'[x] \in Int
      /\ Extra[x] \in Int /\ Extra'[x] \in Int /\ Sum(Seeds) \in Int
    BY <1>1, Weights
<1>9. NetTotal(DOMAIN Seeds, balances') + NetTotal(Transfers, Lost')
        = Sum(Seeds) + NetTotal(Transfers, Extra')
    <2>1. PICK B \in Int, L \in Int, E \in Int, S \in Int :
             /\ B = NetTotal(DOMAIN Seeds, balances) /\ L = NetTotal(Transfers, Lost)
             /\ E = NetTotal(Transfers, Extra) /\ S = Sum(Seeds)
        BY <1>5, <1>8
    <2>2. PICK b \in Int, l \in Int, e \in Int :
             b = balances[a] /\ l = Lost[x] /\ e = Extra[x]
        BY <1>8
    <2>3. PICK b2 \in Int, l2 \in Int, e2 \in Int :
             b2 = balances'[a] /\ l2 = Lost'[x] /\ e2 = Extra'[x]
        BY <1>8
    <2>4. B + L = S + E /\ b2 + l2 + e = b + l + e2
        <3>1. B + L = S + E
            BY <1>6, <2>1, Zenon
        <3>2. b2 + l2 + e = b + l + e2
            BY <2>2, <2>3, Zenon
        <3> QED BY <3>1, <3>2
    <2>5. (B - b + b2) + (L - l + l2) = S + (E - e + e2)
        BY <2>4, Moves
    <2> QED BY <1>2, <1>3, <1>4, <2>1, <2>2, <2>3, <2>5, Zenon
<1>10. Sum(Seeds)' = Sum(Seeds)
    BY DEF Sum
<1> QED BY <1>7, <1>9, <1>10 DEF Balanced

(* A handler writes: the balance it read is still the account's, so the    *)
(* write moves the amount, out of the account for a debit and into it for  *)
(* a credit.                                                               *)
LEMMA MoneyWrite ==
    ASSUME CoreInv, CoreInv', MoneyInv, NEW t \in Handlers, work[t].at = "write",
           Advanced(t, "mark", work[t].balance),
           balances' = [balances EXCEPT ![work[t].account] = work[t].balance],
           UNCHANGED <<processedDebits, processedCredits, refunds, overlapped>>
    PROVE  MoneyInv'
<1> USE DEF CoreInv
<1> DEFINE x == work[t].transfer
           a == work[t].account
<1>1. /\ work'[t].at = "mark"
      /\ work'[t].type = work[t].type /\ work'[t].transfer = x /\ work'[t].account = a
      /\ \A u \in Handlers \ {t} : work'[u] = work[u]
    BY DEF Advanced
<1>2. x \in Transfers /\ work[t].type \in {"Initiated", "Debited"} /\ a \in DOMAIN Seeds
    BY Busy DEF MoneyInv, Placed
<1>3. Placed'
    <2>1. \A u \in Handlers : /\ work'[u].at # "idle" <=> work[u].at # "idle"
                              /\ work'[u].at \in {"write", "mark"} => work[u].at \in {"write", "mark"}
                              /\ work'[u].type = work[u].type
                              /\ work'[u].transfer = work[u].transfer
                              /\ work'[u].account = work[u].account
        BY <1>1
    <2>2. ASSUME NEW u \in Handlers, work'[u].at \in {"write", "mark"}
          PROVE  work'[u].account \in DOMAIN Seeds
        <3>1. work[u].at \in {"write", "mark"} /\ work'[u].account = work[u].account
            BY <2>1, <2>2
        <3> QED BY <3>1 DEF MoneyInv, Placed
    <2>3. ASSUME NEW u \in Handlers, work'[u].at # "idle"
          PROVE  /\ work'[u].account = IF work'[u].type = "Initiated"
                                       THEN From[work'[u].transfer] ELSE To[work'[u].transfer]
                 /\ work'[u].type = "Debited" => work'[u].transfer \in processedDebits'
        <3>1. /\ work[u].at # "idle" /\ work'[u].type = work[u].type
              /\ work'[u].transfer = work[u].transfer /\ work'[u].account = work[u].account
            BY <2>1, <2>3
        <3> QED BY <3>1 DEF MoneyInv, Placed
    <2> QED BY <2>2, <2>3 DEF MoneyInv, Placed
<1>4. ASSUME ~overlapped' PROVE Apart' /\ Fresh' /\ Balanced'
    <2>1. Apart /\ Fresh /\ Balanced
        BY <1>4 DEF MoneyInv
    <2>2. Apart'
        BY <1>1, <2>1, ApartKept
    <2>3. \A u \in Handlers \ {t} : work[u].at # "idle" =>
             work[u].transfer # x /\ work[u].account # a
        BY <2>1, ApartFacts
    <2>4. \A c \in DOMAIN Seeds \ {a} : balances'[c] = balances[c]
        BY DEF TypeOK
    <2>5. Fresh'
        <3> SUFFICES ASSUME NEW u \in Handlers
                     PROVE  /\ work'[u].at = "write" =>
                               work'[u].balance = IF work'[u].type = "Initiated"
                                                  THEN balances'[work'[u].account] - Amount[work'[u].transfer]
                                                  ELSE balances'[work'[u].account] + Amount[work'[u].transfer]
                            /\ work'[u].at # "idle" =>
                               IF work'[u].type = "Initiated"
                               THEN work'[u].transfer \notin processedDebits
                               ELSE work'[u].transfer \notin processedCredits
            BY DEF Fresh
        <3>1. CASE u = t
            BY <1>1, <2>1, <3>1 DEF Fresh
        <3>2. CASE u # t
            <4>1. work'[u] = work[u]
                BY <1>1, <3>2
            <4>2. work[u].at = "write" => balances'[work[u].account] = balances[work[u].account]
                BY <2>3, <2>4, <3>2 DEF MoneyInv, Placed
            <4> QED BY <2>1, <4>1, <4>2 DEF Fresh
        <3> QED BY <3>1, <3>2
    <2>6. \A y, type : Marking(y, type)' <=>
                          Marking(y, type) \/ (y = x /\ type = work[t].type)
        BY <1>1 DEF Marking
    <2>7. ~Marking(x, "Initiated") /\ ~Marking(x, "Debited")
        BY <2>3 DEF Marking
    <2>8. refunds' = refunds /\ Extra' = Extra /\ Extra[x] \in Int /\ Amount[x] \in Int
        BY <1>2, Weights, ChoreographyAssumption DEF Extra
    <2>9. \A y \in Transfers \ {x} : Lost'[y] = Lost[y]
        BY <2>6, <2>8 DEF Lost, Debited, Credited
    <2>10. balances'[a] = work[t].balance
        BY <1>2 DEF TypeOK
    <2>11. CASE work[t].type = "Initiated"
        <3>1. x \notin processedDebits /\ work[t].balance = balances[a] - Amount[x]
            BY <2>1, <2>11 DEF Fresh
        <3>2. x \notin processedCredits /\ refunds[x] = 0
            BY <1>2, <3>1 DEF MoneyInv, Placed, TypeOK
        <3>3. Lost[x] = 0
            BY <1>2, <2>7, <3>1 DEF Lost, Debited
        <3>4. Lost'[x] = Amount[x]
            BY <1>2, <2>6, <2>7, <2>8, <2>11, <3>2 DEF Lost, Debited, Credited
        <3>5. balances'[a] + Lost'[x] + Extra[x] = balances[a] + Lost[x] + Extra'[x]
            BY <1>2, <2>8, <2>10, <3>1, <3>3, <3>4 DEF TypeOK
        <3>6. Balanced'
            BY <1>2, <2>1, <2>4, <2>8, <2>9, <3>5, BalancedMove
        <3> QED BY <2>2, <2>5, <3>6
    <2>12. CASE work[t].type = "Debited"
        <3>1. x \notin processedCredits /\ work[t].balance = balances[a] + Amount[x]
            BY <2>1, <2>12 DEF Fresh
        <3>2. a = To[x] /\ x \in processedDebits
            BY <2>12 DEF MoneyInv, Placed
        <3>3. refunds[x] = 0
            BY <1>2, <3>2 DEF MoneyInv, Placed, TypeOK
        <3>4. Lost[x] = Amount[x]
            BY <1>2, <2>7, <3>1, <3>2, <3>3 DEF Lost, Debited, Credited
        <3>5. Lost'[x] = 0
            BY <1>2, <2>6, <2>12 DEF Lost, Credited
        <3>6. balances'[a] + Lost'[x] + Extra[x] = balances[a] + Lost[x] + Extra'[x]
            BY <1>2, <2>8, <2>10, <3>1, <3>4, <3>5 DEF TypeOK
        <3>7. Balanced'
            BY <1>2, <2>1, <2>4, <2>8, <2>9, <3>6, BalancedMove
        <3> QED BY <2>2, <2>5, <3>7
    <2> QED BY <1>2, <2>11, <2>12
<1> QED BY <1>3, <1>4 DEF MoneyInv

LEMMA ZeroTimes == \A r \in Nat, n \in Int : r = 1 => (r - 1) * n = 0
OBVIOUS

LEMMA OneMoreTime ==
    ASSUME NEW r \in Nat, NEW n \in Int
    PROVE  (r + 1 - 1) * n = (r - 1) * n + n /\ (r - 1) * n \in Int
OBVIOUS

(* A credit finds its destination unknown and is refunded: the debit is    *)
(* made good the first time, and every time after it the amount is extra.  *)
LEMMA MoneyRefund ==
    ASSUME CoreInv, CoreInv', MoneyInv, NEW t \in Handlers, work[t].at = "read",
           work[t].type = "Debited", work[t].account \notin DOMAIN balances,
           Refund(work[t].transfer), HandlerDone(t),
           UNCHANGED <<processedDebits, processedCredits, overlapped>>
    PROVE  MoneyInv'
<1> USE DEF CoreInv
<1> DEFINE x == work[t].transfer
           a == From[x]
<1>1. x \in Transfers /\ x \in processedDebits /\ a \in DOMAIN Seeds /\ To[x] \notin DOMAIN Seeds
    BY Busy DEF MoneyInv, Placed, TypeOK
<1>2. /\ balances' = [balances EXCEPT ![a] = @ + Amount[x]]
      /\ refunds' = [refunds EXCEPT ![x] = @ + 1]
    BY <1>1 DEF Refund, TypeOK
<1>3. work'[t] = Idle /\ Idle.at = "idle" /\ \A u \in Handlers \ {t} : work'[u] = work[u]
    BY FinishWork DEF Idle
<1>4. /\ balances'[a] = balances[a] + Amount[x] /\ balances[a] \in Int /\ Amount[x] \in Int
      /\ refunds'[x] = refunds[x] + 1 /\ refunds[x] \in Nat
      /\ \A c \in DOMAIN Seeds \ {a} : balances'[c] = balances[c]
      /\ \A y \in Transfers \ {x} : refunds'[y] = refunds[y]
    BY <1>1, <1>2, ChoreographyAssumption DEF TypeOK
<1>5. Placed'
    <2>1. \A y \in Transfers :
             refunds'[y] > 0 => y \in processedDebits' /\ To[y] \notin DOMAIN Seeds
        <3> SUFFICES ASSUME NEW y \in Transfers, refunds'[y] > 0
                     PROVE  y \in processedDebits /\ To[y] \notin DOMAIN Seeds
            OBVIOUS
        <3>1. CASE y = x
            BY <1>1, <3>1
        <3>2. CASE y # x
            BY <1>4, <3>2 DEF MoneyInv, Placed
        <3> QED BY <3>1, <3>2
    <2>2. \A u \in Handlers : work'[u].at # "idle" => work'[u] = work[u]
        BY <1>3
    <2> QED BY <2>1, <2>2 DEF MoneyInv, Placed
<1>6. ASSUME ~overlapped' PROVE Apart' /\ Fresh' /\ Balanced'
    <2>1. Apart /\ Fresh /\ Balanced
        BY <1>6 DEF MoneyInv
    <2>2. Apart'
        BY <1>3, <2>1, ApartKept
    <2>3. \A u \in Handlers \ {t} : work[u].at # "idle" => work[u].account # a
        BY <2>1, ApartFacts
    <2>4. Fresh'
        <3> SUFFICES ASSUME NEW u \in Handlers, work'[u].at # "idle"
                     PROVE  /\ work'[u].at = "write" =>
                               work'[u].balance = IF work'[u].type = "Initiated"
                                                  THEN balances'[work'[u].account] - Amount[work'[u].transfer]
                                                  ELSE balances'[work'[u].account] + Amount[work'[u].transfer]
                            /\ IF work'[u].type = "Initiated"
                               THEN work'[u].transfer \notin processedDebits
                               ELSE work'[u].transfer \notin processedCredits
            BY DEF Fresh
        <3>1. u # t /\ work'[u] = work[u]
            BY <1>3
        <3>2. work[u].at = "write" => balances'[work[u].account] = balances[work[u].account]
            BY <1>4, <2>3, <3>1 DEF MoneyInv, Placed
        <3> QED BY <2>1, <3>1, <3>2 DEF Fresh
    <2>5. \A y, type : Marking(y, type)' <=> Marking(y, type)
        BY <1>3, MarkingKept
    <2>6. \A y \in Transfers : (Debited(y)' <=> Debited(y)) /\ (Credited(y)' <=> Credited(y))
        BY <2>5 DEF Debited, Credited
    <2>7. ~Credited(x)
        <3>1. x \notin processedCredits
            BY <1>1 DEF MoneyInv, Placed
        <3>2. ~Marking(x, "Debited")
            BY <1>1 DEF Marking, MoneyInv, Placed
        <3> QED BY <3>1, <3>2 DEF Credited
    <2>8. \A y \in Transfers \ {x} : Lost'[y] = Lost[y] /\ Extra'[y] = Extra[y]
        BY <1>4, <2>6 DEF Lost, Extra
    <2>9. Debited(x) /\ Lost'[x] = 0
        BY <1>1, <1>4 DEF Lost, Debited
    <2>10. Lost[x] = IF refunds[x] = 0 THEN Amount[x] ELSE 0
        BY <1>1, <2>7, <2>9 DEF Lost
    <2>11. balances'[a] + Lost'[x] + Extra[x] = balances[a] + Lost[x] + Extra'[x]
        <3>1. /\ Extra[x] = IF refunds[x] > 1 THEN (refunds[x] - 1) * Amount[x] ELSE 0
              /\ Extra'[x] = IF refunds'[x] > 1 THEN (refunds'[x] - 1) * Amount[x] ELSE 0
            BY <1>1 DEF Extra
        <3>2. CASE refunds[x] = 0
            BY <1>4, <2>9, <2>10, <3>1, <3>2
        <3>3. CASE refunds[x] > 0
            <4>1. Extra[x] = (refunds[x] - 1) * Amount[x]
                BY <1>4, <3>1, <3>3, ZeroTimes
            <4>2. Extra'[x] = (refunds[x] + 1 - 1) * Amount[x]
                BY <1>4, <3>1, <3>3
            <4>3. Extra'[x] = Extra[x] + Amount[x] /\ Extra[x] \in Int
                BY <1>4, <4>1, <4>2, OneMoreTime
            <4> QED BY <1>4, <2>9, <2>10, <3>3, <4>3
        <3> QED BY <1>4, <3>2, <3>3
    <2>12. Balanced'
        BY <1>1, <1>4, <2>1, <2>8, <2>11, BalancedMove
    <2> QED BY <2>2, <2>4, <2>12
<1> QED BY <1>5, <1>6 DEF MoneyInv

(* At the start the money is where it was seeded. *)
LEMMA MoneyInit == ChoreoInit => MoneyInv
<1> SUFFICES ASSUME ChoreoInit PROVE MoneyInv
    OBVIOUS
<1>1. \A t \in Handlers : work[t] = Idle /\ work[t].at = "idle"
    BY DEF ChoreoInit, Idle
<1>2. Placed
    BY <1>1 DEF ChoreoInit, Placed
<1>3. Apart /\ Fresh
    BY <1>1 DEF Apart, Fresh, Touched
<1>4. /\ Lost = [x \in Transfers |-> 0] /\ Extra = [x \in Transfers |-> 0]
      /\ DOMAIN Lost = Transfers /\ DOMAIN Extra = Transfers
    BY <1>1 DEF ChoreoInit, Lost, Extra, Debited, Marking
<1>5. Sum(Lost) = 0 /\ Sum(Extra) = 0
    BY <1>4, NetTotalZero DEF Sum
<1>6. Sum(balances) = Sum(Seeds)
    BY DEF ChoreoInit
<1>7. Balanced
    BY <1>5, <1>6 DEF Balanced
<1> QED BY <1>2, <1>3, <1>7 DEF MoneyInv

(* A step of no handler leaves the money alone. *)
LEMMA MoneyStill ==
    ASSUME MoneyInv,
           UNCHANGED <<balances, processedDebits, processedCredits, work, refunds, overlapped>>
    PROVE  MoneyInv'
<1>1. Placed' <=> Placed
    BY DEF Placed
<1>2. (Apart' <=> Apart) /\ (Fresh' <=> Fresh)
    BY DEF Apart, Fresh, Touched
<1>3. Lost' = Lost /\ Extra' = Extra
    BY DEF Lost, Extra, Debited, Credited, Marking
<1>4. Balanced' <=> Balanced
    BY <1>3 DEF Balanced, Sum
<1> QED BY <1>1, <1>2, <1>4 DEF MoneyInv

(* Every step keeps the money where the transfers say. *)
LEMMA MoneyStep == CoreInv /\ CoreInv' /\ MoneyInv /\ [ChoreoNext]_choreoVars => MoneyInv'
<1> SUFFICES ASSUME CoreInv, CoreInv', MoneyInv, [ChoreoNext]_choreoVars PROVE MoneyInv'
    OBVIOUS
<1> USE DEF CoreInv
<1>1. CASE UNCHANGED choreoVars
    BY <1>1, MoneyStill DEF choreoVars
<1>2. ASSUME NEW x \in Transfers, InitiateTransfer(x) PROVE MoneyInv'
    BY <1>2, MoneyStill DEF InitiateTransfer, accountVars
<1>3. ASSUME NEW e \in bus, HandleOutcome(e) \/ ApplyEvent(e) PROVE MoneyInv'
    BY <1>3, MoneyStill DEF HandleOutcome, ApplyEvent, accountVars
<1>4. ASSUME NEW e \in bus, NEW t \in Handlers,
             HandleTransferInitiated(t, e) \/ HandleAccountDebited(t, e)
      PROVE  MoneyInv'
    <2>1. /\ UNCHANGED <<balances, processedDebits, processedCredits, refunds>>
          /\ work[t] = Idle /\ From[e.transfer] \in Places /\ To[e.transfer] \in Places
        BY <1>4, HandleFacts DEF accountVars, Places
    <2>2. CASE UNCHANGED <<work, overlapped>>
        BY <2>1, <2>2, MoneyStill
    <2>3. CASE /\ e.type = "Initiated" /\ e.transfer \notin processedDebits
               /\ Begin(t, e, From[e.transfer])
        BY <2>1, <2>3, MoneyBegin
    <2>4. CASE /\ e.type = "Debited" /\ e.transfer \notin processedCredits
               /\ e.transfer \in processedDebits
               /\ Begin(t, e, To[e.transfer])
        BY <2>1, <2>4, MoneyBegin
    <2> QED BY <1>4, <2>2, <2>3, <2>4, HandleFacts
<1>5. ASSUME NEW t \in Handlers, ReadDebit(t) PROVE MoneyInv'
    <2>1. /\ work[t].at = "read" /\ work[t].type = "Initiated"
          /\ UNCHANGED <<balances, processedDebits, processedCredits, refunds, overlapped>>
        BY <1>5 DEF ReadDebit, accountVars, Keep
    <2>2. CASE HandlerDone(t)
        BY <2>1, <2>2, MoneyRefuse
    <2>3. CASE ~HandlerDone(t)
        <3> DEFINE b == balances[work[t].account] - Amount[work[t].transfer]
        <3>1. /\ work[t].account \in DOMAIN balances
              /\ balances[work[t].account] >= Amount[work[t].transfer]
              /\ work' = [work EXCEPT ![t].at = "write", ![t].balance = b]
            BY <1>5, <2>3 DEF ReadDebit
        <3>2. b \in Int
            BY <2>1, <3>1, Busy, ChoreographyAssumption DEF TypeOK
        <3>3. b = IF work[t].type = "Initiated"
                  THEN balances[work[t].account] - Amount[work[t].transfer]
                  ELSE balances[work[t].account] + Amount[work[t].transfer]
            BY <2>1
        <3> HIDE DEF b
        <3>4. Advanced(t, "write", b)
            BY <2>1, <3>1, <3>2, AdvanceWork
        <3> QED BY <2>1, <3>1, <3>2, <3>3, <3>4, MoneyRead
    <2> QED BY <2>2, <2>3
<1>6. ASSUME NEW t \in Handlers, ReadCredit(t) PROVE MoneyInv'
    <2>1. /\ work[t].at = "read" /\ work[t].type = "Debited"
          /\ UNCHANGED <<processedDebits, processedCredits, overlapped>>
        BY <1>6 DEF ReadCredit, Keep
    <2>2. CASE work[t].account \notin DOMAIN balances
        <3>1. Refund(work[t].transfer) /\ HandlerDone(t)
            BY <1>6, <2>2 DEF ReadCredit
        <3> QED BY <2>1, <2>2, <3>1, MoneyRefund
    <2>3. CASE work[t].account \in DOMAIN balances
        <3> DEFINE b == balances[work[t].account] + Amount[work[t].transfer]
        <3>1. /\ UNCHANGED <<balances, refunds>>
              /\ work' = [work EXCEPT ![t].at = "write", ![t].balance = b]
            BY <1>6, <2>3 DEF ReadCredit
        <3>2. b \in Int
            BY <2>1, <2>3, Busy, ChoreographyAssumption DEF TypeOK
        <3>3. b = IF work[t].type = "Initiated"
                  THEN balances[work[t].account] - Amount[work[t].transfer]
                  ELSE balances[work[t].account] + Amount[work[t].transfer]
            BY <2>1
        <3> HIDE DEF b
        <3>4. Advanced(t, "write", b)
            BY <2>1, <3>1, <3>2, AdvanceWork
        <3> QED BY <2>1, <2>3, <3>1, <3>2, <3>3, <3>4, MoneyRead
    <2> QED BY <2>2, <2>3
<1>7. ASSUME NEW t \in Handlers, Write(t) PROVE MoneyInv'
    <2>1. /\ work[t].at = "write"
          /\ balances' = [balances EXCEPT ![work[t].account] = work[t].balance]
          /\ work' = [work EXCEPT ![t].at = "mark"]
          /\ UNCHANGED <<processedDebits, processedCredits, refunds, overlapped>>
        BY <1>7 DEF Write, Keep
    <2>2. work[t].balance \in Int
        BY <2>1, Busy
    <2>3. Advanced(t, "mark", work[t].balance)
        BY <2>1, <2>2, AdvanceWork
    <2> QED BY <2>1, <2>3, MoneyWrite
<1>8. ASSUME NEW t \in Handlers, Mark(t) PROVE MoneyInv'
    BY <1>8, MoneyMark
<1> QED BY <1>1, <1>2, <1>3, <1>4, <1>5, <1>6, <1>7, <1>8 DEF ChoreoNext

(* Until two handlers have one account or one transfer at once, the money  *)
(* of the account service is, between handlers, what was seeded, less what *)
(* was debited and neither credited nor refunded, plus what a repeated     *)
(* AccountDebited event had refunded again: for every set of transfers,    *)
(* threads and accounts and every order and number of deliveries.          *)
THEOREM MoneyAlwaysConserved == ChoreoSpec => []MoneyConserved
<1>1. CoreInv /\ MoneyInv => MoneyConserved
    <2> SUFFICES ASSUME CoreInv, MoneyInv, ~overlapped, \A t \in Handlers : work[t] = Idle
                 PROVE  Sum(balances) = Sum(Seeds) - Sum(Unsettled) + Sum(Extra)
        BY DEF MoneyConserved
    <2>1. \A x, type : ~Marking(x, type)
        BY DEF Marking, Idle
    <2>2. Lost = Unsettled
        BY <2>1 DEF Lost, Unsettled, Debited, Credited
    <2>3. /\ Sum(Lost) \in Int /\ Sum(Extra) \in Int
          /\ Sum(balances) \in Int /\ Sum(Seeds) \in Int
        BY Weights DEF CoreInv
    <2>4. Sum(balances) + Sum(Lost) = Sum(Seeds) + Sum(Extra)
        BY DEF MoneyInv, Balanced
    <2> QED BY <2>2, <2>3, <2>4
<1>2. ChoreoSpec => [](CoreInv /\ MoneyInv)
    BY CoreInit, CoreStep, MoneyInit, MoneyStep, PTL DEF ChoreoSpec
<1> QED BY <1>1, <1>2, PTL
-------------------------------------------------------------------------------
(* No account is overdrawn. *)

(* An account that no negative amount touches is not in debt, nor is what  *)
(* a handler is about to write to it.                                      *)
Solvent ==
    /\ \A a \in DOMAIN Seeds : Sound(a) => balances[a] >= 0
    /\ \A t \in Handlers : work[t].at = "write" /\ Sound(work[t].account) =>
          work[t].balance >= 0

(* Only what a handler reads, writes or refunds can disturb it. *)
LEMMA SolventStep == CoreInv /\ MoneyInv /\ Solvent /\ [ChoreoNext]_choreoVars => Solvent'
<1> SUFFICES ASSUME CoreInv, MoneyInv, Solvent, [ChoreoNext]_choreoVars PROVE Solvent'
    OBVIOUS
<1> USE DEF CoreInv
<1>1. ASSUME UNCHANGED <<balances, work>> PROVE Solvent'
    BY <1>1 DEF Solvent, Sound
<1>2. ASSUME balances' = balances, NEW t \in Handlers, work'[t].at # "write",
             \A u \in Handlers \ {t} : work'[u] = work[u]
      PROVE  Solvent'
    BY <1>2 DEF Solvent, Sound
<1>3. ASSUME balances' = balances, NEW t \in Handlers, work[t].at = "read",
             NEW b \in Int, Advanced(t, "write", b), Sound(work[t].account) => b >= 0
      PROVE  Solvent'
    <2>1. ASSUME NEW u \in Handlers, work'[u].at = "write", Sound(work'[u].account)
          PROVE  work'[u].balance >= 0
        <3>1. CASE u = t
            BY <1>3, <2>1, <3>1 DEF Advanced
        <3>2. CASE u # t
            BY <1>3, <2>1, <3>2 DEF Advanced, Solvent
        <3> QED BY <3>1, <3>2
    <2> QED BY <1>3, <2>1 DEF Solvent, Sound
<1>4. ASSUME NEW t \in Handlers, work[t].at # "idle", work[t].account \in DOMAIN Seeds,
             Sound(work[t].account)
      PROVE  /\ Amount[work[t].transfer] \in Int /\ Amount[work[t].transfer] >= 0
             /\ balances[work[t].account] \in Int /\ balances[work[t].account] >= 0
    <2>1. work[t].transfer \in Transfers
        BY <1>4, Busy
    <2>2. work[t].account \in {From[work[t].transfer], To[work[t].transfer]}
        BY <1>4 DEF MoneyInv, Placed
    <2>3. Amount[work[t].transfer] \in Int /\ Amount[work[t].transfer] >= 0
        BY <1>4, <2>1, <2>2, ChoreographyAssumption DEF Sound
    <2> QED BY <1>4, <2>3 DEF Solvent, TypeOK
<1>5. CASE UNCHANGED choreoVars
    BY <1>1, <1>5 DEF choreoVars
<1>6. ASSUME NEW x \in Transfers, InitiateTransfer(x) PROVE Solvent'
    BY <1>1, <1>6 DEF InitiateTransfer, accountVars
<1>7. ASSUME NEW e \in bus, HandleOutcome(e) \/ ApplyEvent(e) PROVE Solvent'
    BY <1>1, <1>7 DEF HandleOutcome, ApplyEvent, accountVars
<1>8. ASSUME NEW e \in bus, NEW t \in Handlers,
             HandleTransferInitiated(t, e) \/ HandleAccountDebited(t, e)
      PROVE  Solvent'
    <2>1. balances' = balances /\ From[e.transfer] \in Places /\ To[e.transfer] \in Places
        BY <1>8, HandleFacts DEF accountVars, Places
    <2>2. CASE UNCHANGED work
        BY <1>1, <2>1, <2>2
    <2>3. ASSUME NEW account \in Places, e.type \in {"Initiated", "Debited"},
                 Begin(t, e, account)
          PROVE  Solvent'
        <3>1. work'[t].at = "read" /\ \A u \in Handlers \ {t} : work'[u] = work[u]
            BY <2>3, BeginWork
        <3> QED BY <1>2, <2>1, <3>1
    <2> QED BY <1>8, <2>1, <2>2, <2>3, HandleFacts
<1>9. ASSUME NEW t \in Handlers, ReadDebit(t) PROVE Solvent'
    <2>1. work[t].at = "read" /\ balances' = balances
        BY <1>9 DEF ReadDebit, accountVars
    <2>2. CASE HandlerDone(t)
        <3>1. work'[t] = Idle /\ \A u \in Handlers \ {t} : work'[u] = work[u]
            BY <2>2, FinishWork
        <3> QED BY <1>2, <2>1, <3>1 DEF Idle
    <2>3. CASE ~HandlerDone(t)
        <3>1. PICK b \in Int : b = balances[work[t].account] - Amount[work[t].transfer]
            BY <1>9, <2>1, <2>3, Busy, ChoreographyAssumption DEF ReadDebit, TypeOK
        <3>2. /\ work[t].account \in DOMAIN Seeds
              /\ balances[work[t].account] >= Amount[work[t].transfer]
              /\ work' = [work EXCEPT ![t].at = "write", ![t].balance = b]
            BY <1>9, <2>3, <3>1 DEF ReadDebit, TypeOK
        <3>3. Advanced(t, "write", b)
            BY <2>1, <3>2, AdvanceWork
        <3>4. Sound(work[t].account) => b >= 0
            BY <1>4, <2>1, <3>1, <3>2
        <3> QED BY <1>3, <2>1, <3>3, <3>4
    <2> QED BY <2>2, <2>3
<1>10. ASSUME NEW t \in Handlers, ReadCredit(t) PROVE Solvent'
    <2>1. work[t].at = "read" /\ work[t].type = "Debited" /\ work[t].transfer \in Transfers
        BY <1>10, Busy DEF ReadCredit
    <2>2. CASE work[t].account \in DOMAIN Seeds
        <3>1. PICK b \in Int : b = balances[work[t].account] + Amount[work[t].transfer]
            BY <2>1, <2>2, ChoreographyAssumption DEF TypeOK
        <3>2. /\ balances' = balances
              /\ work' = [work EXCEPT ![t].at = "write", ![t].balance = b]
            BY <1>10, <2>2, <3>1 DEF ReadCredit, TypeOK
        <3>3. Advanced(t, "write", b)
            BY <2>1, <3>2, AdvanceWork
        <3>4. Sound(work[t].account) => b >= 0
            BY <1>4, <2>1, <2>2, <3>1
        <3> QED BY <1>3, <2>1, <3>2, <3>3, <3>4
    <2>3. CASE work[t].account \notin DOMAIN Seeds
        <3> DEFINE x == work[t].transfer
        <3>1. Refund(x) /\ HandlerDone(t)
            BY <1>10, <2>3 DEF ReadCredit, TypeOK
        <3>2. work'[t] = Idle /\ \A u \in Handlers \ {t} : work'[u] = work[u]
            BY <3>1, FinishWork
        <3>3. \A u \in Handlers : work'[u].at = "write" => work'[u] = work[u]
            BY <3>2 DEF Idle
        <3>4. ASSUME NEW a \in DOMAIN Seeds, Sound(a) PROVE balances'[a] >= 0
            <4>1. balances[a] \in Int /\ balances[a] >= 0
                BY <3>4 DEF Solvent, TypeOK
            <4>2. a = From[x] => Amount[x] \in Int /\ Amount[x] >= 0
                BY <2>1, <3>4, ChoreographyAssumption DEF Sound
            <4>3. balances'[a] = IF a = From[x] THEN balances[a] + Amount[x] ELSE balances[a]
                BY <3>1 DEF Refund, TypeOK
            <4> QED BY <4>1, <4>2, <4>3
        <3> QED BY <3>3, <3>4 DEF Solvent, Sound
    <2> QED BY <2>2, <2>3
<1>11. ASSUME NEW t \in Handlers, Write(t) PROVE Solvent'
    <2>1. /\ work[t].at = "write" /\ work[t].balance \in Int
          /\ balances' = [balances EXCEPT ![work[t].account] = work[t].balance]
          /\ work' = [work EXCEPT ![t].at = "mark"]
        BY <1>11, Busy DEF Write
    <2>2. Advanced(t, "mark", work[t].balance)
        BY <2>1, AdvanceWork
    <2>3. \A a \in DOMAIN Seeds : Sound(a) => balances'[a] >= 0
        BY <2>1 DEF Solvent, TypeOK
    <2>4. \A u \in Handlers : work'[u].at = "write" => work'[u] = work[u]
        BY <2>2 DEF Advanced
    <2> QED BY <2>3, <2>4 DEF Solvent, Sound
<1>12. ASSUME NEW t \in Handlers, Mark(t) PROVE Solvent'
    <2>1. balances' = balances /\ HandlerDone(t)
        BY <1>12 DEF Mark
    <2>2. work'[t] = Idle /\ \A u \in Handlers \ {t} : work'[u] = work[u]
        BY <2>1, FinishWork
    <2> QED BY <1>2, <2>1, <2>2 DEF Idle
<1> QED
    BY <1>5, <1>6, <1>7, <1>8, <1>9, <1>10, <1>11, <1>12 DEF ChoreoNext

(* Whatever is delivered late, again or in another order, and however the  *)
(* handlers race: a transfer reported as completed was credited, and no    *)
(* account that only amounts of at least zero touch is overdrawn.          *)
THEOREM CompletedAlwaysCredited == ChoreoSpec => []CompletedMeansCredited
<1>1. CoreInv /\ Solvent => CompletedMeansCredited
    <2> SUFFICES ASSUME CoreInv, Solvent PROVE CompletedMeansCredited
        OBVIOUS
    <2>1. \A a \in DOMAIN balances : Sound(a) => balances[a] >= 0
        BY DEF CoreInv, TypeOK, Solvent
    <2>2. ASSUME NEW x \in DOMAIN view, view[x].status = "Completed"
          PROVE  x \in processedCredits
        <3>1. PICK e \in applied :
                 e.transfer = x /\ view[x] = [status |-> Status[e.type], at |-> e.at]
            BY DEF CoreInv, ReportsTrue
        <3>2. e \in bus /\ e.type \in EventTypes /\ Status[e.type] = "Completed"
            BY <2>2, <3>1 DEF CoreInv, TypeOK, Events
        <3>3. e.type = "Credited"
            BY <3>2 DEF Status, EventTypes
        <3> QED BY <3>1, <3>2, <3>3 DEF CoreInv, EventsTrue
    <2> QED BY <2>1, <2>2 DEF CompletedMeansCredited, CoreInv, ReportsTrue
<1>2. ChoreoInit => Solvent
    BY DEF ChoreoInit, Solvent, Sound, Idle
<1> QED
    BY <1>1, <1>2, CoreInit, CoreStep, MoneyInit, MoneyStep, SolventStep, PTL DEF ChoreoSpec
===============================================================================
