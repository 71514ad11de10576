------------------------------- MODULE EventBus -------------------------------
(***************************************************************************)
(* src/src/log/event_bus.rs as WiredEventBus of                            *)
(* src/src/service/event_bus_wiring.rs puts it together: one partitioned   *)
(* bus, its idempotent producer, its fencing tokens, its transactional     *)
(* producer, read by a consumer group whose consumers hand what they read  *)
(* to an IdempotentHandler.  Threads share all of it; a step is one access *)
(* to an atomic or one critical section.                                   *)
(*                                                                         *)
(* A message stands for key, payload and timestamp by its id, which is     *)
(* also the transaction id the handler deduplicates by.  The loop of a     *)
(* consumer (read from the committed offset, handle in order, commit) is   *)
(* not in the repository.                                                  *)
(*                                                                         *)
(* History: sent, what callers sent in the open transaction and in the     *)
(* ones they committed; received, what the consumers read; handled, what   *)
(* the handler succeeded with; evicted, the ids the service has forgotten; *)
(* overlaps, the uses that overlapped another one of the same thing.       *)
(***************************************************************************)
EXTENDS Idempotency, FiniteSets, TLC

CONSTANTS
    Threads,
    Keys,
    Hash,               \* hash of each key
    NumPartitions,      \* as asked for; at least one is made
    Consumers,
    MaxSeq,             \* sequence numbers the callers of produce choose from
    MaxCalls            \* bound on calls

ASSUME EventBusAssumption ==
    /\ IsFiniteSet(Threads) /\ IsFiniteSet(Keys) /\ IsFiniteSet(Consumers)
    /\ Hash \in [Keys -> Nat] /\ NumPartitions \in Nat /\ MaxSeq \in Nat /\ MaxCalls \in Nat

VARIABLES
    log,                \* partitions
    nextOffset,
    lastSeq,            \* of the idempotent producer
    acknowledged,
    epoch, registrations,
    inTransaction, pending,
    committed,          \* offsets of the consumer group
    group,              \* its consumers: <<id, heartbeat is recent>>
    processed,          \* of the handler's IdempotencyService
    frame,              \* what each thread is doing
    calls,
    sent, received, handled, evicted, overlaps

busVars == <<log, nextOffset>>
producerVars == <<lastSeq, acknowledged>>
fenceVars == <<epoch, registrations>>
txVars == <<inTransaction, pending>>
groupVars == <<committed, group>>
handlerVars == <<processed, handled, evicted>>
vars == <<log, nextOffset, lastSeq, acknowledged, epoch, registrations,
          inTransaction, pending, committed, group, processed, frame, calls,
          sent, received, handled, evicted, overlaps>>

Count == IF NumPartitions > 1 THEN NumPartitions ELSE 1
Partitions == 0 .. Count - 1
PartitionFor(key) == Hash[key] % Count

Own == "producer"       \* the id given to WiredEventBus::new
Default == "default"

Nothing == <<"nothing", 0>>     \* in use
Idle == [at |-> "idle", key |-> 0, id |-> <<>>, value |-> 0, queue |-> <<>>, reads |-> {},
         use |-> Nothing]

Init ==
    /\ log = [p \in Partitions |-> <<>>]
    /\ nextOffset = 0
    /\ lastSeq = 0
    /\ acknowledged = {}
    /\ epoch = 2
    /\ registrations = [producer \in {Own} |-> 1]
    /\ inTransaction = FALSE
    /\ pending = <<>>
    /\ committed = [p \in Partitions |-> 0]
    /\ group = <<>>
    /\ processed = <<>>
    /\ frame = [t \in Threads |-> Idle]
    /\ calls = 0
    /\ sent = [open |-> {}, committed |-> {}]
    /\ received = {}
    /\ handled = <<>>
    /\ evicted = {}
    /\ overlaps = {}

Call(t) == frame[t].at = "idle" /\ calls < MaxCalls /\ calls' = calls + 1
At(t, label) == frame[t].at = label /\ UNCHANGED calls
Updated(f, g) == [x \in DOMAIN f |-> IF x \in DOMAIN g THEN g[x] ELSE f[x]]
Enter(t, f) == frame' = [frame EXCEPT ![t] = Updated(Idle, f)]
Become(t, f) == frame' = [frame EXCEPT ![t] = Updated(@, f)]
GoTo(t, label) == Become(t, [at |-> label])
Return(t) == frame' = [frame EXCEPT ![t] = Idle]

(* Whether thread t uses thing while another thread does. *)
Using(u, thing) == frame[u].at # "idle" /\ frame[u].use = thing
Overlap(t, thing) ==
    overlaps' = IF \E u \in Threads \ {t} : Using(u, thing)
                THEN overlaps \cup {thing} ELSE overlaps

-----------------------------------------------------------------------------
(* PartitionedEventBus::produce: the offset, then the partition. *)
TakeOffset(t) ==
    /\ At(t, "offset")
    /\ nextOffset' = nextOffset + 1
    /\ Become(t, [at |-> "push", value |-> nextOffset])
    /\ UNCHANGED <<log, producerVars, fenceVars, txVars, groupVars, handlerVars,
                   sent, received, overlaps>>

Push(t) ==
    /\ At(t, "push")
    /\ log' = [log EXCEPT ![PartitionFor(frame[t].key)] =
                  Append(@, [offset |-> frame[t].value, id |-> frame[t].id])]
    /\ GoTo(t, IF frame[t].id[1] = "tx" THEN "publish" ELSE "acknowledge")
    /\ UNCHANGED <<nextOffset, producerVars, fenceVars, txVars, groupVars, handlerVars,
                   sent, received, overlaps>>

Acknowledge(t) ==
    /\ At(t, "acknowledge")
    /\ acknowledged' = acknowledged \cup {frame[t].id}
    /\ Return(t)
    /\ UNCHANGED <<busVars, lastSeq, fenceVars, txVars, groupVars, handlerVars,
                   sent, received, overlaps>>

(* Mutant: the set of acknowledged sequence numbers is not looked at. *)
IdempotentProduceBlind(t, key, seq) ==
    /\ Call(t)
    /\ Enter(t, [at |-> "offset", key |-> key, id |-> <<Own, seq>>, use |-> <<Own, seq>>])
    /\ Overlap(t, <<Own, seq>>)
    /\ UNCHANGED <<busVars, producerVars, fenceVars, txVars, groupVars, handlerVars,
                   sent, received>>

(* IdempotentProducer::produce; the caller chooses the sequence number and *)
(* repeats it to retry.                                                    *)
IdempotentProduce(t, key, seq) ==
    /\ Call(t)
    /\ \/ <<Own, seq>> \in acknowledged /\ UNCHANGED <<frame, overlaps>>
       \/ /\ <<Own, seq>> \notin acknowledged
          /\ Enter(t, [at |-> "offset", key |-> key, id |-> <<Own, seq>>,
                       use |-> <<Own, seq>>])
          /\ Overlap(t, <<Own, seq>>)
    /\ UNCHANGED <<busVars, producerVars, fenceVars, txVars, groupVars, handlerVars,
                   sent, received>>

-----------------------------------------------------------------------------
(* FencingToken::register_producer, of fence and of produce_idempotent:    *)
(* the epoch, then the registration.                                       *)
TakeEpoch(t, producer, key, queue) ==
    /\ epoch' = epoch + 1
    /\ Enter(t, [at |-> "register", key |-> key, id |-> <<producer, 0>>, value |-> epoch,
                 queue |-> queue])
    /\ UNCHANGED <<busVars, producerVars, registrations, txVars, groupVars, handlerVars,
                   sent, received, overlaps>>

Fence(t, producer) == Call(t) /\ TakeEpoch(t, producer, 0, <<"fence">>)

ProduceIdempotent(t, key) == Call(t) /\ TakeEpoch(t, Default, key, <<>>)

Register(t) ==
    /\ At(t, "register")
    /\ registrations' = [producer \in DOMAIN registrations \cup {frame[t].id[1]} |->
                            IF producer = frame[t].id[1] THEN frame[t].value
                            ELSE registrations[producer]]
    /\ IF frame[t].queue = <<"fence">> THEN Return(t) ELSE GoTo(t, "sequence")
    /\ UNCHANGED <<busVars, producerVars, epoch, txVars, groupVars, handlerVars,
                   sent, received, overlaps>>

NextSequence(t) ==
    /\ At(t, "sequence")
    /\ lastSeq' = lastSeq + 1
    /\ Become(t, [at |-> "valid", id |-> <<Default, lastSeq + 1>>])
    /\ UNCHANGED <<busVars, acknowledged, fenceVars, txVars, groupVars, handlerVars,
                   sent, received, overlaps>>

IsValid(t) ==
    /\ At(t, "valid")
    /\ IF registrations[Default] = frame[t].value THEN GoTo(t, "offset") ELSE Return(t)
    /\ UNCHANGED <<busVars, producerVars, fenceVars, txVars, groupVars, handlerVars,
                   sent, received, overlaps>>

-----------------------------------------------------------------------------
(* TransactionalProducer: the flag and the pending messages are changed in *)
(* separate steps.                                                         *)
TxCall(t, label, key, id) ==
    /\ Enter(t, [at |-> label, key |-> key, id |-> id, use |-> <<"tx", 0>>])
    /\ Overlap(t, <<"tx", 0>>)
    /\ UNCHANGED <<busVars, producerVars, fenceVars, groupVars, handlerVars, received>>

Begin(t) ==
    /\ Call(t)
    /\ inTransaction' = TRUE
    /\ TxCall(t, "clear", 0, <<>>)
    /\ sent' = [sent EXCEPT !.open = {}]
    /\ UNCHANGED pending

Abort(t) ==
    /\ Call(t)
    /\ inTransaction' = FALSE
    /\ TxCall(t, "clear", 0, <<>>)
    /\ sent' = [sent EXCEPT !.open = {}]
    /\ UNCHANGED pending

(* Mutant: what waits stays for the next transaction. *)
ClearNothing(t) ==
    /\ At(t, "clear")
    /\ Return(t)
    /\ UNCHANGED <<busVars, producerVars, fenceVars, txVars, groupVars, handlerVars,
                   sent, received, overlaps>>

Clear(t) ==
    /\ At(t, "clear")
    /\ pending' = <<>>
    /\ Return(t)
    /\ UNCHANGED <<busVars, producerVars, fenceVars, inTransaction, groupVars, handlerVars,
                   sent, received, overlaps>>

Send(t, key) ==
    /\ Call(t)
    /\ IF inTransaction
       THEN /\ TxCall(t, "send", key, <<"tx", calls>>)
            /\ sent' = [sent EXCEPT !.open = @ \cup {<<"tx", calls>>}]
       ELSE UNCHANGED <<frame, overlaps, busVars, producerVars, fenceVars, groupVars,
                        handlerVars, sent, received>>
    /\ UNCHANGED txVars

AddPending(t) ==
    /\ At(t, "send")
    /\ pending' = Append(pending, <<frame[t].key, frame[t].id>>)
    /\ Return(t)
    /\ UNCHANGED <<busVars, producerVars, fenceVars, inTransaction, groupVars, handlerVars,
                   sent, received, overlaps>>

Commit(t) ==
    /\ Call(t)
    /\ IF inTransaction
       THEN /\ TxCall(t, "copy", 0, <<>>)
            /\ sent' = [open |-> {}, committed |-> sent.committed \cup sent.open]
       ELSE UNCHANGED <<frame, overlaps, busVars, producerVars, fenceVars, groupVars,
                        handlerVars, sent, received>>
    /\ UNCHANGED txVars

CopyPending(t) ==
    /\ At(t, "copy")
    /\ Become(t, [at |-> "publish", queue |-> pending])
    /\ UNCHANGED <<busVars, producerVars, fenceVars, txVars, groupVars, handlerVars,
                   sent, received, overlaps>>

PublishPending(t) ==
    /\ At(t, "publish")
    /\ LET queue == frame[t].queue
       IN  IF queue = <<>>
           THEN inTransaction' = FALSE /\ GoTo(t, "clear")
           ELSE /\ Become(t, [at |-> "offset", key |-> Head(queue)[1], id |-> Head(queue)[2],
                              queue |-> Tail(queue)])
                /\ UNCHANGED inTransaction
    /\ UNCHANGED <<busVars, producerVars, fenceVars, pending, groupVars, handlerVars,
                   sent, received, overlaps>>

-----------------------------------------------------------------------------
(* ConsumerGroup. *)
RegisterConsumer(c) ==
    /\ calls < MaxCalls /\ calls' = calls + 1
    /\ group' = Append(group, <<c, TRUE>>)
    /\ UNCHANGED <<busVars, producerVars, fenceVars, txVars, committed, handlerVars, frame,
                   sent, received, overlaps>>

(* More time passes than the timeout a rebalance is called with. *)
TimePasses ==
    /\ \E i \in DOMAIN group : group[i][2]
    /\ group' = [i \in DOMAIN group |-> <<group[i][1], FALSE>>]
    /\ UNCHANGED <<busVars, producerVars, fenceVars, txVars, committed, handlerVars, frame,
                   calls, sent, received, overlaps>>

(* Only the first entry of a consumer is refreshed. *)
Heartbeat(c) ==
    /\ \E i \in DOMAIN group :
          /\ group[i] = <<c, FALSE>>
          /\ \A j \in 1 .. i - 1 : group[j][1] # c
          /\ group' = [group EXCEPT ![i] = <<c, TRUE>>]
    /\ UNCHANGED <<busVars, producerVars, fenceVars, txVars, committed, handlerVars, frame,
                   calls, sent, received, overlaps>>

Rebalance ==
    /\ \E i \in DOMAIN group : ~group[i][2]
    /\ group' = SelectSeq(group, LAMBDA c : c[2])
    /\ UNCHANGED <<busVars, producerVars, fenceVars, txVars, committed, handlerVars, frame,
                   calls, sent, received, overlaps>>

(* Mutant: what lies behind the committed offset is read without the       *)
(* message at it.                                                          *)
ConsumeBehind(p, from) == {i \in DOMAIN log[p] : log[p][i].offset > from}

(* The positions of what is read; what is at a position never changes.     *)
Consume(p, from) == {i \in DOMAIN log[p] : log[p][i].offset >= from}

(* Any consumer may ask: nothing checks that it is still of the group.     *)
Poll(t, p) ==
    /\ Call(t)
    /\ LET read == Consume(p, committed[p])
       IN  /\ read # {}
           /\ Enter(t, [at |-> "handle", key |-> p, reads |-> read])
           /\ received' = received \cup {log[p][i].offset : i \in read}
    /\ UNCHANGED <<busVars, producerVars, fenceVars, txVars, groupVars, handlerVars,
                   sent, overlaps>>

(* commit_offset of the last offset read, or of the next one. *)
CommitOffset(t) ==
    /\ At(t, "handle") /\ frame[t].reads = {}
    /\ \E d \in {0, 1} : committed' = [committed EXCEPT ![frame[t].key] = frame[t].value + d]
    /\ Return(t)
    /\ UNCHANGED <<busVars, producerVars, fenceVars, txVars, group, handlerVars,
                   sent, received, overlaps>>

-----------------------------------------------------------------------------
(* IdempotentHandler::process of the next message read. *)
Next1(t) == log[frame[t].key][Min(frame[t].reads)]

Handled(t) ==
    Become(t, [at |-> "handle", use |-> Nothing,
               reads |-> frame[t].reads \ {Min(frame[t].reads)},
               value |-> IF Next1(t).offset > frame[t].value THEN Next1(t).offset
                         ELSE frame[t].value])

ProcessCheck(t) ==
    /\ At(t, "handle") /\ frame[t].reads # {}
    /\ LET id == Next1(t).id
       IN  IF IsProcessed(processed, id)
           THEN Handled(t) /\ UNCHANGED overlaps
           ELSE Become(t, [at |-> "run", use |-> <<"process", id>>])
                /\ Overlap(t, <<"process", id>>)
    /\ UNCHANGED <<busVars, producerVars, fenceVars, txVars, groupVars, handlerVars,
                   sent, received>>

(* The handler succeeds, or fails and the consumer gives up. *)
ProcessRun(t) ==
    /\ At(t, "run")
    /\ LET id == Next1(t).id
       IN  \/ /\ handled' = Append(handled, id)
              /\ GoTo(t, "mark")
           \/ UNCHANGED handled /\ Return(t)
    /\ UNCHANGED <<busVars, producerVars, fenceVars, txVars, groupVars, processed, evicted,
                   sent, received, overlaps>>

(* mark_processed makes room, then writes. *)
ProcessMakeRoom(t) ==
    /\ At(t, "mark")
    /\ processed' = MakeRoom(processed)
    /\ GoTo(t, "insert")
    /\ evicted' = evicted \cup (ToSet(processed) \ ToSet(processed'))
    /\ UNCHANGED <<busVars, producerVars, fenceVars, txVars, groupVars, handled,
                   sent, received, overlaps>>

(* Mutant: the id is not written. *)
ProcessMarkNothing(t) ==
    /\ At(t, "insert")
    /\ Handled(t)
    /\ UNCHANGED <<busVars, producerVars, fenceVars, txVars, groupVars, handlerVars,
                   sent, received, overlaps>>

ProcessMark(t) ==
    /\ At(t, "insert")
    /\ processed' = Insert(processed, Next1(t).id)
    /\ Handled(t)
    /\ UNCHANGED <<busVars, producerVars, fenceVars, txVars, groupVars, handled, evicted,
                   sent, received, overlaps>>

EvictOld ==
    /\ calls < MaxCalls /\ calls' = calls + 1
    /\ \E n \in 1 .. Len(processed) :
          /\ processed' = EvictOlderThan(processed, n)
          /\ evicted' = evicted \cup (ToSet(processed) \ ToSet(processed'))
    /\ UNCHANGED <<busVars, producerVars, fenceVars, txVars, groupVars, handled, frame,
                   sent, received, overlaps>>

Step(t) ==
    \/ TakeOffset(t) \/ Push(t) \/ Acknowledge(t)
    \/ Register(t) \/ NextSequence(t) \/ IsValid(t)
    \/ Clear(t) \/ AddPending(t) \/ CopyPending(t) \/ PublishPending(t)
    \/ CommitOffset(t) \/ ProcessCheck(t) \/ ProcessRun(t)
    \/ ProcessMakeRoom(t) \/ ProcessMark(t)

Next ==
    \/ \E t \in Threads :
          \/ \E key \in Keys :
                \/ ProduceIdempotent(t, key) \/ Send(t, key)
                \/ \E seq \in 1 .. MaxSeq : IdempotentProduce(t, key, seq)
          \/ \E producer \in {Own, Default} : Fence(t, producer)
          \/ Begin(t) \/ Abort(t) \/ Commit(t)
          \/ \E p \in Partitions : Poll(t, p)
          \/ Step(t)
    \/ \E c \in Consumers : RegisterConsumer(c) \/ Heartbeat(c)
    \/ TimePasses \/ Rebalance \/ EvictOld

Spec == Init /\ [][Next]_vars
-----------------------------------------------------------------------------
Messages == UNION {{log[p][i] : i \in DOMAIN log[p]} : p \in Partitions}

Copies(id) == {m \in Messages : m.id = id}

(* "guarantees exactly-once delivery" (IdempotentProducer): a sequence     *)
(* number is on the bus at most once, unless two calls of produce for it   *)
(* overlapped, and once it is acknowledged it is there.                    *)
ExactlyOnce ==
    /\ \A m \in Messages :
          m.id[1] # "tx" /\ m.id \notin overlaps => Cardinality(Copies(m.id)) = 1
    /\ \A id \in acknowledged : Copies(id) # {}

TxIdle == \A t \in Threads : ~Using(t, <<"tx", 0>>)

(* The messages of transactions that are on the bus. *)
TxLogged == {m.id : m \in {n \in Messages : n.id[1] = "tx"}}

(* "a simple all-or-nothing approach" (TransactionalProducer::commit):     *)
(* while the sessions of two threads do not overlap, the bus never shows a *)
(* message of a transaction that is open or was aborted; what was sent     *)
(* between begin and commit enters the partitions in the order of the      *)
(* send calls, no message before an earlier one and none twice; and once   *)
(* commit has returned all of it is there.  The messages of one commit     *)
(* become visible one by one, not "atomically".                            *)
TransactionsWhole ==
    <<"tx", 0>> \notin overlaps =>
        /\ TxLogged \subseteq sent.committed
        /\ TxIdle => sent.committed \subseteq TxLogged
        /\ \A x \in TxLogged : \A y \in sent.committed : y[2] < x[2] => y \in TxLogged
        /\ \A p \in Partitions : \A i, j \in {k \in DOMAIN log[p] : log[p][k].id[1] = "tx"} :
              i < j => log[p][i].id[2] < log[p][j].id[2]

(* A consumer that starts at the committed offset misses nothing behind    *)
(* it: every message with a smaller offset was read by some consumer,      *)
(* except one that entered its partition behind a larger offset, because   *)
(* produce takes the offset before it takes the partition.                 *)
NothingSkipped ==
    \A p \in Partitions : \A i \in DOMAIN log[p] :
        log[p][i].offset < committed[p] =>
            \/ log[p][i].offset \in received
            \/ \E j \in 1 .. i - 1 : log[p][j].offset > log[p][i].offset

(* What is read again, or was produced twice, is handled once: the handler *)
(* succeeds a second time with one id only after two threads had it at     *)
(* once, or after the service had forgotten it.                            *)
HandledOnce ==
    \A i, j \in DOMAIN handled :
        i # j /\ handled[i] = handled[j] =>
            <<"process", handled[i]>> \in overlaps \/ handled[i] \in evicted
=============================================================================
