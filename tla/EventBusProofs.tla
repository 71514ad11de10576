---------------------------- MODULE EventBusProofs ----------------------------
(***************************************************************************)
(* What EventBus.tla promises, for any number of threads, keys, partitions *)
(* and calls.                                                              *)
(***************************************************************************)
EXTENDS EventBus, FiniteSetTheorems, SequenceTheorems, WellFoundedInduction, TLAPS

(* A set of numbers that is not empty has a least one. *)
LEMMA Least ==
    ASSUME NEW S \in SUBSET Nat, S # {}
    PROVE  Min(S) \in S /\ \A n \in S : Min(S) <= n
<1>1. PICK x \in S : \A y \in S : ~(<<y, x>> \in OpToRel(<, Nat))
    BY NatLessThanWellFounded, WFMin
<1>2. ASSUME NEW y \in S PROVE x <= y
    <2>1. ~(y < x)
        BY <1>1 DEF OpToRel
    <2> QED BY <2>1
<1> QED BY <1>2 DEF Min

-----------------------------------------------------------------------------
(* Frames. *)

(* A frame is a record with these fields, one for every thread. *)
Fields == {"at", "key", "id", "value", "queue", "reads", "use"}

(* Every thread has a frame. *)
Framed ==
    /\ frame = [u \in Threads |-> frame[u]]
    /\ \A u \in Threads : DOMAIN frame[u] = Fields

(* Thread t's frame after a step; the others are as before. *)
Turns(t, at, key, id, value, queue, reads, use) ==
    /\ Framed'
    /\ \A u \in Threads : u # t => frame'[u] = frame[u]
    /\ frame'[t].at = at /\ frame'[t].key = key /\ frame'[t].id = id
    /\ frame'[t].value = value /\ frame'[t].queue = queue
    /\ frame'[t].reads = reads /\ frame'[t].use = use

(* Become and Enter write the fields they name. *)
LEMMA FieldsWritten ==
    ASSUME Framed, NEW t \in Threads, NEW f
    PROVE  /\ Become(t, f) =>
              /\ Framed'
              /\ \A u \in Threads : u # t => frame'[u] = frame[u]
              /\ \A x \in Fields :
                    frame'[t][x] = IF x \in DOMAIN f THEN f[x] ELSE frame[t][x]
           /\ Enter(t, f) =>
              /\ Framed'
              /\ \A u \in Threads : u # t => frame'[u] = frame[u]
              /\ \A x \in Fields :
                    frame'[t][x] = IF x \in DOMAIN f THEN f[x] ELSE Idle[x]
<1>1. DOMAIN Idle = Fields
    BY DEF Idle, Fields
<1>2. ASSUME Become(t, f)
      PROVE  /\ Framed'
             /\ \A u \in Threads : u # t => frame'[u] = frame[u]
             /\ frame'[t] = Updated(frame[t], f)
    BY <1>2 DEF Become, Framed, Updated
<1>3. ASSUME Enter(t, f)
      PROVE  /\ Framed'
             /\ \A u \in Threads : u # t => frame'[u] = frame[u]
             /\ frame'[t] = Updated(Idle, f)
    BY <1>1, <1>3 DEF Enter, Framed, Updated
<1> QED BY <1>1, <1>2, <1>3 DEF Framed, Updated

(* The shapes of the frames the actions write. *)
LEMMA Shapes ==
    ASSUME Framed, NEW t \in Threads, NEW a, NEW b, NEW c, NEW d, NEW e,
           NEW key, NEW id, NEW value, NEW queue, NEW reads, NEW use,
           key = frame[t].key, id = frame[t].id, value = frame[t].value,
           queue = frame[t].queue, reads = frame[t].reads, use = frame[t].use
    PROVE  /\ Become(t, [at |-> a]) => Turns(t, a, key, id, value, queue, reads, use)
           /\ Become(t, [at |-> a, value |-> b]) => Turns(t, a, key, id, b, queue, reads, use)
           /\ Become(t, [at |-> a, use |-> b]) => Turns(t, a, key, id, value, queue, reads, b)
           /\ Become(t, [at |-> a, id |-> b]) => Turns(t, a, key, b, value, queue, reads, use)
           /\ Become(t, [at |-> a, queue |-> b]) => Turns(t, a, key, id, value, b, reads, use)
           /\ Become(t, [at |-> a, key |-> b, id |-> c, queue |-> d]) =>
                 Turns(t, a, b, c, value, d, reads, use)
           /\ Become(t, [at |-> a, use |-> b, reads |-> c, value |-> d]) =>
                 Turns(t, a, key, id, d, queue, c, b)
           /\ Enter(t, [at |-> a, key |-> b, id |-> c, use |-> d]) =>
                 Turns(t, a, b, c, 0, <<>>, {}, d)
           /\ Enter(t, [at |-> a, key |-> b, id |-> c, value |-> d, queue |-> e]) =>
                 Turns(t, a, b, c, d, e, {}, Nothing)
           /\ Enter(t, [at |-> a, key |-> b, reads |-> c]) =>
                 Turns(t, a, b, <<>>, 0, <<>>, c, Nothing)
           /\ Return(t) => Turns(t, "idle", 0, <<>>, 0, <<>>, {}, Nothing)
<1>1. Become(t, [at |-> a]) => Turns(t, a, key, id, value, queue, reads, use)
    BY FieldsWritten DEF Turns, Fields, Framed
<1>2. Become(t, [at |-> a, value |-> b]) => Turns(t, a, key, id, b, queue, reads, use)
    BY FieldsWritten DEF Turns, Fields, Framed
<1>3. Become(t, [at |-> a, use |-> b]) => Turns(t, a, key, id, value, queue, reads, b)
    BY FieldsWritten DEF Turns, Fields, Framed
<1>4. Become(t, [at |-> a, id |-> b]) => Turns(t, a, key, b, value, queue, reads, use)
    BY FieldsWritten DEF Turns, Fields, Framed
<1>5. Become(t, [at |-> a, queue |-> b]) => Turns(t, a, key, id, value, b, reads, use)
    BY FieldsWritten DEF Turns, Fields, Framed
<1>6. Become(t, [at |-> a, key |-> b, id |-> c, queue |-> d]) =>
          Turns(t, a, b, c, value, d, reads, use)
    BY FieldsWritten DEF Turns, Fields, Framed
<1>7. Become(t, [at |-> a, use |-> b, reads |-> c, value |-> d]) =>
          Turns(t, a, key, id, d, queue, c, b)
    BY FieldsWritten DEF Turns, Fields, Framed
<1>8. Enter(t, [at |-> a, key |-> b, id |-> c, use |-> d]) => Turns(t, a, b, c, 0, <<>>, {}, d)
    BY FieldsWritten DEF Turns, Fields, Framed, Idle
<1>9. Enter(t, [at |-> a, key |-> b, id |-> c, value |-> d, queue |-> e]) =>
          Turns(t, a, b, c, d, e, {}, Nothing)
    BY FieldsWritten DEF Turns, Fields, Framed, Idle
<1>10. Enter(t, [at |-> a, key |-> b, reads |-> c]) =>
          Turns(t, a, b, <<>>, 0, <<>>, c, Nothing)
    BY FieldsWritten DEF Turns, Fields, Framed, Idle
<1>11. Return(t) => Turns(t, "idle", 0, <<>>, 0, <<>>, {}, Nothing)
    <2> SUFFICES ASSUME Return(t) PROVE Turns(t, "idle", 0, <<>>, 0, <<>>, {}, Nothing)
        OBVIOUS
    <2>1. DOMAIN Idle = Fields
        BY DEF Idle, Fields
    <2>2. frame'[t] = Idle /\ \A u \in Threads : u # t => frame'[u] = frame[u]
        BY DEF Return, Framed
    <2>3. Framed'
        BY <2>1, <2>2 DEF Return, Framed
    <2> QED BY <2>2, <2>3 DEF Turns, Idle
<1> QED BY <1>1, <1>2, <1>3, <1>4, <1>5, <1>6, <1>7, <1>8, <1>9, <1>10, <1>11

Rests(t) == Turns(t, "idle", 0, <<>>, 0, <<>>, {}, Nothing)

(* What each step does to its thread's frame. *)
LEMMA Effects ==
    ASSUME Framed, NEW t \in Threads,
           NEW key, NEW id, NEW value, NEW queue, NEW reads, NEW use,
           key = frame[t].key, id = frame[t].id, value = frame[t].value,
           queue = frame[t].queue, reads = frame[t].reads, use = frame[t].use
    PROVE  /\ TakeOffset(t) => Turns(t, "push", key, id, nextOffset, queue, reads, use)
           /\ Push(t) => Turns(t, IF id[1] = "tx" THEN "publish" ELSE "acknowledge",
                               key, id, value, queue, reads, use)
           /\ Acknowledge(t) => Rests(t)
           /\ \A k, n : IdempotentProduce(t, k, n) =>
                 \/ UNCHANGED <<frame, overlaps>>
                 \/ Turns(t, "offset", k, <<Own, n>>, 0, <<>>, {}, <<Own, n>>)
           /\ \A producer, k, q : TakeEpoch(t, producer, k, q) =>
                 Turns(t, "register", k, <<producer, 0>>, epoch, q, {}, Nothing)
           /\ Register(t) =>
                 IF queue = <<"fence">> THEN Rests(t)
                 ELSE Turns(t, "sequence", key, id, value, queue, reads, use)
           /\ NextSequence(t) =>
                 Turns(t, "valid", key, <<Default, lastSeq + 1>>, value, queue, reads, use)
           /\ IsValid(t) => Rests(t) \/ Turns(t, "offset", key, id, value, queue, reads, use)
           /\ Begin(t) \/ Abort(t) => Turns(t, "clear", 0, <<>>, 0, <<>>, {}, <<"tx", 0>>)
           /\ Clear(t) \/ AddPending(t) => Rests(t)
           /\ \A k : Send(t, k) =>
                 IF inTransaction
                 THEN Turns(t, "send", k, <<"tx", calls>>, 0, <<>>, {}, <<"tx", 0>>)
                 ELSE UNCHANGED <<frame, overlaps>>
           /\ Commit(t) =>
                 IF inTransaction
                 THEN Turns(t, "copy", 0, <<>>, 0, <<>>, {}, <<"tx", 0>>)
                 ELSE UNCHANGED <<frame, overlaps>>
           /\ CopyPending(t) => Turns(t, "publish", key, id, value, pending, reads, use)
           /\ PublishPending(t) =>
                 IF queue = <<>> THEN Turns(t, "clear", key, id, value, queue, reads, use)
                 ELSE Turns(t, "offset", Head(queue)[1], Head(queue)[2], value, Tail(queue),
                            reads, use)
           /\ \A p : Poll(t, p) =>
                 Turns(t, "handle", p, <<>>, 0, <<>>, Consume(p, committed[p]), Nothing)
           /\ CommitOffset(t) => Rests(t)
           /\ Handled(t) =>
                 Turns(t, "handle", key, id,
                       IF Next1(t).offset > value THEN Next1(t).offset ELSE value, queue,
                       reads \ {Min(reads)}, Nothing)
           /\ ProcessCheck(t) =>
                 IF IsProcessed(processed, Next1(t).id) THEN Handled(t)
                 ELSE Turns(t, "run", key, id, value, queue, reads, <<"process", Next1(t).id>>)
           /\ ProcessRun(t) => Rests(t) \/ Turns(t, "mark", key, id, value, queue, reads, use)
           /\ ProcessMakeRoom(t) => Turns(t, "insert", key, id, value, queue, reads, use)
           /\ ProcessMark(t) => Handled(t)
<1>1. TakeOffset(t) => Turns(t, "push", key, id, nextOffset, queue, reads, use)
    BY Shapes DEF TakeOffset
<1>2. Push(t) => Turns(t, IF id[1] = "tx" THEN "publish" ELSE "acknowledge",
                        key, id, value, queue, reads, use)
    BY Shapes DEF Push, GoTo
<1>3. Acknowledge(t) => Rests(t)
    BY Shapes DEF Acknowledge, Rests
<1>4. \A k, n : IdempotentProduce(t, k, n) =>
          \/ UNCHANGED <<frame, overlaps>>
          \/ Turns(t, "offset", k, <<Own, n>>, 0, <<>>, {}, <<Own, n>>)
    BY Shapes DEF IdempotentProduce
<1>5. \A producer, k, q : TakeEpoch(t, producer, k, q) =>
          Turns(t, "register", k, <<producer, 0>>, epoch, q, {}, Nothing)
    BY Shapes DEF TakeEpoch
<1>6. Register(t) =>
          IF queue = <<"fence">> THEN Rests(t)
          ELSE Turns(t, "sequence", key, id, value, queue, reads, use)
    BY Shapes DEF Register, GoTo, Rests
<1>7. NextSequence(t) =>
          Turns(t, "valid", key, <<Default, lastSeq + 1>>, value, queue, reads, use)
    BY Shapes DEF NextSequence
<1>8. IsValid(t) => Rests(t) \/ Turns(t, "offset", key, id, value, queue, reads, use)
    BY Shapes DEF IsValid, GoTo, Rests
<1>9. Begin(t) \/ Abort(t) => Turns(t, "clear", 0, <<>>, 0, <<>>, {}, <<"tx", 0>>)
    BY Shapes DEF Begin, Abort, TxCall
<1>10. Clear(t) \/ AddPending(t) => Rests(t)
    BY Shapes DEF Clear, AddPending, Rests
<1>11. \A k : Send(t, k) =>
          IF inTransaction
          THEN Turns(t, "send", k, <<"tx", calls>>, 0, <<>>, {}, <<"tx", 0>>)
          ELSE UNCHANGED <<frame, overlaps>>
    BY Shapes DEF Send, TxCall
<1>12. Commit(t) =>
          IF inTransaction
          THEN Turns(t, "copy", 0, <<>>, 0, <<>>, {}, <<"tx", 0>>)
          ELSE UNCHANGED <<frame, overlaps>>
    BY Shapes DEF Commit, TxCall
<1>13. CopyPending(t) => Turns(t, "publish", key, id, value, pending, reads, use)
    BY Shapes DEF CopyPending
<1>14. PublishPending(t) =>
          IF queue = <<>> THEN Turns(t, "clear", key, id, value, queue, reads, use)
          ELSE Turns(t, "offset", Head(queue)[1], Head(queue)[2], value, Tail(queue),
                     reads, use)
    BY Shapes DEF PublishPending, GoTo
<1>15. \A p : Poll(t, p) =>
          Turns(t, "handle", p, <<>>, 0, <<>>, Consume(p, committed[p]), Nothing)
    BY Shapes DEF Poll
<1>16. CommitOffset(t) => Rests(t)
    BY Shapes DEF CommitOffset, Rests
<1>17. Handled(t) =>
          Turns(t, "handle", key, id,
                IF Next1(t).offset > value THEN Next1(t).offset ELSE value, queue,
                reads \ {Min(reads)}, Nothing)
    BY Shapes DEF Handled
<1>18. ProcessCheck(t) =>
          IF IsProcessed(processed, Next1(t).id) THEN Handled(t)
          ELSE Turns(t, "run", key, id, value, queue, reads, <<"process", Next1(t).id>>)
    BY Shapes DEF ProcessCheck
<1>19. ProcessRun(t) => Rests(t) \/ Turns(t, "mark", key, id, value, queue, reads, use)
    BY Shapes DEF ProcessRun, GoTo, Rests
<1>20. ProcessMakeRoom(t) => Turns(t, "insert", key, id, value, queue, reads, use)
    BY Shapes DEF ProcessMakeRoom, GoTo
<1>21. ProcessMark(t) => Handled(t)
    BY Shapes DEF ProcessMark
<1> QED
    BY <1>1, <1>2, <1>3, <1>4, <1>5, <1>6, <1>7, <1>8, <1>9, <1>10, <1>11, <1>12, <1>13, <1>14, <1>15, <1>16, <1>17, <1>18, <1>19, <1>20, <1>21

-----------------------------------------------------------------------------
(* The core invariant: what every thread's frame holds. *)

(* Names of messages, those of the transactions, the messages, and what a *)
(* transaction collects.                                                   *)
Ids == {Own, Default, "tx"} \X Nat
TxIds == {"tx"} \X Nat
Msgs == [offset : Nat, id : Ids]
Batches == Seq(Keys \X TxIds)

(* Type correctness, the locals of the threads apart. *)
TypeOK ==
    /\ Framed
    /\ log \in [Partitions -> Seq(Msgs)]
    /\ nextOffset \in Nat /\ lastSeq \in Nat /\ epoch \in Nat /\ calls \in Nat
    /\ committed \in [Partitions -> Nat]
    /\ pending \in Batches /\ sent \in [open : SUBSET TxIds, committed : SUBSET TxIds]
    /\ processed \in Seq(Ids) /\ handled \in Seq(Ids)

(* Labels of produce, of a consumer's loop, and of the handler in it. *)
Producing == {"offset", "push", "acknowledge"}
Reading == {"handle", "run", "mark", "insert"}
Running == {"run", "mark", "insert"}

(* Thread t works for the transactional producer. *)
InTx(t) ==
    \/ frame[t].at \in {"clear", "send", "copy", "publish"}
    \/ frame[t].at \in {"offset", "push"} /\ frame[t].id[1] = "tx"

(* The locals each label relies on. *)
LocalOK(t) ==
    /\ frame[t].at \in Producing => frame[t].id \in Ids
    /\ frame[t].at \in {"offset", "push", "sequence", "valid", "send"} => frame[t].key \in Keys
    /\ frame[t].at = "register" =>
          frame[t].value \in Nat /\ (frame[t].queue # <<"fence">> => frame[t].key \in Keys)
    /\ frame[t].at = "push" => frame[t].value \in Nat
    /\ frame[t].at = "acknowledge" => frame[t].id[1] # "tx"
    /\ frame[t].at = "valid" => frame[t].id \in {Default} \X Nat
    /\ frame[t].at = "send" => frame[t].id \in TxIds
    /\ InTx(t) /\ frame[t].at \in {"offset", "push", "publish"} => frame[t].queue \in Batches
    /\ frame[t].at \in Reading =>
          /\ frame[t].key \in Partitions /\ frame[t].value \in Nat
          /\ frame[t].reads \subseteq DOMAIN log[frame[t].key]
    /\ frame[t].at \in Running => frame[t].reads # {}

(* What a thread uses while it must be alone with it. *)
UseOK(t) ==
    /\ frame[t].at \in Producing /\ frame[t].id[1] = Own => frame[t].use = frame[t].id
    /\ InTx(t) => frame[t].use = <<"tx", 0>>
    /\ frame[t].at \in Running => frame[t].use = <<"process", Next1(t).id>>

(* Two threads that use the same thing have been noticed. *)
Exclusive ==
    \A t, u \in Threads :
        t # u /\ frame[t].at # "idle" /\ frame[u].at # "idle" /\ frame[t].use = frame[u].use =>
            frame[t].use \in overlaps \cup {Nothing}

(* The core invariant. *)
CoreInv == TypeOK /\ Exclusive /\ \A t \in Threads : LocalOK(t) /\ UseOK(t)

(* Messages are only added. *)
LogGrows ==
    \A p \in Partitions :
        /\ DOMAIN log[p] \subseteq DOMAIN log'[p]
        /\ \A i \in DOMAIN log[p] : log'[p][i] = log[p][i]

(* A log that grows leaves the next message of a reader as it is. *)
LEMMA NextSame ==
    ASSUME CoreInv, LogGrows, NEW t \in Threads, frame[t].at \in Reading, frame[t].reads # {},
           frame'[t].key = frame[t].key, frame'[t].reads = frame[t].reads
    PROVE  /\ Next1(t)' = Next1(t)
           /\ Min(frame[t].reads) \in DOMAIN log[frame[t].key]
           /\ Next1(t).id \in Ids /\ Next1(t).offset \in Nat
<1>1. /\ frame[t].key \in Partitions
      /\ frame[t].reads \subseteq DOMAIN log[frame[t].key]
    BY DEF CoreInv, LocalOK
<1>2. log[frame[t].key] \in Seq(Msgs)
    BY <1>1 DEF CoreInv, TypeOK
<1>3. frame[t].reads \subseteq Nat
    BY <1>1, <1>2
<1>4. Min(frame[t].reads) \in frame[t].reads
    BY <1>3, Least
<1>5. Next1(t) \in Msgs
    BY <1>1, <1>2, <1>4 DEF Next1
<1>6. Next1(t)' = Next1(t)
    BY <1>1, <1>4 DEF Next1, LogGrows
<1> QED BY <1>1, <1>4, <1>5, <1>6 DEF Msgs

(* A thread whose frame stays keeps what it holds. *)
LEMMA OthersKept ==
    ASSUME CoreInv, LogGrows, NEW u \in Threads, frame'[u] = frame[u]
    PROVE  LocalOK(u)' /\ UseOK(u)'
<1>1. LocalOK(u) /\ UseOK(u)
    BY DEF CoreInv
<1>2. LocalOK(u)'
    BY <1>1 DEF LocalOK, InTx, LogGrows
<1>3. frame[u].at \in Running => Next1(u)' = Next1(u)
    BY <1>1, NextSame DEF LocalOK, Running, Reading
<1>4. UseOK(u)'
    BY <1>1, <1>3 DEF UseOK, InTx
<1> QED BY <1>2, <1>4

(* A thread starts to use a thing and looks whether another does. *)
Noticed(t) ==
    /\ overlaps \subseteq overlaps'
    /\ \/ frame'[t].use = Nothing
       \/ frame[t].at # "idle" /\ frame'[t].use = frame[t].use
       \/ \A u \in Threads \ {t} : Using(u, frame'[t].use) => frame'[t].use \in overlaps'

(* A step of thread t keeps the core invariant if its own frame is right. *)
LEMMA CoreKept ==
    ASSUME CoreInv, LogGrows, NEW t \in Threads, TypeOK', LocalOK(t)', UseOK(t)', Noticed(t),
           \A u \in Threads : u # t => frame'[u] = frame[u]
    PROVE  CoreInv'
<1>1. \A u \in Threads : LocalOK(u)' /\ UseOK(u)'
    BY OthersKept
<1>2. ASSUME NEW u \in Threads, u # t, frame'[u].at # "idle", frame'[t].at # "idle",
             frame'[u].use = frame'[t].use
      PROVE  frame'[t].use \in overlaps' \cup {Nothing}
    BY <1>2 DEF Noticed, Using, CoreInv, Exclusive
<1>3. ASSUME NEW u \in Threads, NEW v \in Threads, u # t, v # t, u # v,
             frame'[u].at # "idle", frame'[v].at # "idle", frame'[u].use = frame'[v].use
      PROVE  frame'[u].use \in overlaps' \cup {Nothing}
    BY <1>3 DEF Noticed, CoreInv, Exclusive
<1>4. Exclusive'
    BY <1>2, <1>3 DEF Exclusive
<1> QED BY <1>1, <1>4 DEF CoreInv

(* A step that leaves frames and messages alone keeps it too. *)
LEMMA CoreStill ==
    ASSUME CoreInv, TypeOK', UNCHANGED <<frame, log, overlaps>>
    PROVE  CoreInv'
<1>1. LogGrows
    BY DEF LogGrows
<1>2. \A u \in Threads : LocalOK(u)' /\ UseOK(u)'
    BY <1>1, OthersKept
<1>3. Exclusive'
    BY DEF CoreInv, Exclusive
<1> QED BY <1>2, <1>3 DEF CoreInv

(* A message is added at the end of the partition of its key. *)
LEMMA Pushed ==
    ASSUME CoreInv, NEW t \in Threads, Push(t)
    PROVE  LET p == PartitionFor(frame[t].key)
               n == Len(log[p]) + 1
           IN  /\ p \in Partitions
               /\ log' \in [Partitions -> Seq(Msgs)] /\ LogGrows
               /\ DOMAIN log[p] = 1 .. n - 1 /\ DOMAIN log'[p] = 1 .. n
               /\ log'[p][n] = [offset |-> frame[t].value, id |-> frame[t].id]
               /\ \A q \in Partitions : q # p => log'[q] = log[q]
<1> DEFINE p == PartitionFor(frame[t].key)
           m == [offset |-> frame[t].value, id |-> frame[t].id]
<1>1. frame[t].key \in Keys /\ frame[t].id \in Ids /\ frame[t].value \in Nat
    BY DEF CoreInv, LocalOK, Push, At, Producing
<1>2. p \in Partitions
    <2>1. Count \in Nat \ {0} /\ Hash[frame[t].key] \in Nat
        BY <1>1, EventBusAssumption DEF Count
    <2>2. Hash[frame[t].key] % Count \in 0 .. Count - 1
        BY <2>1
    <2> QED BY <2>2 DEF PartitionFor, Partitions
<1>3. m \in Msgs
    BY <1>1 DEF Msgs
<1>4. log \in [Partitions -> Seq(Msgs)] /\ log' = [log EXCEPT ![p] = Append(@, m)]
    BY DEF CoreInv, TypeOK, Push
<1> HIDE DEF p, m
<1>5. log[p] \in Seq(Msgs) /\ log'[p] = Append(log[p], m)
      /\ \A q \in Partitions : q # p => log'[q] = log[q]
    BY <1>2, <1>4
<1>6. Append(log[p], m) \in Seq(Msgs)
    BY <1>3, <1>5
<1>7. log' \in [Partitions -> Seq(Msgs)]
    BY <1>2, <1>4, <1>6
<1>8. /\ DOMAIN log[p] = 1 .. Len(log[p]) /\ DOMAIN log'[p] = 1 .. Len(log[p]) + 1
      /\ Len(log[p]) \in Nat
      /\ log'[p][Len(log[p]) + 1] = m
      /\ \A i \in DOMAIN log[p] : log'[p][i] = log[p][i]
    BY <1>3, <1>5
<1>9. LogGrows
    BY <1>5, <1>8 DEF LogGrows
<1> QED BY <1>2, <1>5, <1>7, <1>8, <1>9 DEF p, m

(* What is left of a sequence without its first elements. *)
LEMMA Forgets ==
    ASSUME processed \in Seq(Ids)
    PROVE  /\ MakeRoom(processed) \in Seq(Ids)
           /\ \A n \in Nat : EvictOlderThan(processed, n) \in Seq(Ids)
<1>1. ASSUME NEW n \in Nat PROVE Dropped(processed, n) \in Seq(Ids)
    <2>1. Len(processed) \in Nat
        OBVIOUS
    <2> QED BY <2>1 DEF Dropped
<1>2. MaxEntries \div 10 \in Int
    BY MaxEntriesAssumption
<1> QED BY <1>1, <1>2 DEF MakeRoom, EvictOldestBatch, EvictOlderThan

(* The parts of a sequence put together. *)
LEMMA Joined ==
    ASSUME NEW S, NEW a \in Seq(S), NEW b \in Seq(S)
    PROVE  /\ a \o b \in Seq(S) /\ Len(a \o b) = Len(a) + Len(b)
           /\ \A i \in 1 .. Len(a) : (a \o b)[i] = a[i]
           /\ \A i \in 1 .. Len(b) : (a \o b)[Len(a) + i] = b[i]
    OBVIOUS

(* A sequence without its k-th element. *)
LEMMA Cut ==
    ASSUME NEW S, NEW s \in Seq(S), NEW k \in 1 .. Len(s)
    PROVE  /\ RemoveAt(s, k) \in Seq(S) /\ Len(RemoveAt(s, k)) = Len(s) - 1
           /\ \A i \in 1 .. k - 1 : RemoveAt(s, k)[i] = s[i]
           /\ \A i \in k .. Len(s) - 1 : RemoveAt(s, k)[i] = s[i + 1]
<1> PICK w : w = RemoveAt(s, k)
    OBVIOUS
<1>1. Len(s) \in Nat /\ \A i \in 1 .. Len(s) : s[i] \in S
    OBVIOUS
<1> PICK n \in Nat : n = Len(s)
    BY <1>1
<1>2. PICK a : a = SubSeq(s, 1, k - 1)
    OBVIOUS
<1>3. PICK b : b = SubSeq(s, k + 1, n)
    OBVIOUS
<1>4. a \in Seq(S) /\ Len(a) = k - 1 /\ \A i \in 1 .. k - 1 : a[i] = s[i]
    BY <1>1, <1>2, SubSeqProperties
<1>5. b \in Seq(S) /\ Len(b) = n - k /\ \A i \in 1 .. n - k : b[i] = s[k + i]
    <2>1. \A i \in k + 1 .. n : s[i] \in S
        BY <1>1
    <2>2. /\ b \in Seq(S)
          /\ Len(b) = IF k + 1 <= n THEN n - (k + 1) + 1 ELSE 0
          /\ \A i \in 1 .. n - (k + 1) + 1 : b[i] = s[k + 1 + i - 1]
        BY <1>3, <2>1, SubSeqProperties
    <2>3. ASSUME NEW i \in 1 .. n - k PROVE i \in 1 .. n - (k + 1) + 1 /\ k + 1 + i - 1 = k + i
        OBVIOUS
    <2> QED BY <2>2, <2>3
<1>6. w = a \o b
    BY <1>2, <1>3 DEF RemoveAt
<1>7. /\ w \in Seq(S) /\ Len(w) = (k - 1) + (n - k)
      /\ \A i \in 1 .. k - 1 : w[i] = a[i]
      /\ \A i \in 1 .. n - k : w[(k - 1) + i] = b[i]
    <2>1. a \in Seq(S) /\ b \in Seq(S)
        BY <1>4, <1>5
    <2>2. /\ w \in Seq(S) /\ Len(w) = Len(a) + Len(b)
          /\ \A i \in 1 .. Len(a) : w[i] = a[i]
          /\ \A i \in 1 .. Len(b) : w[Len(a) + i] = b[i]
        <3>1. /\ a \o b \in Seq(S) /\ Len(a \o b) = Len(a) + Len(b)
              /\ \A i \in 1 .. Len(a) : (a \o b)[i] = a[i]
              /\ \A i \in 1 .. Len(b) : (a \o b)[Len(a) + i] = b[i]
            BY <2>1, Joined
        <3> QED BY <1>6, <3>1, Zenon
    <2>3. Len(a) = k - 1 /\ Len(b) = n - k
        BY <1>4, <1>5
    <2> QED BY <2>2, <2>3, Zenon
<1>8. ASSUME NEW i \in k .. n - 1 PROVE w[i] = s[i + 1]
    <2>1. PICK j \in 1 .. n - k : i = (k - 1) + j /\ k + j = i + 1
        <3>1. i - k + 1 \in 1 .. n - k /\ i = (k - 1) + (i - k + 1) /\ k + (i - k + 1) = i + 1
            OBVIOUS
        <3> QED BY <3>1
    <2>2. w[(k - 1) + j] = b[j] /\ b[j] = s[k + j]
        BY <1>5, <1>7
    <2> QED BY <2>1, <2>2
<1>9. (k - 1) + (n - k) = n - 1
    OBVIOUS
<1> QED BY <1>4, <1>7, <1>8, <1>9

(* Writing an id keeps the others. *)
LEMMA Inserted ==
    ASSUME NEW s \in Seq(Ids), NEW id \in Ids
    PROVE  Insert(s, id) \in Seq(Ids) /\ ToSet(s) \cup {id} \subseteq ToSet(Insert(s, id))
<1>1. PICK n \in Nat : n = Len(s) /\ DOMAIN s = 1 .. n
    OBVIOUS
<1>2. CASE ~\E i \in 1 .. n : s[i] = id
    <2>1. Insert(s, id) = Append(s, id)
        BY <1>1, <1>2 DEF Insert, RemoveFirst
    <2> QED BY <1>1, <2>1 DEF ToSet
<1>3. CASE \E i \in 1 .. n : s[i] = id
    <2> DEFINE I == {i \in 1 .. Len(s) : s[i] = id}
    <2>1. I # {} /\ I \in SUBSET Nat
        BY <1>1, <1>3
    <2>2. PICK k \in 1 .. n : k = Min(I) /\ s[k] = id
        BY <1>1, <2>1, Least
    <2>3. PICK w : w = RemoveAt(s, k)
        OBVIOUS
    <2>4. Insert(s, id) = Append(w, id)
        BY <1>1, <1>3, <2>1, <2>2, <2>3 DEF Insert, RemoveFirst, SelectInSeq
    <2> HIDE DEF I
    <2>5. /\ w \in Seq(Ids) /\ Len(w) = n - 1
          /\ \A i \in 1 .. k - 1 : w[i] = s[i]
          /\ \A i \in k .. n - 1 : w[i] = s[i + 1]
        <3>1. k \in 1 .. Len(s)
            BY <1>1
        <3>2. /\ w \in Seq(Ids) /\ Len(w) = Len(s) - 1
              /\ \A i \in 1 .. k - 1 : w[i] = s[i]
              /\ \A i \in k .. Len(s) - 1 : w[i] = s[i + 1]
            BY <2>3, <3>1, Cut
        <3> QED BY <1>1, <3>2
    <2>6. PICK v : v = Append(w, id)
        OBVIOUS
    <2>7. v \in Seq(Ids) /\ Len(v) = Len(w) + 1 /\ v[Len(w) + 1] = id
          /\ \A i \in 1 .. Len(w) : v[i] = w[i]
        BY <2>5, <2>6
    <2>8. DOMAIN v = 1 .. n /\ v[n] = id /\ \A i \in 1 .. n - 1 : v[i] = w[i]
        BY <2>5, <2>7
    <2>9. ASSUME NEW i \in 1 .. n PROVE \E j \in 1 .. n : v[j] = s[i]
        <3>1. CASE i < k
            <4>1. i \in 1 .. k - 1 /\ i \in 1 .. n - 1
                BY <3>1
            <4> QED BY <2>5, <2>8, <4>1
        <3>2. CASE i = k
            BY <2>2, <2>8, <3>2
        <3>3. CASE i > k
            <4>1. PICK j \in k .. n - 1 : j \in 1 .. n - 1 /\ j + 1 = i
                <5>1. i - 1 \in k .. n - 1 /\ i - 1 \in 1 .. n - 1 /\ (i - 1) + 1 = i
                    BY <3>3
                <5> QED BY <5>1
            <4>2. v[j] = s[j + 1] /\ j \in 1 .. n
                BY <2>5, <2>8, <4>1
            <4> QED BY <4>1, <4>2
        <3> QED BY <3>1, <3>2, <3>3
    <2>10. n \in 1 .. n
        OBVIOUS
    <2>11. ToSet(s) \cup {id} \subseteq ToSet(v)
        <3>1. ToSet(s) = {s[i] : i \in 1 .. n} /\ ToSet(v) = {v[i] : i \in 1 .. n}
            BY <1>1, <2>8 DEF ToSet
        <3>2. id \in ToSet(v)
            BY <2>8, <2>10, <3>1
        <3> QED BY <2>9, <3>1, <3>2
    <2> QED BY <2>4, <2>6, <2>7, <2>11
<1> QED BY <1>2, <1>3

(* The message a reader handles next is one of its partition. *)
LEMMA NextTyped ==
    ASSUME CoreInv, NEW t \in Threads, frame[t].at \in Reading, frame[t].reads # {}
    PROVE  /\ Min(frame[t].reads) \in frame[t].reads
           /\ Min(frame[t].reads) \in DOMAIN log[frame[t].key]
           /\ frame[t].key \in Partitions
           /\ Next1(t).id \in Ids /\ Next1(t).offset \in Nat
<1>1. /\ frame[t].key \in Partitions
      /\ frame[t].reads \subseteq DOMAIN log[frame[t].key]
    BY DEF CoreInv, LocalOK
<1>2. log[frame[t].key] \in Seq(Msgs)
    BY <1>1 DEF CoreInv, TypeOK
<1>3. frame[t].reads \subseteq Nat
    BY <1>1, <1>2
<1>4. Min(frame[t].reads) \in frame[t].reads
    BY <1>3, Least
<1>5. Next1(t) \in Msgs
    BY <1>1, <1>2, <1>4 DEF Next1
<1> QED BY <1>1, <1>4, <1>5 DEF Msgs

(* A reader that is done with a message goes on. *)
LEMMA CoreHandled ==
    ASSUME CoreInv, NEW t \in Threads, frame[t].at \in Reading, frame[t].reads # {}, Handled(t),
           processed' \in Seq(Ids), UNCHANGED <<log, overlaps>>, UNCHANGED <<nextOffset, lastSeq,
           epoch, calls, committed, pending, sent, handled>>
    PROVE  CoreInv'
<1>1. LocalOK(t) /\ UseOK(t) /\ TypeOK /\ Framed
    BY DEF CoreInv, TypeOK
<1>2. PICK n \in Nat :
          Turns(t, "handle", frame[t].key, frame[t].id, n, frame[t].queue,
                frame[t].reads \ {Min(frame[t].reads)}, Nothing)
    <2>1. frame[t].value \in Nat /\ Next1(t).offset \in Nat
        BY <1>1, NextTyped DEF LocalOK
    <2>2. (IF Next1(t).offset > frame[t].value THEN Next1(t).offset ELSE frame[t].value) \in Nat
        BY <2>1
    <2> QED BY <1>1, <2>2, Effects
<1>3. TypeOK'
    BY <1>1, <1>2 DEF TypeOK, Turns
<1>4. LocalOK(t)' /\ UseOK(t)'
    BY <1>1, <1>2 DEF Turns, LocalOK, UseOK, InTx, Producing, Reading, Running
<1>5. Noticed(t) /\ LogGrows
    BY <1>2 DEF Turns, Noticed, LogGrows
<1> QED BY <1>2, <1>3, <1>4, <1>5, CoreKept DEF Turns

(* The idempotent producer keeps the core invariant. *)
LEMMA CoreProduce ==
    ASSUME CoreInv, NEW t \in Threads,
           \/ TakeOffset(t) \/ Push(t) \/ Acknowledge(t)
           \/ \E key \in Keys, seq \in 1 .. MaxSeq : IdempotentProduce(t, key, seq)
    PROVE  CoreInv'
<1> USE DEF TypeOK, busVars, producerVars, fenceVars, txVars, groupVars, handlerVars
<1>1. LocalOK(t) /\ UseOK(t) /\ TypeOK /\ Framed
    BY DEF CoreInv
<1>2. ASSUME TakeOffset(t) PROVE CoreInv'
    <2>1. Turns(t, "push", frame[t].key, frame[t].id, nextOffset, frame[t].queue,
                frame[t].reads, frame[t].use)
        BY <1>1, <1>2, Effects
    <2>2. TypeOK'
        BY <1>1, <1>2, <2>1 DEF TakeOffset, At, Turns
    <2>3. LocalOK(t)' /\ UseOK(t)'
        BY <1>1, <1>2, <2>1 DEF TakeOffset, At, Turns, LocalOK, UseOK, InTx, Producing, Reading, Running
    <2>4. Noticed(t) /\ LogGrows
        BY <1>2, <2>1 DEF TakeOffset, At, Turns, Noticed, LogGrows
    <2> QED BY <2>1, <2>2, <2>3, <2>4, CoreKept DEF Turns
<1>3. ASSUME Push(t) PROVE CoreInv'
    <2>1. Turns(t, IF frame[t].id[1] = "tx" THEN "publish" ELSE "acknowledge", frame[t].key,
                frame[t].id, frame[t].value, frame[t].queue, frame[t].reads, frame[t].use)
        BY <1>1, <1>3, Effects
    <2>2. LogGrows /\ log' \in [Partitions -> Seq(Msgs)]
        BY <1>1, <1>3, Pushed
    <2>3. TypeOK'
        BY <1>1, <1>3, <2>1, <2>2 DEF Push, At, Turns
    <2>4. LocalOK(t)' /\ UseOK(t)'
        BY <1>1, <1>3, <2>1 DEF Push, At, Turns, LocalOK, UseOK, InTx, Producing, Reading, Running
    <2>5. Noticed(t)
        BY <1>3, <2>1 DEF Push, At, Turns, Noticed
    <2> QED BY <2>1, <2>2, <2>3, <2>4, <2>5, CoreKept DEF Turns
<1>4. ASSUME Acknowledge(t) PROVE CoreInv'
    <2>1. Rests(t)
        BY <1>1, <1>4, Effects
    <2>2. TypeOK'
        BY <1>1, <1>4, <2>1 DEF Acknowledge, At, Rests, Turns
    <2>3. LocalOK(t)' /\ UseOK(t)'
        BY <1>1, <1>4, <2>1 DEF Acknowledge, At, Rests, Turns, LocalOK, UseOK, InTx, Producing, Reading, Running
    <2>4. Noticed(t) /\ LogGrows
        BY <1>4, <2>1 DEF Acknowledge, At, Rests, Turns, Noticed, LogGrows
    <2> QED BY <2>1, <2>2, <2>3, <2>4, CoreKept DEF Turns, Rests
<1>5. ASSUME NEW key \in Keys, NEW seq \in 1 .. MaxSeq, IdempotentProduce(t, key, seq)
      PROVE  CoreInv'
    <2>1. CASE UNCHANGED <<frame, overlaps>>
        <3>1. TypeOK'
            BY <1>1, <1>5, <2>1 DEF IdempotentProduce, Call, Framed
        <3> QED BY <1>5, <2>1, <3>1, CoreStill DEF IdempotentProduce
    <2>2. CASE ~UNCHANGED <<frame, overlaps>>
        <3>1. Turns(t, "offset", key, <<Own, seq>>, 0, <<>>, {}, <<Own, seq>>)
            BY <1>1, <1>5, <2>2, Effects
        <3>2. TypeOK'
            BY <1>1, <1>5, <3>1 DEF IdempotentProduce, Call, Turns
        <3>3. <<Own, seq>> \in Ids /\ <<Own, seq>>[1] # "tx"
            BY EventBusAssumption DEF Ids, Own
        <3>4. LocalOK(t)' /\ UseOK(t)'
            BY <3>1, <3>3 DEF Turns, LocalOK, UseOK, InTx, Producing, Reading, Running
        <3>5. Noticed(t) /\ LogGrows
            BY <1>5, <2>2, <3>1 DEF IdempotentProduce, Turns, Noticed, LogGrows, Overlap
        <3> QED BY <3>1, <3>2, <3>4, <3>5, CoreKept DEF Turns
    <2> QED BY <2>1, <2>2
<1> QED BY <1>2, <1>3, <1>4, <1>5

(* The fencing token and the wiring keep the core invariant. *)
LEMMA CoreFence ==
    ASSUME CoreInv, NEW t \in Threads,
           \/ \E producer \in {Own, Default} : Fence(t, producer)
           \/ \E key \in Keys : ProduceIdempotent(t, key)
           \/ Register(t) \/ NextSequence(t) \/ IsValid(t)
    PROVE  CoreInv'
<1> USE DEF TypeOK, busVars, producerVars, fenceVars, txVars, groupVars, handlerVars
<1>1. LocalOK(t) /\ UseOK(t) /\ TypeOK /\ Framed
    BY DEF CoreInv
<1>2. ASSUME NEW producer \in {Own, Default}, Fence(t, producer) PROVE CoreInv'
    <2>1. Turns(t, "register", 0, <<producer, 0>>, epoch, <<"fence">>, {}, Nothing)
        BY <1>1, <1>2, Effects DEF Fence
    <2>2. TypeOK'
        BY <1>1, <1>2, <2>1 DEF Fence, TakeEpoch, Call, Overlap, Turns
    <2>3. LocalOK(t)' /\ UseOK(t)'
        BY <1>1, <1>2, <2>1 DEF Fence, TakeEpoch, Call, Overlap, Turns, LocalOK, UseOK, InTx, Producing, Reading, Running
    <2>4. Noticed(t) /\ LogGrows
        BY <1>2, <2>1 DEF Fence, TakeEpoch, Call, Overlap, Turns, Noticed, LogGrows
    <2> QED BY <2>1, <2>2, <2>3, <2>4, CoreKept DEF Turns
<1>3. ASSUME NEW key \in Keys, ProduceIdempotent(t, key) PROVE CoreInv'
    <2>1. Turns(t, "register", key, <<Default, 0>>, epoch, <<>>, {}, Nothing)
        BY <1>1, <1>3, Effects DEF ProduceIdempotent
    <2>2. TypeOK'
        BY <1>1, <1>3, <2>1 DEF ProduceIdempotent, TakeEpoch, Call, Overlap, Turns
    <2>3. LocalOK(t)' /\ UseOK(t)'
        BY <1>1, <1>3, <2>1 DEF ProduceIdempotent, TakeEpoch, Call, Overlap, Turns, LocalOK, UseOK, InTx, Producing, Reading, Running
    <2>4. Noticed(t) /\ LogGrows
        BY <1>3, <2>1 DEF ProduceIdempotent, TakeEpoch, Call, Overlap, Turns, Noticed, LogGrows
    <2> QED BY <2>1, <2>2, <2>3, <2>4, CoreKept DEF Turns
<1>4. ASSUME Register(t) PROVE CoreInv'
    <2>1. CASE frame[t].queue = <<"fence">>
        <3>1. Rests(t)
            BY <1>1, <1>4, <2>1, Effects
        <3>2. TypeOK'
            BY <1>1, <1>4, <2>1, <3>1 DEF Register, At, Turns, Rests
        <3>3. LocalOK(t)' /\ UseOK(t)'
            BY <1>1, <1>4, <2>1, <3>1 DEF Register, At, Turns, LocalOK, UseOK, InTx, Producing, Reading, Running, Rests
        <3>4. Noticed(t) /\ LogGrows
            BY <1>1, <1>4, <2>1, <3>1 DEF Register, At, Turns, Noticed, LogGrows, Rests
        <3> QED BY <3>1, <3>2, <3>3, <3>4, CoreKept DEF Turns, Rests
    <2>2. CASE frame[t].queue # <<"fence">>
        <3>1. Turns(t, "sequence", frame[t].key, frame[t].id, frame[t].value, frame[t].queue,
                    frame[t].reads, frame[t].use)
            BY <1>1, <1>4, <2>2, Effects
        <3>2. TypeOK'
            BY <1>1, <1>4, <2>2, <3>1 DEF Register, At, Turns
        <3>3. LocalOK(t)' /\ UseOK(t)'
            BY <1>1, <1>4, <2>2, <3>1 DEF Register, At, Turns, LocalOK, UseOK, InTx, Producing, Reading, Running
        <3>4. Noticed(t) /\ LogGrows
            BY <1>1, <1>4, <2>2, <3>1 DEF Register, At, Turns, Noticed, LogGrows
        <3> QED BY <3>1, <3>2, <3>3, <3>4, CoreKept DEF Turns
    <2> QED BY <2>1, <2>2
<1>5. ASSUME NextSequence(t) PROVE CoreInv'
    <2>1. Turns(t, "valid", frame[t].key, <<Default, lastSeq + 1>>, frame[t].value,
                frame[t].queue, frame[t].reads, frame[t].use)
        BY <1>1, <1>5, Effects
    <2>2. TypeOK'
        BY <1>1, <1>5, <2>1 DEF NextSequence, At, Turns
    <2>3. LocalOK(t)' /\ UseOK(t)'
        BY <1>1, <1>5, <2>1 DEF NextSequence, At, Turns, LocalOK, UseOK, InTx, Producing, Reading, Running
    <2>4. Noticed(t) /\ LogGrows
        BY <1>5, <2>1 DEF NextSequence, At, Turns, Noticed, LogGrows
    <2> QED BY <2>1, <2>2, <2>3, <2>4, CoreKept DEF Turns
<1>6. ASSUME IsValid(t) PROVE CoreInv'
    <2>1. CASE Rests(t)
        <3>1. Rests(t)
            BY <1>1, <1>6, <2>1, Effects
        <3>2. TypeOK'
            BY <1>1, <1>6, <2>1, <3>1 DEF IsValid, At, Turns, Rests
        <3>3. LocalOK(t)' /\ UseOK(t)'
            BY <1>1, <1>6, <2>1, <3>1 DEF IsValid, At, Turns, LocalOK, UseOK, InTx, Producing, Reading, Running, Rests
        <3>4. Noticed(t) /\ LogGrows
            BY <1>1, <1>6, <2>1, <3>1 DEF IsValid, At, Turns, Noticed, LogGrows, Rests
        <3> QED BY <3>1, <3>2, <3>3, <3>4, CoreKept DEF Turns, Rests
    <2>2. CASE ~Rests(t)
        <3>1. Turns(t, "offset", frame[t].key, frame[t].id, frame[t].value,
                    frame[t].queue, frame[t].reads, frame[t].use)
            BY <1>1, <1>6, <2>2, Effects
        <3>2. TypeOK'
            BY <1>1, <1>6, <2>2, <3>1 DEF IsValid, At, Ids, Own, Default, Turns
        <3>3. LocalOK(t)' /\ UseOK(t)'
            BY <1>1, <1>6, <2>2, <3>1 DEF IsValid, At, Ids, Own, Default, Turns, LocalOK, UseOK, InTx, Producing, Reading, Running
        <3>4. Noticed(t) /\ LogGrows
            BY <1>1, <1>6, <2>2, <3>1 DEF IsValid, At, Ids, Own, Default, Turns, Noticed, LogGrows
        <3> QED BY <3>1, <3>2, <3>3, <3>4, CoreKept DEF Turns
    <2> QED BY <2>1, <2>2
<1> QED BY <1>2, <1>3, <1>4, <1>5, <1>6

(* The transactional producer keeps the core invariant. *)
LEMMA CoreTransactions ==
    ASSUME CoreInv, NEW t \in Threads,
           \/ Begin(t) \/ Abort(t) \/ Commit(t) \/ \E key \in Keys : Send(t, key)
           \/ Clear(t) \/ AddPending(t) \/ CopyPending(t) \/ PublishPending(t)
    PROVE  CoreInv'
<1> USE DEF TypeOK, busVars, producerVars, fenceVars, txVars, groupVars, handlerVars
<1>1. LocalOK(t) /\ UseOK(t) /\ TypeOK /\ Framed
    BY DEF CoreInv
<1>2. ASSUME Begin(t) \/ Abort(t) PROVE CoreInv'
    <2>1. Turns(t, "clear", 0, <<>>, 0, <<>>, {}, <<"tx", 0>>)
        BY <1>1, <1>2, Effects
    <2>2. TypeOK'
        BY <1>1, <1>2, <2>1 DEF Begin, Abort, TxCall, Call, Overlap, Turns
    <2>3. LocalOK(t)' /\ UseOK(t)'
        BY <1>1, <1>2, <2>1 DEF Begin, Abort, TxCall, Call, Overlap, Turns, LocalOK, UseOK, InTx, Producing, Reading, Running
    <2>4. Noticed(t) /\ LogGrows
        BY <1>2, <2>1 DEF Begin, Abort, TxCall, Call, Overlap, Turns, Noticed, LogGrows
    <2> QED BY <2>1, <2>2, <2>3, <2>4, CoreKept DEF Turns
<1>3. ASSUME Clear(t) PROVE CoreInv'
    <2>1. Rests(t)
        BY <1>1, <1>3, Effects
    <2>2. TypeOK'
        BY <1>1, <1>3, <2>1 DEF Clear, At, Rests, Batches, Turns
    <2>3. LocalOK(t)' /\ UseOK(t)'
        BY <1>1, <1>3, <2>1 DEF Clear, At, Rests, Batches, Turns, LocalOK, UseOK, InTx, Producing, Reading, Running
    <2>4. Noticed(t) /\ LogGrows
        BY <1>3, <2>1 DEF Clear, At, Rests, Batches, Turns, Noticed, LogGrows
    <2> QED BY <2>1, <2>2, <2>3, <2>4, CoreKept DEF Turns, Rests
<1>4. ASSUME AddPending(t) PROVE CoreInv'
    <2>1. Rests(t)
        BY <1>1, <1>4, Effects
    <2>2. frame[t].key \in Keys /\ frame[t].id \in TxIds
        BY <1>1, <1>4 DEF AddPending, At, LocalOK
    <2>3. pending' \in Batches
        BY <1>1, <1>4, <2>2 DEF AddPending, Batches
    <2>4. TypeOK'
        BY <1>1, <1>4, <2>1, <2>3 DEF AddPending, At, Turns, Rests
    <2>5. LocalOK(t)' /\ UseOK(t)'
        BY <2>1 DEF Turns, Rests, LocalOK, UseOK, InTx, Producing, Reading, Running
    <2>6. Noticed(t) /\ LogGrows
        BY <1>4, <2>1 DEF AddPending, Turns, Rests, Noticed, LogGrows
    <2> QED BY <2>1, <2>4, <2>5, <2>6, CoreKept DEF Turns, Rests
<1>5. ASSUME NEW key \in Keys, Send(t, key) PROVE CoreInv'
    <2>1. CASE inTransaction
        <3>1. Turns(t, "send", key, <<"tx", calls>>, 0, <<>>, {}, <<"tx", 0>>)
            BY <1>1, <1>5, <2>1, Effects
        <3>2. TypeOK'
            <4>1. sent' \in [open : SUBSET TxIds, committed : SUBSET TxIds]
                BY <1>1, <1>5, <2>1 DEF Send, TxIds
            <4> QED BY <1>1, <1>5, <2>1, <3>1, <4>1 DEF Send, TxCall, Call, Overlap, Turns
        <3>3. LocalOK(t)' /\ UseOK(t)'
            BY <1>1, <1>5, <2>1, <3>1, <3>2 DEF Send, TxCall, Call, Overlap, Turns, LocalOK, UseOK, InTx, Producing, Reading, Running, TxIds
        <3>4. Noticed(t) /\ LogGrows
            BY <1>1, <1>5, <2>1, <3>1 DEF Send, TxCall, Call, Overlap, Turns, Noticed, LogGrows
        <3> QED BY <3>1, <3>2, <3>3, <3>4, CoreKept DEF Turns
    <2>2. CASE ~inTransaction
        <3>1. UNCHANGED <<frame, log, overlaps>>
            BY <1>1, <1>5, <2>2, Effects DEF Send, Call
        <3>2. TypeOK'
            BY <1>1, <1>5, <2>2, <3>1 DEF Send, Call, Framed
        <3> QED BY <3>1, <3>2, CoreStill
    <2> QED BY <2>1, <2>2
<1>6. ASSUME Commit(t) PROVE CoreInv'
    <2>1. CASE inTransaction
        <3>1. Turns(t, "copy", 0, <<>>, 0, <<>>, {}, <<"tx", 0>>)
            BY <1>1, <1>6, <2>1, Effects
        <3>2. TypeOK'
            BY <1>1, <1>6, <2>1, <3>1 DEF Commit, TxCall, Call, Overlap, Turns
        <3>3. LocalOK(t)' /\ UseOK(t)'
            BY <1>1, <1>6, <2>1, <3>1 DEF Commit, TxCall, Call, Overlap, Turns, LocalOK, UseOK, InTx, Producing, Reading, Running
        <3>4. Noticed(t) /\ LogGrows
            BY <1>1, <1>6, <2>1, <3>1 DEF Commit, TxCall, Call, Overlap, Turns, Noticed, LogGrows
        <3> QED BY <3>1, <3>2, <3>3, <3>4, CoreKept DEF Turns
    <2>2. CASE ~inTransaction
        <3>1. UNCHANGED <<frame, log, overlaps>>
            BY <1>1, <1>6, <2>2, Effects DEF Commit, Call
        <3>2. TypeOK'
            BY <1>1, <1>6, <2>2, <3>1 DEF Commit, Call, Framed
        <3> QED BY <3>1, <3>2, CoreStill
    <2> QED BY <2>1, <2>2
<1>7. ASSUME CopyPending(t) PROVE CoreInv'
    <2>1. Turns(t, "publish", frame[t].key, frame[t].id, frame[t].value, pending,
                frame[t].reads, frame[t].use)
        BY <1>1, <1>7, Effects
    <2>2. TypeOK'
        BY <1>1, <1>7, <2>1 DEF CopyPending, At, Turns
    <2>3. LocalOK(t)' /\ UseOK(t)'
        BY <1>1, <1>7, <2>1 DEF CopyPending, At, Turns, LocalOK, UseOK, InTx, Producing, Reading, Running
    <2>4. Noticed(t) /\ LogGrows
        BY <1>7, <2>1 DEF CopyPending, At, Turns, Noticed, LogGrows
    <2> QED BY <2>1, <2>2, <2>3, <2>4, CoreKept DEF Turns
<1>8. ASSUME PublishPending(t) PROVE CoreInv'
    <2>1. CASE frame[t].queue = <<>>
        <3>1. Turns(t, "clear", frame[t].key, frame[t].id, frame[t].value,
                    frame[t].queue, frame[t].reads, frame[t].use)
            BY <1>1, <1>8, <2>1, Effects
        <3>2. TypeOK'
            BY <1>1, <1>8, <2>1, <3>1 DEF PublishPending, At, Turns
        <3>3. LocalOK(t)' /\ UseOK(t)'
            BY <1>1, <1>8, <2>1, <3>1 DEF PublishPending, At, Turns, LocalOK, UseOK, InTx, Producing, Reading, Running
        <3>4. Noticed(t) /\ LogGrows
            BY <1>1, <1>8, <2>1, <3>1 DEF PublishPending, At, Turns, Noticed, LogGrows
        <3> QED BY <3>1, <3>2, <3>3, <3>4, CoreKept DEF Turns
    <2>2. CASE frame[t].queue # <<>>
        <3>1. /\ Head(frame[t].queue)[1] \in Keys /\ Head(frame[t].queue)[2] \in TxIds
              /\ Head(frame[t].queue)[2] \in Ids /\ Head(frame[t].queue)[2][1] = "tx"
              /\ Tail(frame[t].queue) \in Batches
            <4>1. frame[t].queue \in Batches
                BY <1>1, <1>8 DEF PublishPending, At, LocalOK, InTx
            <4>2. Head(frame[t].queue) \in Keys \X TxIds /\ Tail(frame[t].queue) \in Batches
                BY <2>2, <4>1 DEF Batches
            <4> QED BY <4>2 DEF TxIds, Ids
        <3>2. Turns(t, "offset", Head(frame[t].queue)[1], Head(frame[t].queue)[2],
                    frame[t].value, Tail(frame[t].queue), frame[t].reads, frame[t].use)
            BY <1>1, <1>8, <2>2, Effects
        <3>3. TypeOK'
            BY <1>1, <1>8, <2>2, <3>2 DEF PublishPending, At, Own, Turns
        <3>4. LocalOK(t)' /\ UseOK(t)'
            BY <1>1, <1>8, <2>2, <3>2, <3>1 DEF PublishPending, At, Own, Turns, LocalOK, UseOK, InTx, Producing, Reading, Running
        <3>5. Noticed(t) /\ LogGrows
            BY <1>1, <1>8, <2>2, <3>2 DEF PublishPending, At, Own, Turns, Noticed, LogGrows
        <3> QED BY <3>2, <3>3, <3>4, <3>5, CoreKept DEF Turns
    <2> QED BY <2>1, <2>2
<1> QED BY <1>2, <1>3, <1>4, <1>5, <1>6, <1>7, <1>8

(* The consumers keep the core invariant. *)
LEMMA CoreConsume ==
    ASSUME CoreInv, NEW t \in Threads,
           CommitOffset(t) \/ \E p \in Partitions : Poll(t, p)
    PROVE  CoreInv'
<1> USE DEF TypeOK, busVars, producerVars, fenceVars, txVars, groupVars, handlerVars
<1>1. LocalOK(t) /\ UseOK(t) /\ TypeOK /\ Framed
    BY DEF CoreInv
<1>2. ASSUME NEW p \in Partitions, Poll(t, p) PROVE CoreInv'
    <2>1. Turns(t, "handle", p, <<>>, 0, <<>>, Consume(p, committed[p]), Nothing)
        BY <1>1, <1>2, Effects
    <2>2. TypeOK'
        BY <1>1, <1>2, <2>1 DEF Poll, Call, Consume, Turns
    <2>3. LocalOK(t)' /\ UseOK(t)'
        BY <1>1, <1>2, <2>1 DEF Poll, Call, Consume, Turns, LocalOK, UseOK, InTx, Producing, Reading, Running
    <2>4. Noticed(t) /\ LogGrows
        BY <1>2, <2>1 DEF Poll, Call, Consume, Turns, Noticed, LogGrows
    <2> QED BY <2>1, <2>2, <2>3, <2>4, CoreKept DEF Turns
<1>3. ASSUME CommitOffset(t) PROVE CoreInv'
    <2>1. Rests(t)
        BY <1>1, <1>3, Effects
    <2>2. frame[t].key \in Partitions /\ frame[t].value \in Nat
        BY <1>1, <1>3 DEF CommitOffset, At, LocalOK, Reading
    <2>3. committed' \in [Partitions -> Nat]
        BY <1>1, <1>3, <2>2 DEF CommitOffset
    <2>4. TypeOK'
        BY <1>1, <1>3, <2>1, <2>3 DEF CommitOffset, At, Turns, Rests
    <2>5. LocalOK(t)' /\ UseOK(t)'
        BY <2>1 DEF Turns, Rests, LocalOK, UseOK, InTx, Producing, Reading, Running
    <2>6. Noticed(t) /\ LogGrows
        BY <1>3, <2>1 DEF CommitOffset, Turns, Rests, Noticed, LogGrows
    <2> QED BY <2>1, <2>4, <2>5, <2>6, CoreKept DEF Turns, Rests
<1> QED BY <1>2, <1>3

(* The idempotent handler keeps the core invariant. *)
LEMMA CoreHandle ==
    ASSUME CoreInv, NEW t \in Threads,
           ProcessCheck(t) \/ ProcessRun(t) \/ ProcessMakeRoom(t) \/ ProcessMark(t)
    PROVE  CoreInv'
<1> USE DEF TypeOK, busVars, producerVars, fenceVars, txVars, groupVars, handlerVars
<1>1. LocalOK(t) /\ UseOK(t) /\ TypeOK /\ Framed
    BY DEF CoreInv
<1>2. ASSUME ProcessCheck(t) PROVE CoreInv'
    <2>1. CASE IsProcessed(processed, Next1(t).id)
        BY <1>1, <1>2, <2>1, CoreHandled, Effects DEF ProcessCheck, At, Reading
    <2>2. CASE ~IsProcessed(processed, Next1(t).id)
        <3>1. Turns(t, "run", frame[t].key, frame[t].id, frame[t].value, frame[t].queue,
                    frame[t].reads, <<"process", Next1(t).id>>)
            BY <1>1, <1>2, <2>2, Effects
        <3>2. TypeOK'
            BY <1>1, <1>2, <3>1 DEF ProcessCheck, At, Turns
        <3>3. LogGrows
            BY <1>2 DEF ProcessCheck, LogGrows
        <3>4. Next1(t)' = Next1(t)
            BY <1>2, <3>1, <3>3, NextSame DEF ProcessCheck, At, Turns, Reading
        <3>5. LocalOK(t)' /\ UseOK(t)'
            BY <1>1, <1>2, <3>1, <3>4
               DEF ProcessCheck, At, Turns, LocalOK, UseOK, InTx, Producing, Reading, Running
        <3>6. Noticed(t)
            BY <1>2, <2>2, <3>1 DEF ProcessCheck, Turns, Noticed, Overlap
        <3> QED BY <3>1, <3>2, <3>3, <3>5, <3>6, CoreKept DEF Turns
    <2> QED BY <2>1, <2>2
<1>3. ASSUME ProcessRun(t) PROVE CoreInv'
    <2>1. frame[t].reads # {} /\ frame[t].at \in Reading
        BY <1>1, <1>3 DEF ProcessRun, At, LocalOK, Reading, Running
    <2>2. handled' \in Seq(Ids)
        <3>1. \/ handled' = Append(handled, Next1(t).id)
              \/ handled' = handled
            BY <1>3 DEF ProcessRun
        <3>2. Next1(t).id \in Ids /\ handled \in Seq(Ids)
            BY <1>1, <2>1, NextTyped
        <3> QED BY <3>1, <3>2
    <2>3. frame'[t].key = frame[t].key /\ frame'[t].reads = frame[t].reads =>
              Next1(t)' = Next1(t)
        <3>1. LogGrows
            BY <1>3 DEF ProcessRun, LogGrows
        <3> QED BY <2>1, <3>1, NextSame
    <2>4. CASE Rests(t)
        <3>1. Rests(t)
            BY <1>1, <1>3, <2>4, Effects
        <3>2. TypeOK'
            BY <1>1, <1>3, <2>4, <3>1, <2>2 DEF ProcessRun, At, Turns, Rests
        <3>3. LocalOK(t)' /\ UseOK(t)'
            BY <1>1, <1>3, <2>4, <3>1, <2>3 DEF ProcessRun, At, Turns, LocalOK, UseOK, InTx, Producing, Reading, Running, Rests
        <3>4. Noticed(t) /\ LogGrows
            BY <1>1, <1>3, <2>4, <3>1 DEF ProcessRun, At, Turns, Noticed, LogGrows, Rests
        <3> QED BY <3>1, <3>2, <3>3, <3>4, CoreKept DEF Turns, Rests
    <2>5. CASE ~Rests(t)
        <3>1. Turns(t, "mark", frame[t].key, frame[t].id, frame[t].value,
                    frame[t].queue, frame[t].reads, frame[t].use)
            BY <1>1, <1>3, <2>5, Effects
        <3>2. TypeOK'
            BY <1>1, <1>3, <2>5, <3>1, <2>2 DEF ProcessRun, At, Turns
        <3>3. LocalOK(t)' /\ UseOK(t)'
            BY <1>1, <1>3, <2>5, <3>1, <2>3 DEF ProcessRun, At, Turns, LocalOK, UseOK, InTx, Producing, Reading, Running
        <3>4. Noticed(t) /\ LogGrows
            BY <1>1, <1>3, <2>5, <3>1 DEF ProcessRun, At, Turns, Noticed, LogGrows
        <3> QED BY <3>1, <3>2, <3>3, <3>4, CoreKept DEF Turns
    <2> QED BY <2>4, <2>5
<1>4. ASSUME ProcessMakeRoom(t) PROVE CoreInv'
    <2>1. Turns(t, "insert", frame[t].key, frame[t].id, frame[t].value, frame[t].queue,
                frame[t].reads, frame[t].use)
        BY <1>1, <1>4, Effects
    <2>2. processed' \in Seq(Ids)
        BY <1>1, <1>4, Forgets DEF ProcessMakeRoom
    <2>3. TypeOK'
        BY <1>1, <1>4, <2>1, <2>2 DEF ProcessMakeRoom, At, Turns
    <2>4. LogGrows
        BY <1>4 DEF ProcessMakeRoom, LogGrows
    <2>5. Next1(t)' = Next1(t)
        BY <1>1, <1>4, <2>1, <2>4, NextSame
           DEF ProcessMakeRoom, At, Turns, LocalOK, Reading, Running
    <2>6. LocalOK(t)' /\ UseOK(t)'
        BY <1>1, <1>4, <2>1, <2>5
           DEF ProcessMakeRoom, At, Turns, LocalOK, UseOK, InTx, Producing, Reading, Running
    <2>7. Noticed(t)
        BY <1>4, <2>1 DEF ProcessMakeRoom, At, Turns, Noticed
    <2> QED BY <2>1, <2>3, <2>4, <2>6, <2>7, CoreKept DEF Turns
<1>5. ASSUME ProcessMark(t) PROVE CoreInv'
    <2>1. frame[t].reads # {} /\ frame[t].at \in Reading
        BY <1>1, <1>5 DEF ProcessMark, At, LocalOK, Reading, Running
    <2>2. Next1(t).id \in Ids
        BY <2>1, NextTyped
    <2>3. processed' \in Seq(Ids)
        BY <1>1, <1>5, <2>2, Inserted DEF ProcessMark
    <2> QED BY <1>1, <1>5, <2>1, <2>3, CoreHandled, Effects DEF ProcessMark, At
<1> QED BY <1>2, <1>3, <1>4, <1>5

(* The core invariant holds at the start. *)
LEMMA CoreStart ==
    ASSUME Init
    PROVE  CoreInv
<1>1. Framed /\ \A t \in Threads : frame[t] = Idle
    BY DEF Init, Framed, Idle, Fields
<1>2. log \in [Partitions -> Seq(Msgs)]
    BY DEF Init
<1>3. committed \in [Partitions -> Nat]
    BY DEF Init
<1>4. pending \in Batches /\ sent \in [open : SUBSET TxIds, committed : SUBSET TxIds]
    BY DEF Init, Batches
<1>5. processed \in Seq(Ids) /\ handled \in Seq(Ids)
    BY DEF Init
<1>6. TypeOK
    BY <1>1, <1>2, <1>3, <1>4, <1>5 DEF Init, TypeOK
<1>7. Exclusive
    BY <1>1 DEF Exclusive, Idle
<1>8. ASSUME NEW t \in Threads PROVE LocalOK(t) /\ UseOK(t)
    BY <1>1 DEF LocalOK, UseOK, Idle, InTx, Producing, Reading, Running
<1> QED BY <1>6, <1>7, <1>8 DEF CoreInv

(* The consumer group's membership and the service's clock touch no frame. *)
LEMMA CoreGroup ==
    ASSUME CoreInv,
           \/ \E c \in Consumers : RegisterConsumer(c) \/ Heartbeat(c)
           \/ TimePasses \/ Rebalance \/ EvictOld
    PROVE  CoreInv' /\ UNCHANGED <<frame, log, overlaps, committed, received, acknowledged,
                                   epoch, registrations, lastSeq, nextOffset, pending, sent,
                                   handled>>
           /\ calls' >= calls
<1>1. calls' \in Nat /\ calls' >= calls
      /\ UNCHANGED <<frame, log, overlaps, committed, received, acknowledged,
                     epoch, registrations, lastSeq, nextOffset, pending, sent, handled>>
    <2>1. calls \in Nat
        BY DEF CoreInv, TypeOK
    <2>2. calls' = calls \/ calls' = calls + 1
        BY DEF RegisterConsumer, Heartbeat, TimePasses, Rebalance, EvictOld
    <2>3. UNCHANGED <<frame, log, overlaps, committed, received, acknowledged,
                      epoch, registrations, lastSeq, nextOffset, pending, sent, handled>>
        BY Zenon DEF RegisterConsumer, Heartbeat, TimePasses, Rebalance, EvictOld, busVars,
                     producerVars, fenceVars, txVars, groupVars, handlerVars
    <2> QED BY <2>1, <2>2, <2>3
<1>2. processed' \in Seq(Ids)
    <2>1. processed \in Seq(Ids)
        BY DEF CoreInv, TypeOK
    <2>2. CASE processed' = processed
        BY <2>1, <2>2
    <2>3. CASE EvictOld
        <3>1. PICK n \in 1 .. Len(processed) : processed' = EvictOlderThan(processed, n)
            BY <2>3 DEF EvictOld
        <3>2. n \in Nat
            BY <2>1
        <3> QED BY <2>1, <3>1, <3>2, Forgets
    <2>4. processed' = processed \/ EvictOld
        BY DEF RegisterConsumer, Heartbeat, TimePasses, Rebalance, handlerVars
    <2> QED BY <2>2, <2>3, <2>4
<1>3. TypeOK'
    BY <1>1, <1>2 DEF CoreInv, TypeOK, Framed
<1> QED BY <1>1, <1>3, CoreStill

(* Whatever happens keeps the core invariant. *)
LEMMA CoreStep ==
    ASSUME CoreInv, [Next]_vars
    PROVE  CoreInv'
<1>1. CASE UNCHANGED vars
    <2>1. UNCHANGED <<frame, log, overlaps>> /\ TypeOK'
        BY <1>1 DEF vars, CoreInv, TypeOK, Framed
    <2> QED BY <2>1, CoreStill
<1>2. ASSUME NEW t \in Threads, Step(t) PROVE CoreInv'
    BY <1>2, CoreProduce, CoreFence, CoreTransactions, CoreConsume, CoreHandle DEF Step
<1>3. ASSUME NEW t \in Threads, NEW key \in Keys,
             \/ ProduceIdempotent(t, key) \/ Send(t, key)
             \/ \E seq \in 1 .. MaxSeq : IdempotentProduce(t, key, seq)
      PROVE  CoreInv'
    BY <1>3, CoreProduce, CoreFence, CoreTransactions
<1>4. ASSUME NEW t \in Threads,
             \/ \E producer \in {Own, Default} : Fence(t, producer)
             \/ Begin(t) \/ Abort(t) \/ Commit(t)
             \/ \E p \in Partitions : Poll(t, p)
      PROVE  CoreInv'
    BY <1>4, CoreFence, CoreTransactions, CoreConsume
<1>5. ASSUME \/ \E c \in Consumers : RegisterConsumer(c) \/ Heartbeat(c)
             \/ TimePasses \/ Rebalance \/ EvictOld
      PROVE  CoreInv'
    BY <1>5, CoreGroup
<1> QED BY <1>1, <1>2, <1>3, <1>4, <1>5 DEF Next

-----------------------------------------------------------------------------
(* The steps of a thread by the part they belong to. *)

ProducerStep(t) ==
    \/ TakeOffset(t) \/ Push(t) \/ Acknowledge(t)
    \/ \E key \in Keys, seq \in 1 .. MaxSeq : IdempotentProduce(t, key, seq)
FenceStep(t) ==
    \/ \E producer \in {Own, Default} : Fence(t, producer)
    \/ \E key \in Keys : ProduceIdempotent(t, key)
    \/ Register(t) \/ NextSequence(t) \/ IsValid(t)
TxStep(t) ==
    \/ Begin(t) \/ Abort(t) \/ Commit(t) \/ \E key \in Keys : Send(t, key)
    \/ Clear(t) \/ AddPending(t) \/ CopyPending(t) \/ PublishPending(t)
ConsumerStep(t) == CommitOffset(t) \/ \E p \in Partitions : Poll(t, p)
HandlerStep(t) == ProcessCheck(t) \/ ProcessRun(t) \/ ProcessMakeRoom(t) \/ ProcessMark(t)
GroupStep ==
    \/ \E c \in Consumers : RegisterConsumer(c) \/ Heartbeat(c)
    \/ TimePasses \/ Rebalance \/ EvictOld

(* These are all the steps. *)
LEMMA Parts ==
    ASSUME [Next]_vars
    PROVE  \/ UNCHANGED vars \/ GroupStep
           \/ \E t \in Threads : \/ ProducerStep(t) \/ FenceStep(t) \/ TxStep(t)
                                 \/ ConsumerStep(t) \/ HandlerStep(t)
<1>1. ASSUME NEW t \in Threads, Step(t)
      PROVE  ProducerStep(t) \/ FenceStep(t) \/ TxStep(t) \/ ConsumerStep(t) \/ HandlerStep(t)
    BY <1>1 DEF Step, ProducerStep, FenceStep, TxStep, ConsumerStep, HandlerStep
<1>2. ASSUME NEW t \in Threads, NEW key \in Keys,
             \/ ProduceIdempotent(t, key) \/ Send(t, key)
             \/ \E seq \in 1 .. MaxSeq : IdempotentProduce(t, key, seq)
      PROVE  ProducerStep(t) \/ FenceStep(t) \/ TxStep(t)
    BY <1>2 DEF ProducerStep, FenceStep, TxStep
<1>3. ASSUME NEW t \in Threads,
             \/ \E producer \in {Own, Default} : Fence(t, producer)
             \/ Begin(t) \/ Abort(t) \/ Commit(t)
             \/ \E p \in Partitions : Poll(t, p)
      PROVE  FenceStep(t) \/ TxStep(t) \/ ConsumerStep(t)
    BY <1>3 DEF FenceStep, TxStep, ConsumerStep
<1> QED BY <1>1, <1>2, <1>3 DEF Next, GroupStep

(* Thread t goes from one of the labels in A to one of the labels in B,    *)
(* and no overlap is forgotten.                                            *)
Goes(t, A, B) ==
    /\ \A u \in Threads : u # t => frame'[u] = frame[u]
    /\ frame[t].at \in A /\ frame'[t].at \in B
    /\ overlaps \subseteq overlaps'

(* What the steps of the producer leave alone. *)
LEMMA ProducerTouches ==
    ASSUME CoreInv, NEW t \in Threads, ProducerStep(t)
    PROVE  /\ UNCHANGED <<epoch, registrations, pending, committed, processed, handled,
                          evicted, sent, received, lastSeq>>
           /\ Goes(t, Producing \cup {"idle"}, Producing \cup {"idle", "publish"})
           /\ calls' >= calls /\ nextOffset' >= nextOffset
           /\ Push(t) \/ UNCHANGED log
<1> USE DEF producerVars, fenceVars, txVars, groupVars, handlerVars, busVars, Producing
<1>1. Framed /\ calls \in Nat /\ nextOffset \in Nat
    BY DEF CoreInv, TypeOK
<1>2. ASSUME TakeOffset(t)
      PROVE  Goes(t, Producing \cup {"idle"}, Producing \cup {"idle", "publish"})
    <2>1. Turns(t, "push", frame[t].key, frame[t].id, nextOffset, frame[t].queue,
                frame[t].reads, frame[t].use)
        BY <1>1, <1>2, Effects
    <2> QED BY <1>2, <2>1 DEF TakeOffset, At, Turns, Goes
<1>3. ASSUME Push(t)
      PROVE  Goes(t, Producing \cup {"idle"}, Producing \cup {"idle", "publish"})
    <2>1. Turns(t, IF frame[t].id[1] = "tx" THEN "publish" ELSE "acknowledge", frame[t].key,
                frame[t].id, frame[t].value, frame[t].queue, frame[t].reads, frame[t].use)
        BY <1>1, <1>3, Effects
    <2> QED BY <1>3, <2>1 DEF Push, At, Turns, Goes
<1>4. ASSUME Acknowledge(t)
      PROVE  Goes(t, Producing \cup {"idle"}, Producing \cup {"idle", "publish"})
    <2>1. Rests(t)
        BY <1>1, <1>4, Effects
    <2> QED BY <1>4, <2>1 DEF Acknowledge, At, Turns, Goes, Rests
<1>5. ASSUME NEW key \in Keys, NEW seq \in 1 .. MaxSeq, IdempotentProduce(t, key, seq)
      PROVE  Goes(t, Producing \cup {"idle"}, Producing \cup {"idle", "publish"})
    <2>1. CASE Turns(t, "offset", key, <<Own, seq>>, 0, <<>>, {}, <<Own, seq>>)
        BY <1>5, <2>1 DEF IdempotentProduce, Call, Turns, Goes, Overlap
    <2>2. CASE UNCHANGED <<frame, overlaps>>
        BY <1>5, <2>2 DEF IdempotentProduce, Call, Goes
    <2> QED BY <1>1, <1>5, <2>1, <2>2, Effects
<1>6. UNCHANGED <<epoch, registrations, pending, committed, processed, handled, evicted, sent,
                  received, lastSeq>>
    BY DEF ProducerStep, TakeOffset, Push, Acknowledge, IdempotentProduce
<1>7. calls' >= calls /\ nextOffset' >= nextOffset /\ (Push(t) \/ UNCHANGED log)
    <2>1. calls' = calls \/ calls' = calls + 1
        BY DEF ProducerStep, TakeOffset, Push, Acknowledge, IdempotentProduce, At, Call
    <2>2. nextOffset' = nextOffset \/ nextOffset' = nextOffset + 1
        BY DEF ProducerStep, TakeOffset, Push, Acknowledge, IdempotentProduce
    <2>3. Push(t) \/ UNCHANGED log
        BY DEF ProducerStep, TakeOffset, Acknowledge, IdempotentProduce
    <2> QED BY <1>1, <2>1, <2>2, <2>3
<1> QED BY <1>2, <1>3, <1>4, <1>5, <1>6, <1>7 DEF ProducerStep

(* What the steps of the fencing token and of the wiring leave alone. *)
LEMMA FenceTouches ==
    ASSUME CoreInv, NEW t \in Threads, FenceStep(t)
    PROVE  /\ UNCHANGED <<log, nextOffset, acknowledged, pending, committed, processed,
                          handled, evicted, sent, received>>
           /\ Goes(t, {"idle", "register", "sequence", "valid"},
                      {"idle", "register", "sequence", "valid", "offset"})
           /\ calls' >= calls
           /\ frame'[t].at = "offset" => IsValid(t)
<1> USE DEF producerVars, fenceVars, txVars, groupVars, handlerVars, busVars
<1> DEFINE G == Goes(t, {"idle", "register", "sequence", "valid"},
                        {"idle", "register", "sequence", "valid", "offset"})
                /\ (frame'[t].at = "offset" => IsValid(t))
<1>1. Framed /\ calls \in Nat
    BY DEF CoreInv, TypeOK
<1>2. ASSUME NEW producer \in {Own, Default}, Fence(t, producer) PROVE G
    <2>1. Turns(t, "register", 0, <<producer, 0>>, epoch, <<"fence">>, {}, Nothing)
        BY <1>1, <1>2, Effects DEF Fence
    <2> QED BY <1>2, <2>1 DEF Fence, TakeEpoch, Call, Overlap, Turns, Goes
<1>3. ASSUME NEW key \in Keys, ProduceIdempotent(t, key) PROVE G
    <2>1. Turns(t, "register", key, <<Default, 0>>, epoch, <<>>, {}, Nothing)
        BY <1>1, <1>3, Effects DEF ProduceIdempotent
    <2> QED BY <1>3, <2>1 DEF ProduceIdempotent, TakeEpoch, Call, Overlap, Turns, Goes
<1>4. ASSUME Register(t) PROVE G
    <2>1. \/ Rests(t)
          \/ Turns(t, "sequence", frame[t].key, frame[t].id, frame[t].value, frame[t].queue,
                   frame[t].reads, frame[t].use)
        BY <1>1, <1>4, Effects
    <2> QED BY <1>4, <2>1 DEF Register, At, Turns, Rests, Goes
<1>5. ASSUME NextSequence(t) PROVE G
    <2>1. Turns(t, "valid", frame[t].key, <<Default, lastSeq + 1>>, frame[t].value,
                frame[t].queue, frame[t].reads, frame[t].use)
        BY <1>1, <1>5, Effects
    <2> QED BY <1>5, <2>1 DEF NextSequence, At, Turns, Goes
<1>6. ASSUME IsValid(t) PROVE G
    <2>1. \/ Rests(t)
          \/ Turns(t, "offset", frame[t].key, frame[t].id, frame[t].value, frame[t].queue,
                   frame[t].reads, frame[t].use)
        BY <1>1, <1>6, Effects
    <2> QED BY <1>6, <2>1 DEF IsValid, At, Turns, Rests, Goes
<1>7. /\ UNCHANGED <<log, nextOffset, acknowledged, pending, committed, processed, handled,
                     evicted, sent, received>>
      /\ calls' >= calls
    <2>1. calls' = calls \/ calls' = calls + 1
        BY DEF FenceStep, Fence, ProduceIdempotent, Register, NextSequence, IsValid, At, Call
    <2>2. UNCHANGED <<log, nextOffset, acknowledged, pending, committed, processed, handled,
                      evicted, sent, received>>
        BY DEF FenceStep, Fence, ProduceIdempotent, TakeEpoch, Register, NextSequence, IsValid
    <2> QED BY <1>1, <2>1, <2>2
<1> QED BY <1>2, <1>3, <1>4, <1>5, <1>6, <1>7 DEF FenceStep

(* What the steps of the transactional producer leave alone. *)
LEMMA TxTouches ==
    ASSUME CoreInv, NEW t \in Threads, TxStep(t)
    PROVE  /\ UNCHANGED <<log, nextOffset, lastSeq, acknowledged, epoch, registrations,
                          committed, processed, handled, evicted, received>>
           /\ Goes(t, {"idle", "clear", "send", "copy", "publish"},
                      {"idle", "clear", "send", "copy", "publish", "offset"})
           /\ frame'[t].at = "offset" => frame'[t].id[1] = "tx"
           /\ calls' >= calls
<1> USE DEF producerVars, fenceVars, txVars, groupVars, handlerVars, busVars
<1> DEFINE G == Goes(t, {"idle", "clear", "send", "copy", "publish"},
                        {"idle", "clear", "send", "copy", "publish", "offset"})
                /\ (frame'[t].at = "offset" => frame'[t].id[1] = "tx")
<1>1. Framed /\ calls \in Nat /\ LocalOK(t)
    BY DEF CoreInv, TypeOK
<1>2. ASSUME Begin(t) \/ Abort(t) PROVE G
    <2>1. Turns(t, "clear", 0, <<>>, 0, <<>>, {}, <<"tx", 0>>)
        BY <1>1, <1>2, Effects
    <2> QED BY <1>2, <2>1 DEF Begin, Abort, TxCall, Call, Overlap, Turns, Goes
<1>3. ASSUME Clear(t) \/ AddPending(t) PROVE G
    <2>1. Rests(t)
        BY <1>1, <1>3, Effects
    <2> QED BY <1>3, <2>1 DEF Clear, AddPending, At, Turns, Rests, Goes
<1>4. ASSUME NEW key \in Keys, Send(t, key) PROVE G
    <2>1. CASE inTransaction
        <3>1. Turns(t, "send", key, <<"tx", calls>>, 0, <<>>, {}, <<"tx", 0>>)
            BY <1>1, <1>4, <2>1, Effects
        <3> QED BY <1>4, <2>1, <3>1 DEF Send, TxCall, Call, Overlap, Turns, Goes
    <2>2. CASE ~inTransaction
        BY <1>4, <2>2 DEF Send, Call, Goes
    <2> QED BY <2>1, <2>2
<1>5. ASSUME Commit(t) PROVE G
    <2>1. CASE inTransaction
        <3>1. Turns(t, "copy", 0, <<>>, 0, <<>>, {}, <<"tx", 0>>)
            BY <1>1, <1>5, <2>1, Effects
        <3> QED BY <1>5, <2>1, <3>1 DEF Commit, TxCall, Call, Overlap, Turns, Goes
    <2>2. CASE ~inTransaction
        BY <1>5, <2>2 DEF Commit, Call, Goes
    <2> QED BY <2>1, <2>2
<1>6. ASSUME CopyPending(t) PROVE G
    <2>1. Turns(t, "publish", frame[t].key, frame[t].id, frame[t].value, pending,
                frame[t].reads, frame[t].use)
        BY <1>1, <1>6, Effects
    <2> QED BY <1>6, <2>1 DEF CopyPending, At, Turns, Goes
<1>7. ASSUME PublishPending(t) PROVE G
    <2>1. CASE frame[t].queue = <<>>
        <3>1. Turns(t, "clear", frame[t].key, frame[t].id, frame[t].value, frame[t].queue,
                    frame[t].reads, frame[t].use)
            BY <1>1, <1>7, <2>1, Effects
        <3> QED BY <1>7, <3>1 DEF PublishPending, At, Turns, Goes
    <2>2. CASE frame[t].queue # <<>>
        <3>1. Turns(t, "offset", Head(frame[t].queue)[1], Head(frame[t].queue)[2],
                    frame[t].value, Tail(frame[t].queue), frame[t].reads, frame[t].use)
            BY <1>1, <1>7, <2>2, Effects
        <3>2. frame[t].queue \in Batches
            BY <1>1, <1>7 DEF PublishPending, At, LocalOK, InTx
        <3>3. Head(frame[t].queue) \in Keys \X TxIds
            BY <2>2, <3>2 DEF Batches
        <3>4. Head(frame[t].queue)[2][1] = "tx"
            BY <3>3 DEF TxIds
        <3> QED BY <1>7, <3>1, <3>4 DEF PublishPending, At, Turns, Goes
    <2> QED BY <2>1, <2>2
<1>8. /\ UNCHANGED <<log, nextOffset, lastSeq, acknowledged, epoch, registrations, committed,
                     processed, handled, evicted, received>>
      /\ calls' >= calls
    <2>1. calls' = calls \/ calls' = calls + 1
        BY DEF TxStep, Begin, Abort, Commit, Send, Clear, AddPending, CopyPending,
               PublishPending, At, Call
    <2>2. UNCHANGED <<log, nextOffset, lastSeq, acknowledged, epoch, registrations, committed,
                      processed, handled, evicted, received>>
        BY DEF TxStep, Begin, Abort, Commit, Send, Clear, AddPending, CopyPending,
               PublishPending, TxCall
    <2> QED BY <1>1, <2>1, <2>2
<1> QED BY <1>2, <1>3, <1>4, <1>5, <1>6, <1>7, <1>8 DEF TxStep

(* What the steps of a consumer and of its handler leave alone. *)
LEMMA ReaderTouches ==
    ASSUME CoreInv, NEW t \in Threads, ConsumerStep(t) \/ HandlerStep(t)
    PROVE  /\ UNCHANGED <<log, nextOffset, lastSeq, acknowledged, epoch, registrations,
                          pending, sent>>
           /\ Goes(t, Reading \cup {"idle"}, Reading \cup {"idle"})
           /\ calls' >= calls
           /\ HandlerStep(t) \/ UNCHANGED <<processed, handled, evicted>>
           /\ ConsumerStep(t) \/ UNCHANGED <<committed, received>>
<1> USE DEF producerVars, fenceVars, txVars, groupVars, handlerVars, busVars, Reading
<1> DEFINE G == Goes(t, Reading \cup {"idle"}, Reading \cup {"idle"})
<1>1. Framed /\ calls \in Nat /\ LocalOK(t)
    BY DEF CoreInv, TypeOK
<1>2. ASSUME CommitOffset(t) PROVE G
    <2>1. Rests(t)
        BY <1>1, <1>2, Effects
    <2> QED BY <1>2, <2>1 DEF CommitOffset, At, Turns, Rests, Goes
<1>3. ASSUME NEW p \in Partitions, Poll(t, p) PROVE G
    <2>1. Turns(t, "handle", p, <<>>, 0, <<>>, Consume(p, committed[p]), Nothing)
        BY <1>1, <1>3, Effects
    <2> QED BY <1>3, <2>1 DEF Poll, Call, Turns, Goes
<1>4. ASSUME Handled(t), frame[t].at \in Reading, overlaps' = overlaps PROVE G
    <2>1. Turns(t, "handle", frame[t].key, frame[t].id,
                IF Next1(t).offset > frame[t].value THEN Next1(t).offset ELSE frame[t].value,
                frame[t].queue, frame[t].reads \ {Min(frame[t].reads)}, Nothing)
        BY <1>1, <1>4, Effects
    <2> QED BY <1>4, <2>1 DEF Turns, Goes
<1>5. ASSUME ProcessCheck(t) PROVE G
    <2>1. CASE IsProcessed(processed, Next1(t).id)
        BY <1>4, <1>5, <2>1 DEF ProcessCheck, At
    <2>2. CASE ~IsProcessed(processed, Next1(t).id)
        <3>1. Turns(t, "run", frame[t].key, frame[t].id, frame[t].value, frame[t].queue,
                    frame[t].reads, <<"process", Next1(t).id>>)
            BY <1>1, <1>5, <2>2, Effects
        <3> QED BY <1>5, <2>2, <3>1 DEF ProcessCheck, At, Overlap, Turns, Goes
    <2> QED BY <2>1, <2>2
<1>6. ASSUME ProcessRun(t) PROVE G
    <2>1. \/ Rests(t)
          \/ Turns(t, "mark", frame[t].key, frame[t].id, frame[t].value, frame[t].queue,
                   frame[t].reads, frame[t].use)
        BY <1>1, <1>6, Effects
    <2> QED BY <1>6, <2>1 DEF ProcessRun, At, Turns, Rests, Goes
<1>7. ASSUME ProcessMakeRoom(t) PROVE G
    <2>1. Turns(t, "insert", frame[t].key, frame[t].id, frame[t].value, frame[t].queue,
                frame[t].reads, frame[t].use)
        BY <1>1, <1>7, Effects
    <2> QED BY <1>7, <2>1 DEF ProcessMakeRoom, At, Turns, Goes
<1>8. ASSUME ProcessMark(t) PROVE G
    BY <1>4, <1>8 DEF ProcessMark, At
<1>9. UNCHANGED <<log, nextOffset, lastSeq, acknowledged, epoch, registrations, pending, sent>>
    BY DEF ConsumerStep, HandlerStep, CommitOffset, Poll, ProcessCheck, ProcessRun,
           ProcessMakeRoom, ProcessMark
<1>10. calls' = calls \/ calls' = calls + 1
    BY DEF ConsumerStep, HandlerStep, CommitOffset, Poll, ProcessCheck, ProcessRun,
           ProcessMakeRoom, ProcessMark, At, Call
<1>11. /\ HandlerStep(t) \/ UNCHANGED <<processed, handled, evicted>>
       /\ ConsumerStep(t) \/ UNCHANGED <<committed, received>>
    BY DEF ConsumerStep, HandlerStep, CommitOffset, Poll, ProcessCheck, ProcessRun,
           ProcessMakeRoom, ProcessMark
<1> QED BY <1>1, <1>2, <1>3, <1>5, <1>6, <1>7, <1>8, <1>9, <1>10, <1>11
        DEF ConsumerStep, HandlerStep

-----------------------------------------------------------------------------
(* The idempotent handler: what it has succeeded with is remembered, about *)
(* to be, or forgotten.                                                    *)

Remembered ==
    \A i \in DOMAIN handled :
        \/ handled[i] \in ToSet(processed) \cup evicted
        \/ \E t \in Threads : frame[t].at \in {"mark", "insert"} /\ Next1(t).id = handled[i]

(* A thread that runs the handler again for an id was overlapped, or the   *)
(* id had been forgotten.                                                  *)
RunAgain ==
    \A t \in Threads : frame[t].at = "run" =>
        \A i \in DOMAIN handled : handled[i] = Next1(t).id =>
            <<"process", handled[i]>> \in overlaps \/ handled[i] \in evicted

HandleInv == HandledOnce /\ Remembered /\ RunAgain

(* Nobody enters or leaves the handler and nothing is lost unnoticed. *)
LEMMA HandleStill ==
    ASSUME HandleInv, UNCHANGED handled, overlaps \subseteq overlaps', evicted \subseteq evicted',
           ToSet(processed) \subseteq ToSet(processed)' \cup evicted',
           \A u \in Threads : frame[u].at \in Running \/ frame'[u].at \in Running =>
              frame'[u].at = frame[u].at /\ Next1(u)' = Next1(u)
    PROVE  HandleInv'
<1>1. HandledOnce'
    BY DEF HandleInv, HandledOnce
<1>2. Remembered'
    BY DEF HandleInv, Remembered, Running
<1>3. RunAgain'
    BY DEF HandleInv, RunAgain, Running
<1> QED BY <1>1, <1>2, <1>3 DEF HandleInv

(* A message is looked up. *)
LEMMA HandleCheck ==
    ASSUME CoreInv, HandleInv, NEW t \in Threads, ProcessCheck(t)
    PROVE  HandleInv'
<1>1. /\ UNCHANGED <<log, processed, handled, evicted>>
      /\ Goes(t, Reading \cup {"idle"}, Reading \cup {"idle"}) /\ frame[t].at = "handle"
    BY ReaderTouches DEF HandlerStep, ProcessCheck, At, handlerVars
<1>2. ASSUME NEW u \in Threads, u # t PROVE frame'[u] = frame[u] /\ Next1(u)' = Next1(u)
    BY <1>1, <1>2 DEF Goes, Next1
<1>3. CASE IsProcessed(processed, Next1(t).id)
    <2>1. frame'[t].at = "handle"
        BY <1>3, Effects DEF ProcessCheck, CoreInv, TypeOK, Turns
    <2> QED BY <1>1, <1>2, <2>1, HandleStill DEF Running, Goes
<1>4. CASE ~IsProcessed(processed, Next1(t).id)
    <2>1. Turns(t, "run", frame[t].key, frame[t].id, frame[t].value, frame[t].queue,
                frame[t].reads, <<"process", Next1(t).id>>)
        BY <1>4, Effects DEF CoreInv, TypeOK
    <2>2. frame'[t].at = "run" /\ Next1(t)' = Next1(t)
        BY <1>1, <2>1 DEF Turns, Next1
    <2>3. HandledOnce'
        BY <1>1 DEF HandleInv, HandledOnce, Goes
    <2>4. Remembered'
        BY <1>1, <1>2 DEF HandleInv, Remembered
    <2>5. Next1(t).id \notin ToSet(processed)
        <3>1. DOMAIN processed = 1 .. Len(processed)
            BY DEF CoreInv, TypeOK
        <3> QED BY <1>4, <3>1 DEF IsProcessed, Contains, ToSet
    <2>6. ASSUME NEW i \in DOMAIN handled, handled[i] = Next1(t).id
          PROVE  <<"process", handled[i]>> \in overlaps' \/ handled[i] \in evicted
        <3>1. ASSUME NEW u \in Threads, frame[u].at \in {"mark", "insert"},
                     Next1(u).id = handled[i]
              PROVE  <<"process", handled[i]>> \in overlaps'
            <4>1. u # t /\ frame[u].use = <<"process", handled[i]>> /\ frame[u].at # "idle"
                BY <1>1, <3>1 DEF CoreInv, UseOK, Running
            <4> QED BY <1>4, <2>6, <4>1 DEF ProcessCheck, Overlap, Using
        <3> QED BY <2>5, <2>6, <3>1 DEF HandleInv, Remembered
    <2>7. RunAgain'
        BY <1>1, <1>2, <2>2, <2>6 DEF HandleInv, RunAgain, Goes
    <2> QED BY <2>3, <2>4, <2>7 DEF HandleInv
<1> QED BY <1>3, <1>4

(* The handler succeeds or fails. *)
LEMMA HandleRun ==
    ASSUME CoreInv, HandleInv, NEW t \in Threads, ProcessRun(t)
    PROVE  HandleInv'
<1>1. /\ UNCHANGED <<log, processed, evicted, overlaps>>
      /\ Goes(t, Reading \cup {"idle"}, Reading \cup {"idle"}) /\ frame[t].at = "run"
    BY ReaderTouches DEF HandlerStep, ProcessRun, At
<1>2. ASSUME NEW u \in Threads, u # t PROVE frame'[u] = frame[u] /\ Next1(u)' = Next1(u)
    BY <1>1, <1>2 DEF Goes, Next1
<1>3. CASE UNCHANGED handled /\ Rests(t)
    <2>1. frame'[t].at = "idle"
        BY <1>3 DEF Rests, Turns
    <2>2. HandledOnce'
        BY <1>1, <1>3 DEF HandleInv, HandledOnce
    <2>3. Remembered'
        BY <1>1, <1>2, <1>3 DEF HandleInv, Remembered
    <2>4. RunAgain'
        BY <1>1, <1>2, <1>3, <2>1 DEF HandleInv, RunAgain
    <2> QED BY <2>2, <2>3, <2>4 DEF HandleInv
<1>4. CASE /\ handled' = Append(handled, Next1(t).id)
           /\ Turns(t, "mark", frame[t].key, frame[t].id, frame[t].value, frame[t].queue,
                    frame[t].reads, frame[t].use)
    <2>1. frame'[t].at = "mark" /\ Next1(t)' = Next1(t)
        BY <1>1, <1>4 DEF Turns, Next1
    <2>2. Next1(t).id \in Ids
        <3>1. frame[t].at \in Reading /\ frame[t].reads # {}
            BY <1>1 DEF CoreInv, LocalOK, Reading, Running
        <3> QED BY <3>1, NextTyped
    <2>3. PICK n \in Nat : /\ DOMAIN handled = 1 .. n /\ DOMAIN handled' = 1 .. n + 1
                           /\ handled'[n + 1] = Next1(t).id
                           /\ \A i \in 1 .. n : handled'[i] = handled[i]
        <3>1. handled \in Seq(Ids)
            BY DEF CoreInv, TypeOK
        <3>2. Len(handled) \in Nat
            BY <3>1
        <3> QED BY <1>4, <2>2, <3>1, <3>2
    <2>4. ASSUME NEW i \in 1 .. n, handled[i] = Next1(t).id
          PROVE  <<"process", handled[i]>> \in overlaps \/ handled[i] \in evicted
        BY <1>1, <2>3, <2>4 DEF HandleInv, RunAgain
    <2>5. ASSUME NEW i \in DOMAIN handled', NEW j \in DOMAIN handled', i # j,
                 handled'[i] = handled'[j]
          PROVE  <<"process", handled'[i]>> \in overlaps \/ handled'[i] \in evicted
        <3>1. CASE i \in 1 .. n /\ j \in 1 .. n
            BY <2>3, <2>5, <3>1 DEF HandleInv, HandledOnce
        <3>2. CASE i \in 1 .. n /\ j = n + 1
            BY <2>3, <2>4, <2>5, <3>2
        <3>3. CASE j \in 1 .. n /\ i = n + 1
            BY <2>3, <2>4, <2>5, <3>3
        <3>4. (i \in 1 .. n \/ i = n + 1) /\ (j \in 1 .. n \/ j = n + 1)
            BY <2>3
        <3> QED BY <2>5, <3>1, <3>2, <3>3, <3>4
    <2>6. HandledOnce'
        BY <1>1, <2>5 DEF HandledOnce
    <2>7. Remembered'
        <3>1. ASSUME NEW i \in 1 .. n
              PROVE  \/ handled'[i] \in ToSet(processed') \cup evicted'
                     \/ \E u \in Threads : frame'[u].at \in {"mark", "insert"}
                                           /\ Next1(u)'.id = handled'[i]
            BY <1>1, <1>2, <2>3 DEF HandleInv, Remembered
        <3>2. frame'[t].at \in {"mark", "insert"} /\ Next1(t)'.id = handled'[n + 1]
            BY <2>1, <2>3
        <3>3. \A i \in DOMAIN handled' : i \in 1 .. n \/ i = n + 1
            BY <2>3
        <3> QED BY <3>1, <3>2, <3>3 DEF Remembered
    <2>8. RunAgain'
        <3> SUFFICES ASSUME NEW u \in Threads, frame'[u].at = "run", NEW i \in DOMAIN handled',
                            handled'[i] = Next1(u)'.id
                     PROVE  <<"process", handled'[i]>> \in overlaps \/ handled'[i] \in evicted
            BY <1>1 DEF RunAgain
        <3>1. u # t /\ frame[u].at = "run" /\ Next1(u)' = Next1(u)
            BY <1>2, <2>1
        <3>2. CASE i \in 1 .. n
            BY <2>3, <3>1, <3>2 DEF HandleInv, RunAgain
        <3>3. CASE i = n + 1
            <4>1. /\ frame[u].use = <<"process", Next1(t).id>>
                  /\ frame[t].use = <<"process", Next1(t).id>>
                BY <1>1, <2>3, <3>1, <3>3 DEF CoreInv, UseOK, Running
            <4>2. frame[u].use # Nothing
                BY <4>1 DEF Nothing
            <4> QED BY <1>1, <2>3, <3>1, <3>3, <4>1, <4>2 DEF CoreInv, Exclusive
        <3> QED BY <2>3, <3>2, <3>3
    <2> QED BY <2>6, <2>7, <2>8 DEF HandleInv
<1>5. Framed
    BY DEF CoreInv, TypeOK
<1>6. \/ UNCHANGED handled /\ Return(t)
      \/ handled' = Append(handled, Next1(t).id) /\ Become(t, [at |-> "mark"])
    BY DEF ProcessRun, GoTo
<1> QED BY <1>3, <1>4, <1>5, <1>6, Shapes DEF Rests

(* mark_processed makes room: what it drops is forgotten. *)
LEMMA HandleMakeRoom ==
    ASSUME CoreInv, HandleInv, NEW t \in Threads, ProcessMakeRoom(t)
    PROVE  HandleInv'
<1>1. /\ UNCHANGED <<log, handled, overlaps>>
      /\ Goes(t, Reading \cup {"idle"}, Reading \cup {"idle"}) /\ frame[t].at = "mark"
    BY ReaderTouches DEF HandlerStep, ProcessMakeRoom, At
<1>2. Turns(t, "insert", frame[t].key, frame[t].id, frame[t].value, frame[t].queue,
            frame[t].reads, frame[t].use)
    BY Effects DEF CoreInv, TypeOK
<1>3. \A u \in Threads : Next1(u)' = Next1(u) /\ (u # t => frame'[u] = frame[u])
    BY <1>1, <1>2 DEF Turns, Next1
<1>4. frame'[t].at = "insert"
    BY <1>2 DEF Turns
<1>5. ToSet(processed) \subseteq ToSet(processed') \cup evicted' /\ evicted \subseteq evicted'
    BY DEF ProcessMakeRoom
<1>6. HandledOnce'
    BY <1>1, <1>5 DEF HandleInv, HandledOnce
<1>7. Remembered'
    BY <1>1, <1>3, <1>4, <1>5 DEF HandleInv, Remembered
<1>8. RunAgain'
    BY <1>1, <1>3, <1>4, <1>5 DEF HandleInv, RunAgain
<1> QED BY <1>6, <1>7, <1>8 DEF HandleInv

(* mark_processed writes the id. *)
LEMMA HandleMark ==
    ASSUME CoreInv, HandleInv, NEW t \in Threads, ProcessMark(t)
    PROVE  HandleInv'
<1>1. /\ UNCHANGED <<log, handled, evicted, overlaps>>
      /\ Goes(t, Reading \cup {"idle"}, Reading \cup {"idle"}) /\ frame[t].at = "insert"
    BY ReaderTouches DEF HandlerStep, ProcessMark, At
<1>2. frame'[t].at = "handle"
    BY Effects DEF ProcessMark, CoreInv, TypeOK, Turns
<1>3. \A u \in Threads : u # t => frame'[u] = frame[u] /\ Next1(u)' = Next1(u)
    BY <1>1 DEF Goes, Next1
<1>4. ToSet(processed) \cup {Next1(t).id} \subseteq ToSet(processed')
    <2>1. frame[t].at \in Reading /\ frame[t].reads # {}
        BY <1>1 DEF CoreInv, LocalOK, Reading, Running
    <2>2. Next1(t).id \in Ids /\ processed \in Seq(Ids)
        BY <2>1, NextTyped DEF CoreInv, TypeOK
    <2>3. processed' = Insert(processed, Next1(t).id)
        BY DEF ProcessMark
    <2> QED BY <2>2, <2>3, Inserted
<1>5. HandledOnce'
    BY <1>1 DEF HandleInv, HandledOnce
<1>6. Remembered'
    <2>1. ASSUME NEW i \in DOMAIN handled
          PROVE  \/ handled[i] \in ToSet(processed') \cup evicted
                 \/ \E u \in Threads : frame'[u].at \in {"mark", "insert"}
                                       /\ Next1(u)'.id = handled[i]
        <3>1. CASE handled[i] \in ToSet(processed) \cup evicted
            BY <1>4, <3>1
        <3>2. ASSUME NEW u \in Threads, frame[u].at \in {"mark", "insert"},
                     Next1(u).id = handled[i]
              PROVE  \/ handled[i] \in ToSet(processed')
                     \/ frame'[u].at \in {"mark", "insert"} /\ Next1(u)'.id = handled[i]
            BY <1>3, <1>4, <3>2
        <3> QED BY <3>1, <3>2 DEF HandleInv, Remembered
    <2> QED BY <1>1, <2>1 DEF Remembered
<1>7. RunAgain'
    BY <1>1, <1>2, <1>3 DEF HandleInv, RunAgain
<1> QED BY <1>5, <1>6, <1>7 DEF HandleInv

(* A step that leaves the frames of the readers alone leaves what they     *)
(* will handle next.                                                       *)
LEMMA ReadersStill ==
    ASSUME CoreInv, LogGrows, NEW u \in Threads,
           \/ frame'[u] = frame[u]
           \/ frame[u].at \notin Reading /\ frame'[u].at \notin Reading,
           frame[u].at \in Running \/ frame'[u].at \in Running
    PROVE  frame'[u].at = frame[u].at /\ Next1(u)' = Next1(u)
<1>1. frame'[u] = frame[u] /\ frame[u].at \in Running /\ frame[u].at \in Reading
    BY DEF Running, Reading
<1>2. frame[u].reads # {}
    BY <1>1 DEF CoreInv, LocalOK
<1> QED BY <1>1, <1>2, NextSame

(* Every step keeps it. *)
LEMMA HandleKept ==
    ASSUME CoreInv, HandleInv, [Next]_vars
    PROVE  HandleInv'
<1>1. CASE UNCHANGED vars
    BY <1>1, HandleStill DEF vars, Next1
<1>2. CASE GroupStep
    <2>1. UNCHANGED <<frame, log, overlaps, handled>>
        BY <1>2, CoreGroup DEF GroupStep
    <2>2. evicted \subseteq evicted' /\ ToSet(processed) \subseteq ToSet(processed') \cup evicted'
        <3>1. CASE UNCHANGED <<processed, evicted>>
            BY <3>1
        <3>2. CASE EvictOld
            BY <3>2 DEF EvictOld
        <3> QED BY <1>2, <3>1, <3>2
                DEF GroupStep, RegisterConsumer, Heartbeat, TimePasses, Rebalance, handlerVars
    <2>3. \A u \in Threads : Next1(u)' = Next1(u)
        BY <2>1 DEF Next1
    <2> QED BY <2>1, <2>2, <2>3, HandleStill
<1>3. ASSUME NEW t \in Threads, LogGrows, UNCHANGED <<handled, processed, evicted>>,
             overlaps \subseteq overlaps',
             \A u \in Threads : u # t => frame'[u] = frame[u],
             frame[t].at \notin Reading /\ frame'[t].at \notin Reading
      PROVE  HandleInv'
    <2>1. ToSet(processed)' = ToSet(processed)
        BY <1>3
    <2>2. \A u \in Threads : frame[u].at \in Running \/ frame'[u].at \in Running =>
              frame'[u].at = frame[u].at /\ Next1(u)' = Next1(u)
        BY <1>3, ReadersStill
    <2> QED BY <1>3, <2>1, <2>2, HandleStill
<1>4. ASSUME NEW t \in Threads, ProducerStep(t) PROVE HandleInv'
    <2>1. LogGrows
        BY <1>4, ProducerTouches, Pushed DEF LogGrows
    <2> QED BY <1>3, <1>4, <2>1, ProducerTouches DEF Goes, Producing, Reading
<1>5. ASSUME NEW t \in Threads, FenceStep(t) PROVE HandleInv'
    <2>1. LogGrows
        BY <1>5, FenceTouches DEF LogGrows
    <2> QED BY <1>3, <1>5, <2>1, FenceTouches DEF Goes, Reading
<1>6. ASSUME NEW t \in Threads, TxStep(t) PROVE HandleInv'
    <2>1. LogGrows
        BY <1>6, TxTouches DEF LogGrows
    <2> QED BY <1>3, <1>6, <2>1, TxTouches DEF Goes, Reading
<1>7. ASSUME NEW t \in Threads, ConsumerStep(t) PROVE HandleInv'
    <2>1. UNCHANGED <<log, handled, processed, evicted, overlaps>>
        BY <1>7 DEF ConsumerStep, CommitOffset, Poll, busVars, handlerVars
    <2>2. frame[t].at \notin Running /\ frame'[t].at \notin Running
        <3>1. \/ Rests(t)
              \/ \E p : Turns(t, "handle", p, <<>>, 0, <<>>, Consume(p, committed[p]), Nothing)
            BY <1>7, Effects DEF ConsumerStep, CoreInv, TypeOK
        <3> QED BY <1>7, <3>1 DEF ConsumerStep, CommitOffset, Poll, At, Call, Turns, Rests, Running
    <2>3. \A u \in Threads : u # t => frame'[u] = frame[u] /\ Next1(u)' = Next1(u)
        BY <1>7, <2>1, ReaderTouches DEF Goes, Next1
    <2> QED BY <2>1, <2>2, <2>3, HandleStill
<1>8. ASSUME NEW t \in Threads, HandlerStep(t) PROVE HandleInv'
    BY <1>8, HandleCheck, HandleRun, HandleMakeRoom, HandleMark DEF HandlerStep
<1> QED BY <1>1, <1>2, <1>4, <1>5, <1>6, <1>7, <1>8, Parts

(* The handler succeeds twice with one id only after two threads had it at *)
(* once, or after the service had forgotten it.                            *)
THEOREM AlwaysHandledOnce == Spec => []HandledOnce
<1>1. Init => CoreInv /\ HandleInv
    <2> SUFFICES ASSUME Init PROVE CoreInv /\ HandleInv
        OBVIOUS
    <2>1. HandleInv
        BY DEF Init, HandleInv, HandledOnce, Remembered, RunAgain
    <2> QED BY <2>1, CoreStart
<1>2. CoreInv /\ HandleInv /\ [Next]_vars => CoreInv' /\ HandleInv'
    BY CoreStep, HandleKept
<1>3. HandleInv => HandledOnce
    BY DEF HandleInv
<1> QED BY <1>1, <1>2, <1>3, PTL DEF Spec

-----------------------------------------------------------------------------
(* The consumer group: what lies behind an offset has been read, or came   *)
(* late.                                                                   *)

(* Message i of partition p was received, or came behind a later offset. *)
Seen(p, i) ==
    \/ log[p][i].offset \in received
    \/ \E j \in 1 .. i - 1 : log[p][j].offset > log[p][i].offset

(* Up to offset x everything of partition p has been seen, and something   *)
(* at or beyond x has been read.                                           *)
Covered(p, x) ==
    /\ \A i \in DOMAIN log[p] : log[p][i].offset <= x => Seen(p, i)
    /\ \E j \in DOMAIN log[p] : log[p][j].offset >= x /\ log[p][j].offset \in received

(* What a consumer has handled, and what it has still to handle. *)
ReaderOK(t) ==
    frame[t].at \in Reading =>
        /\ Covered(frame[t].key, frame[t].value)
        /\ \A j \in frame[t].reads :
              /\ log[frame[t].key][j].offset \in received
              /\ \A i \in 1 .. j : Seen(frame[t].key, i)

(* A committed offset is one a consumer handled everything up to. *)
CommittedOK(p) == committed[p] = 0 \/ Covered(p, committed[p] - 1)

ReadInv == (\A p \in Partitions : CommittedOK(p)) /\ (\A t \in Threads : ReaderOK(t))

(* Offsets are numbers and positions count from one. *)
LEMMA Positions ==
    ASSUME CoreInv, NEW p \in Partitions
    PROVE  /\ Len(log[p]) \in Nat /\ DOMAIN log[p] = 1 .. Len(log[p])
           /\ \A i \in DOMAIN log[p] : log[p][i].offset \in Nat /\ log[p][i].id \in Ids
<1>1. log[p] \in Seq(Msgs)
    BY DEF CoreInv, TypeOK
<1>2. Len(log[p]) \in Nat /\ DOMAIN log[p] = 1 .. Len(log[p])
      /\ \A i \in DOMAIN log[p] : log[p][i] \in Msgs
    BY <1>1
<1> QED BY <1>2 DEF Msgs

(* What was seen stays seen. *)
LEMMA SeenKept ==
    ASSUME CoreInv, LogGrows, received \subseteq received', NEW p \in Partitions,
           NEW i \in DOMAIN log[p], Seen(p, i)
    PROVE  Seen(p, i)'
<1>1. i \in DOMAIN log'[p] /\ log'[p][i] = log[p][i]
    BY DEF LogGrows
<1>2. ASSUME NEW j \in 1 .. i - 1 PROVE log'[p][j] = log[p][j]
    <2>1. j \in DOMAIN log[p]
        BY Positions
    <2> QED BY <2>1 DEF LogGrows
<1> QED BY <1>1, <1>2 DEF Seen

(* Whatever enters a partition later than x was read is overtaken. *)
LEMMA CoveredKept ==
    ASSUME CoreInv, CoreInv', received \subseteq received', NEW p \in Partitions, NEW x \in Nat,
           UNCHANGED log \/ \E t \in Threads : Push(t), Covered(p, x)
    PROVE  LogGrows /\ Covered(p, x)'
<1>1. PICK n \in Nat : /\ LogGrows /\ DOMAIN log[p] = 1 .. n
                       /\ DOMAIN log'[p] = 1 .. n \/ DOMAIN log'[p] = 1 .. n + 1
    <2>1. CASE UNCHANGED log
        <3>1. LogGrows
            BY <2>1 DEF LogGrows
        <3> QED BY <2>1, <3>1, Positions
    <2>2. ASSUME NEW t \in Threads, Push(t)
          PROVE  /\ LogGrows
                 /\ \/ DOMAIN log'[p] = 1 .. Len(log[p])
                    \/ DOMAIN log'[p] = 1 .. Len(log[p]) + 1
        <3>1. CASE p = PartitionFor(frame[t].key)
            BY <2>2, <3>1, Pushed
        <3>2. CASE p # PartitionFor(frame[t].key)
            BY <2>2, <3>2, Pushed, Positions
        <3> QED BY <3>1, <3>2
    <2> QED BY <2>1, <2>2, Positions
<1>2. PICK j \in 1 .. n : log[p][j].offset >= x /\ log[p][j].offset \in received
    BY <1>1 DEF Covered
<1>3. log'[p][j] = log[p][j] /\ j \in DOMAIN log'[p]
    BY <1>1 DEF LogGrows
<1>4. ASSUME NEW i \in DOMAIN log'[p], log'[p][i].offset <= x PROVE Seen(p, i)'
    <2>1. CASE i \in 1 .. n
        <3>1. log'[p][i] = log[p][i]
            BY <1>1, <2>1 DEF LogGrows
        <3>2. Seen(p, i)
            BY <1>1, <1>4, <2>1, <3>1 DEF Covered
        <3> QED BY <1>1, <2>1, <3>2, SeenKept
    <2>2. CASE i = n + 1
        <3>1. log'[p][i].offset \in Nat /\ log'[p][j].offset \in Nat
            <4>1. log'[p] \in Seq(Msgs)
                BY DEF CoreInv, TypeOK
            <4>2. log'[p][i] \in Msgs /\ log'[p][j] \in Msgs
                BY <1>3, <4>1
            <4> QED BY <4>2 DEF Msgs
        <3>2. log'[p][j].offset >= x /\ log'[p][j].offset \in received' /\ j \in 1 .. i - 1
            BY <1>2, <1>3, <2>2
        <3>3. log'[p][j].offset = log'[p][i].offset \/ log'[p][j].offset > log'[p][i].offset
            BY <1>4, <3>1, <3>2
        <3> QED BY <3>2, <3>3 DEF Seen
    <2> QED BY <1>1, <2>1, <2>2
<1> QED BY <1>1, <1>2, <1>3, <1>4 DEF Covered

(* A step that leaves readers and committed offsets alone. *)
LEMMA ReadStill ==
    ASSUME CoreInv, CoreInv', ReadInv, UNCHANGED <<committed, received>>,
           UNCHANGED log \/ \E t \in Threads : Push(t),
           \A u \in Threads : \/ frame'[u] = frame[u]
                              \/ frame'[u].at \notin Reading
    PROVE  ReadInv'
<1>1. ASSUME NEW p \in Partitions PROVE CommittedOK(p)'
    <2>1. committed[p] \in Nat
        BY DEF CoreInv, TypeOK
    <2>2. CASE committed[p] = 0
        BY <2>2 DEF CommittedOK
    <2>3. CASE committed[p] # 0
        <3>1. PICK x \in Nat : x = committed[p] - 1
            BY <2>1, <2>3
        <3>2. Covered(p, x)
            BY <2>3, <3>1 DEF ReadInv, CommittedOK
        <3>3. Covered(p, x)'
            BY <3>2, CoveredKept
        <3> QED BY <3>1, <3>3 DEF CommittedOK
    <2> QED BY <2>2, <2>3
<1>2. ASSUME NEW u \in Threads, frame'[u] = frame[u], frame[u].at \in Reading
      PROVE  ReaderOK(u)'
    <2>1. PICK p \in Partitions, x \in Nat : p = frame[u].key /\ x = frame[u].value
        BY <1>2 DEF CoreInv, LocalOK
    <2>2. Covered(p, x)
        BY <1>2, <2>1 DEF ReadInv, ReaderOK
    <2>3. LogGrows /\ Covered(p, x)'
        BY <2>2, CoveredKept
    <2>4. ASSUME NEW j \in frame[u].reads
          PROVE  log'[p][j].offset \in received' /\ \A i \in 1 .. j : Seen(p, i)'
        <3>1. j \in DOMAIN log[p] /\ log[p][j].offset \in received
              /\ \A i \in 1 .. j : Seen(p, i)
            BY <1>2, <2>1 DEF ReadInv, ReaderOK, CoreInv, LocalOK
        <3>2. \A i \in 1 .. j : i \in DOMAIN log[p]
            BY <3>1, Positions
        <3>3. \A i \in 1 .. j : Seen(p, i)'
            BY <2>3, <3>1, <3>2, SeenKept
        <3> QED BY <2>3, <3>1, <3>3 DEF LogGrows
    <2> QED BY <1>2, <2>1, <2>3, <2>4 DEF ReaderOK
<1>3. ASSUME NEW u \in Threads PROVE ReaderOK(u)'
    BY <1>2 DEF ReaderOK
<1> QED BY <1>1, <1>3 DEF ReadInv

(* A consumer reads what lies at and behind the committed offset. *)
LEMMA ReadPoll ==
    ASSUME CoreInv, CoreInv', ReadInv, NEW t \in Threads, NEW p \in Partitions, Poll(t, p)
    PROVE  ReadInv'
<1>1. UNCHANGED <<log, committed>> /\ received \subseteq received'
    BY DEF Poll, busVars, groupVars
<1>2. Turns(t, "handle", p, <<>>, 0, <<>>, Consume(p, committed[p]), Nothing)
    BY Effects DEF CoreInv, TypeOK
<1>3. LogGrows
    BY <1>1 DEF LogGrows
<1>4. ASSUME NEW q \in Partitions, NEW x \in Nat, Covered(q, x) PROVE Covered(q, x)'
    BY <1>1, <1>4, CoveredKept
<1>5. ASSUME NEW q \in Partitions PROVE CommittedOK(q)'
    <2>1. committed[q] \in Nat
        BY DEF CoreInv, TypeOK
    <2>2. CASE committed[q] = 0
        BY <1>1, <2>2 DEF CommittedOK
    <2>3. CASE committed[q] # 0
        <3>1. PICK x \in Nat : x = committed[q] - 1
            BY <2>1, <2>3
        <3>2. Covered(q, x)'
            BY <1>4, <2>3, <3>1 DEF ReadInv, CommittedOK
        <3> QED BY <1>1, <3>1, <3>2 DEF CommittedOK
    <2> QED BY <2>2, <2>3
<1>6. ASSUME NEW u \in Threads, u # t PROVE ReaderOK(u)'
    <2>1. frame'[u] = frame[u]
        BY <1>2, <1>6 DEF Turns
    <2>2. SUFFICES ASSUME frame[u].at \in Reading PROVE ReaderOK(u)'
        BY <2>1 DEF ReaderOK
    <2>3. PICK q \in Partitions, x \in Nat : q = frame[u].key /\ x = frame[u].value
        BY <2>2 DEF CoreInv, LocalOK
    <2>4. Covered(q, x)'
        BY <1>4, <2>2, <2>3 DEF ReadInv, ReaderOK
    <2>5. ASSUME NEW j \in frame[u].reads
          PROVE  log'[q][j].offset \in received' /\ \A i \in 1 .. j : Seen(q, i)'
        <3>1. j \in DOMAIN log[q] /\ log[q][j].offset \in received
              /\ \A i \in 1 .. j : Seen(q, i)
            BY <2>2, <2>3 DEF ReadInv, ReaderOK, CoreInv, LocalOK
        <3>2. \A i \in 1 .. j : i \in DOMAIN log[q]
            BY <3>1, Positions
        <3>3. \A i \in 1 .. j : Seen(q, i)'
            BY <1>1, <1>3, <3>1, <3>2, SeenKept
        <3> QED BY <1>1, <3>1, <3>3
    <2> QED BY <2>1, <2>3, <2>4, <2>5 DEF ReaderOK
<1>7. ReaderOK(t)'
    <2> DEFINE read == Consume(p, committed[p])
    <2>1. read \subseteq DOMAIN log[p] /\ read # {}
          /\ \A i \in read : log[p][i].offset \in received'
        BY DEF Poll, Consume
    <2>2. ASSUME NEW i \in DOMAIN log[p] PROVE Seen(p, i)'
        <3>1. log[p][i].offset \in Nat /\ committed[p] \in Nat
            BY Positions DEF CoreInv, TypeOK
        <3>2. CASE i \in read
            BY <1>1, <2>1, <3>2 DEF Seen
        <3>3. CASE i \notin read
            <4>1. committed[p] # 0 /\ log[p][i].offset <= committed[p] - 1
                BY <3>1, <3>3 DEF Consume
            <4>2. Seen(p, i)
                BY <4>1 DEF ReadInv, CommittedOK, Covered
            <4> QED BY <1>1, <1>3, <4>2, SeenKept
        <3> QED BY <3>2, <3>3
    <2>3. Covered(p, 0)'
        <3>1. PICK j \in DOMAIN log[p] : log[p][j].offset \in received'
            BY <2>1
        <3>2. log[p][j].offset >= 0
            BY Positions
        <3> QED BY <1>1, <2>2, <3>1, <3>2 DEF Covered
    <2>4. ASSUME NEW j \in read
          PROVE  log'[p][j].offset \in received' /\ \A i \in 1 .. j : Seen(p, i)'
        <3>1. j \in DOMAIN log[p]
            BY <2>1
        <3>2. \A i \in 1 .. j : i \in DOMAIN log[p]
            BY <3>1, Positions
        <3> QED BY <1>1, <2>1, <2>2, <3>2
    <2> HIDE DEF read
    <2>5. frame'[t].key = p /\ frame'[t].value = 0 /\ frame'[t].reads = read
        BY <1>2 DEF Turns, read
    <2> QED BY <2>3, <2>4, <2>5 DEF ReaderOK
<1> QED BY <1>5, <1>6, <1>7 DEF ReadInv

(* The last offset handled, or the next, is committed. *)
LEMMA ReadCommit ==
    ASSUME CoreInv, CoreInv', ReadInv, NEW t \in Threads, CommitOffset(t)
    PROVE  ReadInv'
<1>1. UNCHANGED <<log, received>> /\ frame[t].at \in Reading
    BY DEF CommitOffset, busVars, At, Reading
<1>2. PICK p \in Partitions, x \in Nat : p = frame[t].key /\ x = frame[t].value
    BY <1>1 DEF CoreInv, LocalOK
<1>3. Covered(p, x)
    BY <1>1, <1>2 DEF ReadInv, ReaderOK
<1>4. Rests(t)
    BY Effects DEF CoreInv, TypeOK
<1>5. PICK d \in {0, 1} : committed' = [committed EXCEPT ![p] = x + d]
    BY <1>2 DEF CommitOffset
<1>6. committed'[p] = x + d /\ \A q \in Partitions : q # p => committed'[q] = committed[q]
    BY <1>5 DEF CoreInv, TypeOK
<1>7. CommittedOK(p)'
    <2>1. CASE x + d = 0
        BY <1>6, <2>1 DEF CommittedOK
    <2>2. CASE x + d # 0
        <3>1. \A i \in DOMAIN log[p] : log[p][i].offset \in Nat
            BY Positions
        <3>2. ASSUME NEW i \in DOMAIN log[p], log[p][i].offset <= x + d - 1 PROVE Seen(p, i)
            <4>1. log[p][i].offset <= x
                BY <3>1, <3>2
            <4> QED BY <1>3, <4>1 DEF Covered
        <3>3. \E j \in DOMAIN log[p] : log[p][j].offset >= x + d - 1
                                       /\ log[p][j].offset \in received
            <4>1. PICK j \in DOMAIN log[p] : log[p][j].offset >= x
                                             /\ log[p][j].offset \in received
                BY <1>3 DEF Covered
            <4>2. log[p][j].offset >= x + d - 1
                BY <3>1, <4>1
            <4> QED BY <4>1, <4>2
        <3>4. Covered(p, x + d - 1)
            BY <3>2, <3>3 DEF Covered
        <3>5. Covered(p, x + d - 1)'
            BY <1>1, <3>4 DEF Covered, Seen
        <3> QED BY <1>6, <3>5 DEF CommittedOK
    <2> QED BY <2>1, <2>2
<1>8. ASSUME NEW q \in Partitions, q # p PROVE CommittedOK(q)'
    BY <1>1, <1>6, <1>8 DEF ReadInv, CommittedOK, Covered, Seen
<1>9. ASSUME NEW u \in Threads PROVE ReaderOK(u)'
    <2>1. CASE u = t
        BY <1>4, <2>1 DEF Rests, Turns, ReaderOK, Reading
    <2>2. CASE u # t
        <3>1. frame'[u] = frame[u]
            BY <1>4, <2>2 DEF Rests, Turns
        <3> QED BY <1>1, <3>1 DEF ReadInv, ReaderOK, Covered, Seen
    <2> QED BY <2>1, <2>2
<1> QED BY <1>7, <1>8, <1>9 DEF ReadInv

(* A message is done with: the consumer's offset moves up to it. *)
LEMMA ReadHandled ==
    ASSUME CoreInv, ReadInv, NEW t \in Threads, Handled(t), frame[t].at \in Reading,
           frame[t].reads # {}, UNCHANGED <<log, received>>
    PROVE  ReaderOK(t)'
<1>1. PICK p \in Partitions, x \in Nat : p = frame[t].key /\ x = frame[t].value
    BY DEF CoreInv, LocalOK
<1>2. PICK m : m = Min(frame[t].reads)
    OBVIOUS
<1>3. m \in frame[t].reads /\ m \in DOMAIN log[p] /\ Next1(t) = log[p][m]
    BY <1>1, <1>2, NextTyped DEF Next1
<1>4. PICK y : y = IF log[p][m].offset > x THEN log[p][m].offset ELSE x
    OBVIOUS
<1>5. Turns(t, "handle", p, frame[t].id, y, frame[t].queue, frame[t].reads \ {m}, Nothing)
    BY <1>1, <1>2, <1>3, <1>4, Effects DEF CoreInv, TypeOK
<1>6. /\ Covered(p, x)
      /\ \A j \in frame[t].reads : /\ log[p][j].offset \in received
                                   /\ \A i \in 1 .. j : Seen(p, i)
    BY <1>1 DEF ReadInv, ReaderOK
<1>7. /\ DOMAIN log[p] = 1 .. Len(log[p]) /\ Len(log[p]) \in Nat
      /\ \A i \in DOMAIN log[p] : log[p][i].offset \in Nat
    BY Positions
<1>8. Covered(p, y)
    <2>1. CASE y = x
        BY <1>6, <2>1
    <2>2. CASE y = log[p][m].offset
        <3>1. ASSUME NEW i \in DOMAIN log[p], log[p][i].offset <= y PROVE Seen(p, i)
            <4>1. CASE i \in 1 .. m
                BY <1>3, <1>6, <4>1
            <4>2. CASE i \notin 1 .. m
                <5>1. m \in 1 .. i - 1
                    BY <1>3, <1>7, <4>2
                <5>2. log[p][m].offset > log[p][i].offset \/ log[p][m].offset = log[p][i].offset
                    BY <1>3, <1>7, <2>2, <3>1
                <5> QED BY <1>3, <1>6, <5>1, <5>2 DEF Seen
            <4> QED BY <4>1, <4>2
        <3>2. log[p][m].offset >= y /\ log[p][m].offset \in received
            BY <1>3, <1>6, <1>7, <2>2
        <3> QED BY <1>3, <3>1, <3>2 DEF Covered
    <2> QED BY <1>4, <2>1, <2>2
<1>9. Covered(p, y)' /\ \A j \in frame[t].reads : /\ log'[p][j].offset \in received'
                                                  /\ \A i \in 1 .. j : Seen(p, i)'
    BY <1>6, <1>8 DEF Covered, Seen
<1> QED BY <1>5, <1>9 DEF Turns, ReaderOK

(* The handler's steps. *)
LEMMA ReadHandler ==
    ASSUME CoreInv, ReadInv, NEW t \in Threads, HandlerStep(t)
    PROVE  ReadInv'
<1>1. UNCHANGED <<log, received, committed>>
      /\ Goes(t, Reading \cup {"idle"}, Reading \cup {"idle"})
    BY ReaderTouches
       DEF HandlerStep, ProcessCheck, ProcessRun, ProcessMakeRoom, ProcessMark, groupVars
<1>2. \A p \in Partitions : CommittedOK(p)'
    BY <1>1 DEF ReadInv, CommittedOK, Covered, Seen
<1>3. ASSUME NEW u \in Threads, u # t PROVE ReaderOK(u)'
    <2>1. frame'[u] = frame[u]
        BY <1>1, <1>3 DEF Goes
    <2> QED BY <1>1, <2>1 DEF ReadInv, ReaderOK, Covered, Seen
<1>4. frame[t].at \in Reading /\ frame[t].reads # {}
    BY DEF HandlerStep, ProcessCheck, ProcessRun, ProcessMakeRoom, ProcessMark, At, Reading,
           Running, CoreInv, LocalOK
<1>5. ASSUME Handled(t) PROVE ReaderOK(t)'
    BY <1>1, <1>4, <1>5, ReadHandled
<1>6. ASSUME \/ frame'[t].at = "idle"
             \/ /\ frame'[t].key = frame[t].key /\ frame'[t].value = frame[t].value
                /\ frame'[t].reads = frame[t].reads
      PROVE  ReaderOK(t)'
    <2>1. frame'[t].at = "idle" => ReaderOK(t)'
        BY DEF ReaderOK, Reading
    <2> QED BY <1>1, <1>4, <1>6, <2>1 DEF ReadInv, ReaderOK, Covered, Seen
<1>7. \/ Handled(t) \/ frame'[t].at = "idle"
      \/ /\ frame'[t].key = frame[t].key /\ frame'[t].value = frame[t].value
         /\ frame'[t].reads = frame[t].reads
    <2>1. Framed
        BY DEF CoreInv, TypeOK
    <2>2. \/ Handled(t) \/ Rests(t)
          \/ \E at, use : Turns(t, at, frame[t].key, frame[t].id, frame[t].value,
                                frame[t].queue, frame[t].reads, use)
        BY <2>1, Effects DEF HandlerStep
    <2> QED BY <2>2 DEF Rests, Turns
<1> QED BY <1>2, <1>3, <1>5, <1>6, <1>7 DEF ReadInv

(* Every step keeps it. *)
LEMMA ReadKept ==
    ASSUME CoreInv, CoreInv', ReadInv, [Next]_vars
    PROVE  ReadInv'
<1>1. CASE UNCHANGED vars
    BY <1>1, ReadStill DEF vars
<1>2. CASE GroupStep
    BY <1>2, CoreGroup, ReadStill DEF GroupStep
<1>3. ASSUME NEW t \in Threads, ProducerStep(t) PROVE ReadInv'
    BY <1>3, ProducerTouches, ReadStill DEF Goes, Producing, Reading
<1>4. ASSUME NEW t \in Threads, FenceStep(t) PROVE ReadInv'
    BY <1>4, FenceTouches, ReadStill DEF Goes, Reading
<1>5. ASSUME NEW t \in Threads, TxStep(t) PROVE ReadInv'
    BY <1>5, TxTouches, ReadStill DEF Goes, Reading
<1>6. ASSUME NEW t \in Threads, ConsumerStep(t) PROVE ReadInv'
    BY <1>6, ReadPoll, ReadCommit DEF ConsumerStep
<1>7. ASSUME NEW t \in Threads, HandlerStep(t) PROVE ReadInv'
    BY <1>7, ReadHandler
<1> QED BY <1>1, <1>2, <1>3, <1>4, <1>5, <1>6, <1>7, Parts

(* A consumer that starts at the committed offset misses nothing behind    *)
(* it, except what entered its partition behind a larger offset.           *)
THEOREM NothingEverSkipped == Spec => []NothingSkipped
<1>1. Init => CoreInv /\ ReadInv
    <2> SUFFICES ASSUME Init PROVE CoreInv /\ ReadInv
        OBVIOUS
    <2>1. \A p \in Partitions : CommittedOK(p)
        BY DEF Init, CommittedOK
    <2>2. \A t \in Threads : ReaderOK(t)
        BY DEF Init, ReaderOK, Reading, Idle
    <2> QED BY <2>1, <2>2, CoreStart DEF ReadInv
<1>2. CoreInv /\ ReadInv /\ [Next]_vars => CoreInv' /\ ReadInv'
    BY CoreStep, ReadKept
<1>3. CoreInv /\ ReadInv => NothingSkipped
    <2> SUFFICES ASSUME CoreInv, ReadInv, NEW p \in Partitions, NEW i \in DOMAIN log[p],
                        log[p][i].offset < committed[p]
                 PROVE  Seen(p, i)
        BY DEF NothingSkipped, Seen
    <2>1. log[p][i].offset \in Nat /\ committed[p] \in Nat
        BY Positions DEF CoreInv, TypeOK
    <2>2. committed[p] # 0 /\ log[p][i].offset <= committed[p] - 1
        BY <2>1
    <2> QED BY <2>2 DEF ReadInv, CommittedOK, Covered
<1> QED BY <1>1, <1>2, <1>3, PTL DEF Spec

-----------------------------------------------------------------------------
(* The idempotent producer: an id is being produced by one thread, or is   *)
(* in the log once and acknowledged or about to be.                        *)

(* Labels at which a thread has a message to put in the log. *)
Making == {"valid", "offset", "push", "acknowledge"}
InLog(id) == \E p \in Partitions : \E i \in DOMAIN log[p] : log[p][i].id = id

(* Two threads produce the same id only if they were noticed. *)
Alone ==
    \A t, u \in Threads :
        t # u /\ frame[t].at \in Making /\ frame[u].at \in Making
        /\ frame[t].id = frame[u].id /\ frame[t].id[1] # "tx" => frame[t].id \in overlaps

(* So does a thread that produces what is in the log. *)
Fresh ==
    \A t \in Threads :
        frame[t].at \in Making \ {"acknowledge"} /\ frame[t].id[1] # "tx" /\ InLog(frame[t].id)
            => frame[t].id \in overlaps

(* What is in the log has been acknowledged or will be. *)
Confirmed ==
    \A p \in Partitions : \A i \in DOMAIN log[p] :
        log[p][i].id[1] # "tx" =>
            \/ log[p][i].id \in acknowledged
            \/ \E t \in Threads : frame[t].at = "acknowledge" /\ frame[t].id = log[p][i].id

(* No id is in the log at two places, unless its producers overlapped. *)
Single ==
    \A p, q \in Partitions : \A i \in DOMAIN log[p] : \A j \in DOMAIN log[q] :
        log[p][i].id = log[q][j].id /\ log[p][i].id[1] # "tx" =>
            (p = q /\ i = j) \/ log[p][i].id \in overlaps

(* The wiring's sequence numbers have been handed out. *)
Numbered ==
    /\ \A t \in Threads : frame[t].at \in Making /\ frame[t].id[1] = Default =>
          frame[t].id[2] <= lastSeq
    /\ \A p \in Partitions : \A i \in DOMAIN log[p] :
          log[p][i].id[1] = Default => log[p][i].id[2] <= lastSeq

(* What is acknowledged is in the log. *)
Present ==
    /\ \A id \in acknowledged : InLog(id)
    /\ \A t \in Threads : frame[t].at = "acknowledge" => InLog(frame[t].id)

OnceInv == Alone /\ Fresh /\ Confirmed /\ Single /\ Numbered /\ Present

(* Nothing is produced, acknowledged or begun. *)
LEMMA OnceStill ==
    ASSUME CoreInv, OnceInv, UNCHANGED <<log, acknowledged>>, overlaps \subseteq overlaps',
           lastSeq' \in Nat, lastSeq' >= lastSeq,
           \A u \in Threads : frame'[u].at \in Making =>
              \/ frame'[u].at # "acknowledge" /\ frame'[u].id[1] = "tx"
              \/ /\ frame[u].at \in Making /\ frame'[u].id = frame[u].id
                 /\ (frame'[u].at = "acknowledge" <=> frame[u].at = "acknowledge"),
           \A u \in Threads : frame[u].at = "acknowledge" =>
              frame'[u].at = "acknowledge" /\ frame'[u].id = frame[u].id
    PROVE  OnceInv'
<1>1. \A id : InLog(id)' <=> InLog(id)
    BY DEF InLog
<1>2. "tx" # Default /\ "acknowledge" \in Making
    BY DEF Default, Making
<1>3. Alone'
    BY <1>2 DEF OnceInv, Alone
<1>4. Fresh'
    BY <1>1 DEF OnceInv, Fresh
<1>5. Confirmed'
    BY DEF OnceInv, Confirmed
<1>6. Single'
    BY DEF OnceInv, Single
<1>7. Numbered'
    <2>1. ASSUME NEW u \in Threads, frame'[u].at \in Making, frame'[u].id[1] = Default
          PROVE  frame'[u].id[2] <= lastSeq'
        <3>1. frame[u].at \in Making /\ frame'[u].id = frame[u].id
            BY <1>2, <2>1
        <3>2. frame[u].id[2] <= lastSeq /\ frame[u].id[2] \in Nat /\ lastSeq \in Nat
            <4>1. frame[u].id \in Ids
                BY <3>1 DEF CoreInv, LocalOK, Making, Producing, Ids
            <4> QED BY <2>1, <3>1, <4>1 DEF OnceInv, Numbered, Ids, CoreInv, TypeOK
        <3> QED BY <3>1, <3>2
    <2>2. ASSUME NEW p \in Partitions, NEW i \in DOMAIN log[p], log[p][i].id[1] = Default
          PROVE  log[p][i].id[2] <= lastSeq'
        <3>1. log[p][i].id \in Ids /\ lastSeq \in Nat
            BY Positions DEF CoreInv, TypeOK
        <3>2. log[p][i].id[2] \in Nat /\ log[p][i].id[2] <= lastSeq
            BY <2>2, <3>1 DEF OnceInv, Numbered, Ids
        <3> QED BY <3>1, <3>2
    <2> QED BY <2>1, <2>2 DEF Numbered
<1>8. Present'
    BY <1>1, <1>2 DEF OnceInv, Present
<1> QED BY <1>3, <1>4, <1>5, <1>6, <1>7, <1>8 DEF OnceInv

(* produce is called with a sequence number that is not acknowledged: if   *)
(* it is in the log, its producer has still to acknowledge it.             *)
LEMMA OnceCalled ==
    ASSUME CoreInv, CoreInv', OnceInv, NEW t \in Threads, NEW key \in Keys,
           NEW seq \in 1 .. MaxSeq, IdempotentProduce(t, key, seq)
    PROVE  OnceInv'
<1>1. /\ UNCHANGED <<log, acknowledged, lastSeq>> /\ overlaps \subseteq overlaps'
      /\ \A u \in Threads : u # t => frame'[u] = frame[u]
      /\ frame[t].at = "idle" /\ lastSeq \in Nat
    <2>1. ProducerStep(t)
        BY DEF ProducerStep
    <2> QED BY <2>1, ProducerTouches
            DEF Goes, IdempotentProduce, Call, producerVars, busVars, CoreInv, TypeOK
<1>2. CASE UNCHANGED frame
    BY <1>1, <1>2, OnceStill
<1>3. CASE /\ Turns(t, "offset", key, <<Own, seq>>, 0, <<>>, {}, <<Own, seq>>)
           /\ <<Own, seq>> \notin acknowledged /\ Overlap(t, <<Own, seq>>)
    <2>1. PICK x : x = <<Own, seq>>
        OBVIOUS
    <2>2. /\ frame'[t].at = "offset" /\ frame'[t].id = x /\ x[1] # "tx" /\ x[1] # Default
        BY <1>3, <2>1 DEF Turns, Own, Default
    <2>3. ASSUME NEW u \in Threads, u # t, frame[u].at \in Making, frame[u].id = x
          PROVE  x \in overlaps'
        <3>1. frame[u].at \in Producing
            BY <2>2, <2>3 DEF CoreInv, LocalOK, Making, Producing
        <3>2. frame[u].use = x /\ frame[u].at # "idle"
            BY <2>1, <2>3, <3>1 DEF CoreInv, UseOK, Producing
        <3> QED BY <1>3, <2>1, <2>3, <3>2 DEF Overlap, Using
    <2>4. InLog(x) => x \in overlaps'
        <3>1. SUFFICES ASSUME InLog(x) PROVE x \in overlaps'
            OBVIOUS
        <3>2. PICK u \in Threads : frame[u].at = "acknowledge" /\ frame[u].id = x
            BY <1>3, <2>1, <2>2, <3>1 DEF InLog, OnceInv, Confirmed
        <3> QED BY <1>1, <2>3, <3>2 DEF Making
    <2>5. \A id : InLog(id)' <=> InLog(id)
        BY <1>1 DEF InLog
    <2>6. Alone'
        BY <1>1, <2>2, <2>3 DEF OnceInv, Alone
    <2>7. Fresh'
        BY <1>1, <2>2, <2>4, <2>5 DEF OnceInv, Fresh
    <2>8. Confirmed'
        BY <1>1 DEF OnceInv, Confirmed
    <2>9. Single'
        BY <1>1 DEF OnceInv, Single
    <2>10. Numbered'
        BY <1>1, <2>2 DEF OnceInv, Numbered
    <2>11. Present'
        BY <1>1, <2>2, <2>5 DEF OnceInv, Present
    <2> QED BY <2>6, <2>7, <2>8, <2>9, <2>10, <2>11 DEF OnceInv
<1> QED BY <1>2, <1>3, Shapes DEF IdempotentProduce, CoreInv, TypeOK

(* The wiring takes the next sequence number: nobody has it. *)
LEMMA OnceNumbered ==
    ASSUME CoreInv, CoreInv', OnceInv, NEW t \in Threads, NextSequence(t)
    PROVE  OnceInv'
<1>1. /\ UNCHANGED <<log, acknowledged, overlaps>> /\ lastSeq' = lastSeq + 1 /\ lastSeq \in Nat
      /\ frame[t].at = "sequence"
    BY DEF NextSequence, At, busVars, CoreInv, TypeOK
<1>2. PICK x : x = <<Default, lastSeq + 1>>
    OBVIOUS
<1>3. /\ \A u \in Threads : u # t => frame'[u] = frame[u]
      /\ frame'[t].at = "valid" /\ frame'[t].id = x /\ x[1] = Default /\ x[2] = lastSeq + 1
    BY <1>2, Effects DEF CoreInv, TypeOK, Turns
<1>4. ASSUME NEW u \in Threads, frame[u].at \in Making PROVE frame[u].id # x
    <2>1. frame[u].id \in Ids
        BY <1>4 DEF CoreInv, LocalOK, Making, Producing, Ids
    <2>2. frame[u].id[1] = Default => frame[u].id[2] <= lastSeq /\ frame[u].id[2] \in Nat
        BY <1>4, <2>1 DEF OnceInv, Numbered, Ids
    <2> QED BY <1>1, <1>3, <2>2
<1>5. ~InLog(x)
    <2>1. ASSUME NEW p \in Partitions, NEW i \in DOMAIN log[p] PROVE log[p][i].id # x
        <3>1. log[p][i].id \in Ids
            BY Positions
        <3>2. log[p][i].id[1] = Default =>
                  log[p][i].id[2] <= lastSeq /\ log[p][i].id[2] \in Nat
            BY <3>1 DEF OnceInv, Numbered, Ids
        <3> QED BY <1>1, <1>3, <3>2
    <2> QED BY <2>1 DEF InLog
<1>6. \A id : InLog(id)' <=> InLog(id)
    BY <1>1 DEF InLog
<1>7. Alone'
    BY <1>1, <1>3, <1>4 DEF OnceInv, Alone
<1>8. Fresh'
    BY <1>1, <1>3, <1>5, <1>6 DEF OnceInv, Fresh
<1>9. Confirmed'
    BY <1>1, <1>3 DEF OnceInv, Confirmed
<1>10. Single'
    BY <1>1 DEF OnceInv, Single
<1>11. Numbered'
    <2>1. ASSUME NEW u \in Threads, u # t, frame[u].at \in Making, frame[u].id[1] = Default
          PROVE  frame[u].id[2] <= lastSeq'
        <3>1. frame[u].id \in Ids
            BY <2>1 DEF CoreInv, LocalOK, Making, Producing, Ids
        <3>2. frame[u].id[2] <= lastSeq /\ frame[u].id[2] \in Nat
            BY <2>1, <3>1 DEF OnceInv, Numbered, Ids
        <3> QED BY <1>1, <3>2
    <2>2. ASSUME NEW p \in Partitions, NEW i \in DOMAIN log[p], log[p][i].id[1] = Default
          PROVE  log[p][i].id[2] <= lastSeq'
        <3>1. log[p][i].id \in Ids
            BY Positions
        <3>2. log[p][i].id[2] \in Nat /\ log[p][i].id[2] <= lastSeq
            BY <2>2, <3>1 DEF OnceInv, Numbered, Ids
        <3> QED BY <1>1, <3>2
    <2>3. x[2] <= lastSeq'
        BY <1>1, <1>3
    <2> QED BY <1>1, <1>3, <2>1, <2>2, <2>3 DEF Numbered
<1>12. Present'
    BY <1>1, <1>3, <1>6 DEF OnceInv, Present
<1> QED BY <1>7, <1>8, <1>9, <1>10, <1>11, <1>12 DEF OnceInv

(* A message enters its partition. *)
LEMMA OncePushed ==
    ASSUME CoreInv, CoreInv', OnceInv, NEW t \in Threads, Push(t)
    PROVE  OnceInv'
<1>1. /\ UNCHANGED <<acknowledged, lastSeq, overlaps>> /\ frame[t].at = "push"
      /\ frame[t].id \in Ids
    BY DEF Push, At, producerVars, CoreInv, LocalOK, Producing
<1>2. PICK x : x = frame[t].id
    OBVIOUS
<1>3. PICK P : P = PartitionFor(frame[t].key)
    OBVIOUS
<1>4. PICK n : n = Len(log[P]) + 1
    OBVIOUS
<1>5. /\ P \in Partitions /\ n \in DOMAIN log'[P] /\ log'[P][n].id = x /\ LogGrows
      /\ \A p \in Partitions : \A i \in DOMAIN log'[p] :
            \/ p = P /\ i = n
            \/ i \in DOMAIN log[p] /\ log'[p][i] = log[p][i]
    <2>1. /\ P \in Partitions /\ LogGrows /\ DOMAIN log[P] = 1 .. n - 1
          /\ DOMAIN log'[P] = 1 .. n /\ log'[P][n] = [offset |-> frame[t].value, id |-> x]
          /\ \A q \in Partitions : q # P => log'[q] = log[q]
        BY <1>2, <1>3, <1>4, Pushed
    <2>2. n \in Nat \ {0}
        <3>1. Len(log[P]) \in Nat
            BY <2>1, Positions
        <3> QED BY <1>4, <3>1
    <2>3. \A i \in 1 .. n : i = n \/ i \in 1 .. n - 1
        BY <2>2
    <2> QED BY <2>1, <2>2, <2>3 DEF LogGrows
<1>6. /\ \A u \in Threads : u # t => frame'[u] = frame[u]
      /\ frame'[t].at = IF x[1] = "tx" THEN "publish" ELSE "acknowledge"
      /\ frame'[t].id = x
    <2>1. Framed
        BY DEF CoreInv, TypeOK
    <2>2. Turns(t, IF x[1] = "tx" THEN "publish" ELSE "acknowledge", frame[t].key, x,
                frame[t].value, frame[t].queue, frame[t].reads, frame[t].use)
        BY <1>2, <2>1, Effects
    <2> QED BY <2>2 DEF Turns
<1>7. \A id : InLog(id)' <=> (InLog(id) \/ id = x)
    BY <1>5 DEF InLog, LogGrows
<1>8. x[1] # "tx" /\ InLog(x) => x \in overlaps
    BY <1>1, <1>2 DEF OnceInv, Fresh, Making
<1>9. ASSUME NEW u \in Threads, u # t, frame[u].at \in Making, frame[u].id = x, x[1] # "tx"
      PROVE  x \in overlaps
    BY <1>1, <1>2, <1>9 DEF OnceInv, Alone, Making
<1>10. Alone'
    BY <1>1, <1>6, <1>9 DEF OnceInv, Alone
<1>11. Fresh'
    <2>1. frame'[t].at \notin Making \ {"acknowledge"}
        BY <1>6 DEF Making
    <2> QED BY <1>1, <1>6, <1>7, <1>9, <2>1 DEF OnceInv, Fresh
<1>12. Confirmed'
    <2>1. ASSUME NEW p \in Partitions, NEW i \in DOMAIN log[p], log[p][i].id[1] # "tx"
          PROVE  \/ log[p][i].id \in acknowledged
                 \/ \E u \in Threads : frame'[u].at = "acknowledge" /\ frame'[u].id = log[p][i].id
        <3>1. CASE log[p][i].id \in acknowledged
            BY <3>1
        <3>2. ASSUME NEW u \in Threads, frame[u].at = "acknowledge", frame[u].id = log[p][i].id
              PROVE  frame'[u].at = "acknowledge" /\ frame'[u].id = log[p][i].id
            BY <1>1, <1>6, <3>2
        <3> QED BY <2>1, <3>1, <3>2 DEF OnceInv, Confirmed
    <2> QED BY <1>1, <1>5, <1>6, <2>1 DEF Confirmed
<1>13. Single'
    <2> SUFFICES ASSUME NEW p \in Partitions, NEW q \in Partitions, NEW i \in DOMAIN log'[p],
                        NEW j \in DOMAIN log'[q], log'[p][i].id = log'[q][j].id,
                        log'[p][i].id[1] # "tx"
                 PROVE  (p = q /\ i = j) \/ log'[p][i].id \in overlaps
        BY <1>1 DEF Single
    <2>1. CASE (p = P /\ i = n) /\ (q = P /\ j = n)
        BY <2>1
    <2>2. CASE (p = P /\ i = n) /\ j \in DOMAIN log[q] /\ log'[q][j] = log[q][j]
        BY <1>5, <1>8, <2>2 DEF InLog
    <2>3. CASE (q = P /\ j = n) /\ i \in DOMAIN log[p] /\ log'[p][i] = log[p][i]
        BY <1>5, <1>8, <2>3 DEF InLog
    <2>4. CASE /\ i \in DOMAIN log[p] /\ log'[p][i] = log[p][i]
               /\ j \in DOMAIN log[q] /\ log'[q][j] = log[q][j]
        BY <2>4 DEF OnceInv, Single
    <2> QED BY <1>5, <2>1, <2>2, <2>3, <2>4
<1>14. Numbered'
    <2>1. x[1] = Default => x[2] <= lastSeq
        BY <1>1, <1>2 DEF OnceInv, Numbered, Making
    <2> QED BY <1>1, <1>5, <1>6, <2>1 DEF OnceInv, Numbered
<1>15. Present'
    BY <1>1, <1>6, <1>7 DEF OnceInv, Present
<1> QED BY <1>10, <1>11, <1>12, <1>13, <1>14, <1>15 DEF OnceInv

(* A sequence number is acknowledged. *)
LEMMA OnceAcknowledged ==
    ASSUME CoreInv, OnceInv, NEW t \in Threads, Acknowledge(t)
    PROVE  OnceInv'
<1>1. /\ UNCHANGED <<log, lastSeq, overlaps>> /\ frame[t].at = "acknowledge"
      /\ acknowledged' = acknowledged \cup {frame[t].id}
    BY DEF Acknowledge, At, busVars
<1>2. (\A u \in Threads : u # t => frame'[u] = frame[u]) /\ frame'[t].at = "idle"
    BY Effects DEF CoreInv, TypeOK, Turns, Rests
<1>3. \A id : InLog(id)' <=> InLog(id)
    BY <1>1 DEF InLog
<1>4. frame'[t].at \notin Making
    BY <1>2 DEF Making
<1>5. Alone'
    BY <1>1, <1>2, <1>4 DEF OnceInv, Alone
<1>6. Fresh'
    BY <1>1, <1>2, <1>3, <1>4 DEF OnceInv, Fresh
<1>7. Confirmed'
    <2> SUFFICES ASSUME NEW p \in Partitions, NEW i \in DOMAIN log[p], log[p][i].id[1] # "tx"
                 PROVE  \/ log[p][i].id \in acknowledged'
                        \/ \E u \in Threads : frame'[u].at = "acknowledge"
                                              /\ frame'[u].id = log[p][i].id
        BY <1>1 DEF Confirmed
    <2>1. CASE log[p][i].id \in acknowledged
        BY <1>1, <2>1
    <2>2. ASSUME NEW u \in Threads, frame[u].at = "acknowledge", frame[u].id = log[p][i].id
          PROVE  \/ log[p][i].id \in acknowledged'
                 \/ frame'[u].at = "acknowledge" /\ frame'[u].id = log[p][i].id
        BY <1>1, <1>2, <2>2
    <2> QED BY <2>1, <2>2 DEF OnceInv, Confirmed
<1>8. Single'
    BY <1>1 DEF OnceInv, Single
<1>9. Numbered'
    BY <1>1, <1>2, <1>4 DEF OnceInv, Numbered
<1>10. Present'
    BY <1>1, <1>2, <1>3 DEF OnceInv, Present
<1> QED BY <1>5, <1>6, <1>7, <1>8, <1>9, <1>10 DEF OnceInv

(* Every step keeps it. *)
LEMMA OnceKept ==
    ASSUME CoreInv, CoreInv', OnceInv, [Next]_vars
    PROVE  OnceInv'
<1>1. lastSeq \in Nat
    BY DEF CoreInv, TypeOK
<1>2. CASE UNCHANGED vars
    BY <1>1, <1>2, OnceStill DEF vars
<1>3. CASE GroupStep
    BY <1>1, <1>3, CoreGroup, OnceStill DEF GroupStep
<1>4. ASSUME NEW t \in Threads, TakeOffset(t) PROVE OnceInv'
    <2>1. UNCHANGED <<log, acknowledged, lastSeq, overlaps>> /\ frame[t].at = "offset"
        BY <1>4 DEF TakeOffset, At, producerVars
    <2>2. /\ \A u \in Threads : u # t => frame'[u] = frame[u]
          /\ frame'[t].at = "push" /\ frame'[t].id = frame[t].id
        BY <1>4, Effects DEF CoreInv, TypeOK, Turns
    <2> QED BY <1>1, <2>1, <2>2, OnceStill DEF Making
<1>5. ASSUME NEW t \in Threads, ProducerStep(t) PROVE OnceInv'
    BY <1>4, <1>5, OnceCalled, OncePushed, OnceAcknowledged DEF ProducerStep
<1>6. ASSUME NEW t \in Threads, TxStep(t) PROVE OnceInv'
    BY <1>1, <1>6, TxTouches, OnceStill DEF Goes, Making
<1>7. ASSUME NEW t \in Threads, ConsumerStep(t) \/ HandlerStep(t) PROVE OnceInv'
    BY <1>1, <1>7, ReaderTouches, OnceStill DEF Goes, Making, Reading
<1>8. ASSUME NEW t \in Threads, IsValid(t) PROVE OnceInv'
    <2>1. UNCHANGED <<log, acknowledged, lastSeq, overlaps>> /\ frame[t].at = "valid"
        BY <1>8 DEF IsValid, At, producerVars, busVars
    <2>2. \A u \in Threads : u # t => frame'[u] = frame[u]
        BY <1>8, FenceTouches DEF FenceStep, Goes
    <2>3. frame'[t].at = "idle" \/ (frame'[t].at = "offset" /\ frame'[t].id = frame[t].id)
        <3>1. Framed
            BY DEF CoreInv, TypeOK
        <3>2. \/ Rests(t)
              \/ Turns(t, "offset", frame[t].key, frame[t].id, frame[t].value, frame[t].queue,
                       frame[t].reads, frame[t].use)
            BY <1>8, <3>1, Effects
        <3> QED BY <3>2 DEF Turns, Rests
    <2> QED BY <1>1, <2>1, <2>2, <2>3, OnceStill DEF Making
<1>9. ASSUME NEW t \in Threads, FenceStep(t), ~NextSequence(t), ~IsValid(t) PROVE OnceInv'
    <2>1. /\ UNCHANGED <<log, acknowledged, lastSeq>> /\ overlaps \subseteq overlaps'
          /\ \A u \in Threads : u # t => frame'[u] = frame[u]
        BY <1>9, FenceTouches
           DEF FenceStep, Goes, Fence, ProduceIdempotent, TakeEpoch, Register, producerVars
    <2>2. frame[t].at \in {"idle", "register"} /\ frame'[t].at \in {"idle", "register", "sequence"}
        <3>1. frame[t].at \in {"idle", "register"}
            BY <1>9 DEF FenceStep, Fence, ProduceIdempotent, Register, Call, At
        <3>2. Framed
            BY DEF CoreInv, TypeOK
        <3>3. \/ Register(t)
              \/ \E producer, k, q : TakeEpoch(t, producer, k, q)
            BY <1>9 DEF FenceStep, Fence, ProduceIdempotent
        <3> QED BY <3>1, <3>2, <3>3, Effects DEF Turns, Rests
    <2> QED BY <1>1, <2>1, <2>2, OnceStill DEF Making
<1>10. ASSUME NEW t \in Threads, FenceStep(t) PROVE OnceInv'
    BY <1>8, <1>9, <1>10, OnceNumbered
<1> QED BY <1>2, <1>3, <1>5, <1>6, <1>7, <1>10, Parts

(* "guarantees exactly-once delivery": a sequence number is on the bus at  *)
(* most once, unless two calls of produce for it overlapped, and once it   *)
(* is acknowledged it is there.                                            *)
THEOREM AlwaysExactlyOnce == Spec => []ExactlyOnce
<1>1. Init => CoreInv /\ OnceInv
    <2> SUFFICES ASSUME Init PROVE CoreInv /\ OnceInv
        OBVIOUS
    <2>1. /\ \A t \in Threads : frame[t].at = "idle"
          /\ \A p \in Partitions : DOMAIN log[p] = {}
          /\ acknowledged = {}
        BY DEF Init, Idle
    <2>2. OnceInv
        BY <2>1 DEF OnceInv, Alone, Fresh, Confirmed, Single, Numbered, Present, Making
    <2> QED BY <2>2, CoreStart
<1>2. CoreInv /\ OnceInv /\ [Next]_vars => CoreInv' /\ OnceInv'
    BY CoreStep, OnceKept
<1>3. OnceInv => ExactlyOnce
    <2> SUFFICES ASSUME OnceInv PROVE ExactlyOnce
        OBVIOUS
    <2>1. ASSUME NEW m \in Messages, m.id[1] # "tx", m.id \notin overlaps
          PROVE  Cardinality(Copies(m.id)) = 1
        <3>1. ASSUME NEW k \in Messages, k.id = m.id PROVE k = m
            BY <2>1, <3>1 DEF Messages, OnceInv, Single
        <3>2. Copies(m.id) = {m}
            BY <3>1 DEF Copies
        <3> QED BY <3>2, FS_Singleton
    <2>2. ASSUME NEW id \in acknowledged PROVE Copies(id) # {}
        <3>1. PICK p \in Partitions : \E i \in DOMAIN log[p] : log[p][i].id = id
            BY DEF OnceInv, Present, InLog
        <3>2. PICK i \in DOMAIN log[p] : log[p][i].id = id
            BY <3>1
        <3>3. log[p][i] \in Messages
            BY DEF Messages
        <3> QED BY <3>2, <3>3 DEF Copies
    <2> QED BY <2>1, <2>2 DEF ExactlyOnce
<1> QED BY <1>1, <1>2, <1>3, PTL DEF Spec

-----------------------------------------------------------------------------
(* The transactional producer: the log holds what was sent, but for what   *)
(* the one thread that publishes still has in hand.                        *)

(* Thread t is in the loop of commit. *)
Publishing(t) ==
    \/ frame[t].at = "publish"
    \/ frame[t].at \in {"offset", "push"} /\ frame[t].id[1] = "tx"

(* The ids of a batch; a batch in the order of its sends; the message a    *)
(* publishing thread is producing.                                         *)
BatchIds(batch) == {batch[i][2] : i \in DOMAIN batch}
Up(batch) == \A i, j \in DOMAIN batch : i < j => batch[i][2][2] < batch[j][2][2]
InFlight(t) == IF frame[t].at = "publish" THEN {} ELSE {frame[t].id}

(* Messages are numbered by the calls. *)
SentUp == \A y \in sent.committed : y[2] < calls

(* What was not yet copied is newer than what is on the bus. *)
PendingUp ==
    /\ Up(pending)
    /\ \A x \in BatchIds(pending) : x[2] < calls /\ \A y \in TxLogged : y[2] < x[2]

(* So they are in every partition. *)
LogUp ==
    \A p \in Partitions : \A i, j \in DOMAIN log[p] :
        i < j /\ log[p][i].id[1] = "tx" /\ log[p][j].id[1] = "tx" =>
            log[p][i].id[2] < log[p][j].id[2]

(* A send is newer than what waits and what is on the bus. *)
SendingOK(t) ==
    frame[t].at = "send" =>
        /\ frame[t].id[2] < calls
        /\ \A x \in BatchIds(pending) \cup TxLogged : x[2] < frame[t].id[2]
        /\ sent.open = BatchIds(pending) \cup {frame[t].id}

(* What waits is what a commit is about to copy; nothing is open then, and *)
(* neither before the batch is cleared.                                    *)
CopyingOK(t) ==
    /\ frame[t].at = "copy" => sent.committed = TxLogged \cup BatchIds(pending)
    /\ frame[t].at \in {"copy", "clear"} => sent.open = {}

(* What a commit still has in hand completes the log, and is newer. *)
PublishingOK(t) ==
    Publishing(t) =>
        /\ sent.open = {}
        /\ TxLogged \cup InFlight(t) \cup BatchIds(frame[t].queue) = sent.committed
        /\ Up(frame[t].queue)
        /\ \A y \in TxLogged : \A x \in InFlight(t) \cup BatchIds(frame[t].queue) : y[2] < x[2]
        /\ \A y \in InFlight(t) : \A x \in BatchIds(frame[t].queue) : y[2] < x[2]

(* All of this holds until two threads work for the producer at once. *)
TxInv ==
    <<"tx", 0>> \notin overlaps =>
        /\ SentUp /\ LogUp
        /\ \A t \in Threads : SendingOK(t) /\ CopyingOK(t) /\ PublishingOK(t)
        /\ (\A t \in Threads : ~Publishing(t) /\ frame[t].at # "copy") =>
              TxLogged = sent.committed
        /\ (\A t \in Threads : ~Publishing(t) /\ frame[t].at # "clear") => PendingUp
        /\ (\A t \in Threads : ~InTx(t)) => sent.open = BatchIds(pending)

(* The same for one thread. *)
TxOf(t) ==
    /\ SentUp /\ LogUp /\ SendingOK(t) /\ CopyingOK(t) /\ PublishingOK(t)
    /\ ~Publishing(t) /\ frame[t].at # "copy" => TxLogged = sent.committed
    /\ ~Publishing(t) /\ frame[t].at # "clear" => PendingUp
    /\ ~InTx(t) => sent.open = BatchIds(pending)

(* While nobody overlaps, a step of the transactional producer is one of   *)
(* its only user.                                                          *)
LEMMA TxLift ==
    ASSUME CoreInv, CoreInv', TxInv, NEW t \in Threads, overlaps \subseteq overlaps',
           \A u \in Threads : u # t => frame'[u] = frame[u],
           InTx(t) \/ InTx(t)', TxOf(t) => TxOf(t)'
    PROVE  TxInv'
<1> SUFFICES ASSUME <<"tx", 0>> \notin overlaps'
             PROVE  TxInv'
    BY DEF TxInv
<1>1. <<"tx", 0>> \notin overlaps
    OBVIOUS
<1>2. <<"tx", 0>> # Nothing
    BY DEF Nothing
<1>3. ASSUME NEW u \in Threads, u # t PROVE ~InTx(u) /\ ~InTx(u)'
    <2>1. InTx(u)' <=> InTx(u)
        BY <1>3 DEF InTx
    <2>2. CASE InTx(t) /\ InTx(u)
        <3>1. /\ frame[t].use = <<"tx", 0>> /\ frame[u].use = <<"tx", 0>>
              /\ frame[t].at # "idle" /\ frame[u].at # "idle"
            BY <2>2 DEF CoreInv, UseOK, InTx
        <3> QED BY <1>1, <1>2, <1>3, <3>1 DEF CoreInv, Exclusive
    <2>3. CASE InTx(t)' /\ InTx(u)'
        <3>1. /\ frame'[t].use = <<"tx", 0>> /\ frame'[u].use = <<"tx", 0>>
              /\ frame'[t].at # "idle" /\ frame'[u].at # "idle"
            BY <2>3 DEF CoreInv, UseOK, InTx
        <3> QED BY <1>2, <1>3, <3>1 DEF CoreInv, Exclusive
    <2> QED BY <2>1, <2>2, <2>3
<1>4. \A u \in Threads : u # t =>
          /\ ~Publishing(u) /\ frame[u].at # "clear" /\ frame[u].at # "copy"
          /\ ~Publishing(u)' /\ frame'[u].at \notin {"clear", "copy", "send"}
    BY <1>3 DEF InTx, Publishing
<1>5. TxOf(t)
    BY <1>1, <1>3, <1>4 DEF TxInv, TxOf
<1>6. TxOf(t)'
    BY <1>5
<1>7. \A u \in Threads : SendingOK(u)' /\ CopyingOK(u)' /\ PublishingOK(u)'
    BY <1>4, <1>6 DEF TxOf, SendingOK, CopyingOK, PublishingOK
<1> QED BY <1>3, <1>4, <1>6, <1>7 DEF TxInv, TxOf

(* The ids of a transaction are numbered. *)
LEMMA TxTyped ==
    ASSUME CoreInv
    PROVE  /\ calls \in Nat
           /\ \A y \in sent.committed : y \in TxIds /\ y[2] \in Nat /\ y[1] = "tx"
           /\ \A x \in BatchIds(pending) : x \in TxIds /\ x[2] \in Nat /\ x[1] = "tx"
<1>1. calls \in Nat /\ sent.committed \subseteq TxIds /\ pending \in Batches
    BY DEF CoreInv, TypeOK
<1>2. \A y \in sent.committed : y \in TxIds
    BY <1>1
<1>3. \A i \in DOMAIN pending : pending[i] \in Keys \X TxIds
    BY <1>1 DEF Batches
<1>4. \A x \in BatchIds(pending) : x \in TxIds
    BY <1>3 DEF BatchIds
<1>5. \A x \in TxIds : x[2] \in Nat /\ x[1] = "tx"
    BY DEF TxIds
<1> QED BY <1>1, <1>2, <1>4, <1>5

(* Nothing happens to the transactional producer. *)
LEMMA TxStill ==
    ASSUME CoreInv, CoreInv', TxInv, UNCHANGED <<sent, pending>>, calls' >= calls,
           TxLogged' = TxLogged, LogUp => LogUp', overlaps \subseteq overlaps',
           \A u \in Threads : frame'[u] = frame[u] \/ (~InTx(u) /\ ~InTx(u)')
    PROVE  TxInv'
<1> SUFFICES ASSUME <<"tx", 0>> \notin overlaps'
             PROVE  TxInv'
    BY DEF TxInv
<1>1. /\ SentUp /\ LogUp
      /\ \A u \in Threads : SendingOK(u) /\ CopyingOK(u) /\ PublishingOK(u)
      /\ (\A u \in Threads : ~Publishing(u) /\ frame[u].at # "copy") =>
            TxLogged = sent.committed
      /\ (\A u \in Threads : ~Publishing(u) /\ frame[u].at # "clear") => PendingUp
      /\ (\A u \in Threads : ~InTx(u)) => sent.open = BatchIds(pending)
    BY DEF TxInv
<1>2. calls \in Nat /\ calls' \in Nat
    BY DEF CoreInv, TypeOK
<1>3. \A u \in Threads : /\ (Publishing(u)' <=> Publishing(u)) /\ (InTx(u)' <=> InTx(u))
                         /\ (frame'[u].at = "copy" <=> frame[u].at = "copy")
                         /\ (frame'[u].at = "clear" <=> frame[u].at = "clear")
                         /\ (frame'[u].at = "send" <=> frame[u].at = "send")
    BY DEF InTx, Publishing
<1>4. BatchIds(pending)' = BatchIds(pending)
      /\ (Up(pending)' <=> Up(pending))
    BY DEF BatchIds, Up
<1>5. SentUp'
    BY <1>1, <1>2, <1>4, TxTyped DEF SentUp
<1>6. PendingUp => PendingUp'
    BY <1>2, <1>4, TxTyped DEF PendingUp
<1>7. \A u \in Threads : CopyingOK(u)'
    BY <1>1, <1>3, <1>4 DEF CopyingOK
<1>8. ASSUME NEW u \in Threads PROVE SendingOK(u)' /\ PublishingOK(u)'
    <2>1. CASE frame'[u] = frame[u]
        <3>1. SendingOK(u)'
            <4>1. frame[u].at = "send" => frame[u].id[2] \in Nat
                BY DEF CoreInv, LocalOK, TxIds
            <4> QED BY <1>1, <1>2, <1>4, <2>1, <4>1 DEF SendingOK
        <3>2. PublishingOK(u)'
            <4>1. InFlight(u)' = InFlight(u) /\ BatchIds(frame[u].queue)' = BatchIds(frame[u].queue)
                  /\ (Up(frame[u].queue)' <=> Up(frame[u].queue))
                BY <2>1 DEF InFlight, BatchIds, Up
            <4> QED BY <1>1, <1>3, <1>4, <4>1 DEF PublishingOK
        <3> QED BY <3>1, <3>2
    <2>2. CASE ~InTx(u)'
        BY <2>2 DEF InTx, SendingOK, PublishingOK, Publishing
    <2> QED BY <2>1, <2>2
<1> QED BY <1>1, <1>3, <1>4, <1>5, <1>6, <1>8, <1>7 DEF TxInv

(* A batch with one more at its end. *)
LEMMA BatchAppended ==
    ASSUME NEW b \in Batches, NEW e \in Keys \X TxIds
    PROVE  /\ BatchIds(Append(b, e)) = BatchIds(b) \cup {e[2]}
           /\ Up(b) /\ (\A x \in BatchIds(b) : x[2] < e[2][2]) => Up(Append(b, e))
<1>1. PICK c : c = Append(b, e)
    OBVIOUS
<1>2. PICK n \in Nat : n = Len(b)
    BY DEF Batches
<1>3. /\ DOMAIN b = 1 .. n /\ DOMAIN c = 1 .. n + 1 /\ c[n + 1] = e
      /\ \A i \in 1 .. n : c[i] = b[i]
    BY <1>1, <1>2 DEF Batches
<1>4. \A i \in 1 .. n + 1 : i \in 1 .. n \/ i = n + 1
    OBVIOUS
<1>5. \A i \in 1 .. n : i \in 1 .. n + 1
    OBVIOUS
<1>6. BatchIds(c) = BatchIds(b) \cup {e[2]}
    <2>1. \A i \in DOMAIN c : c[i][2] \in BatchIds(b) \cup {e[2]}
        BY <1>3, <1>4 DEF BatchIds
    <2>2. \A i \in DOMAIN b : b[i][2] \in BatchIds(c)
        <3>1. \A i \in DOMAIN b : i \in DOMAIN c /\ c[i] = b[i]
            BY <1>3, <1>5
        <3> QED BY <3>1 DEF BatchIds
    <2>3. e[2] \in BatchIds(c)
        <3>1. n + 1 \in DOMAIN c
            BY <1>3
        <3> QED BY <1>3, <3>1 DEF BatchIds
    <2> QED BY <2>1, <2>2, <2>3 DEF BatchIds
<1>7. ASSUME Up(b), \A x \in BatchIds(b) : x[2] < e[2][2], NEW i \in DOMAIN c, NEW j \in DOMAIN c,
             i < j
      PROVE  c[i][2][2] < c[j][2][2]
    <2>1. i \in 1 .. n
        BY <1>3, <1>7
    <2>2. CASE j \in 1 .. n
        BY <1>3, <1>7, <2>1, <2>2 DEF Up
    <2>3. CASE j = n + 1
        BY <1>3, <1>7, <2>1, <2>3 DEF BatchIds
    <2> QED BY <1>3, <1>4, <2>2, <2>3
<1> QED BY <1>1, <1>6, <1>7 DEF Up

(* A batch without its first. *)
LEMMA BatchShortened ==
    ASSUME NEW b \in Batches, b # <<>>, Up(b)
    PROVE  /\ BatchIds(b) = BatchIds(Tail(b)) \cup {Head(b)[2]}
           /\ Up(Tail(b)) /\ \A x \in BatchIds(Tail(b)) : Head(b)[2][2] < x[2]
<1>1. PICK c : c = Tail(b)
    OBVIOUS
<1>2. PICK n \in Nat : n + 1 = Len(b)
    <2>1. Len(b) \in Nat /\ Len(b) # 0
        BY DEF Batches
    <2>2. Len(b) - 1 \in Nat /\ (Len(b) - 1) + 1 = Len(b)
        BY <2>1
    <2> QED BY <2>2
<1>3. /\ DOMAIN b = 1 .. n + 1 /\ DOMAIN c = 1 .. n /\ Head(b) = b[1]
      /\ \A i \in 1 .. n : c[i] = b[i + 1]
    <2>1. b \in Seq(Keys \X TxIds) /\ Len(b) = n + 1
        BY <1>2 DEF Batches
    <2>2. Len(c) = n /\ c \in Seq(Keys \X TxIds) /\ \A i \in 1 .. Len(c) : c[i] = b[i + 1]
        BY <1>1, <2>1
    <2> QED BY <2>1, <2>2
<1>4. \A i \in 1 .. n : i + 1 \in 1 .. n + 1 /\ 1 < i + 1
    OBVIOUS
<1>5. \A i \in 1 .. n + 1 : i = 1 \/ \E j \in 1 .. n : i = j + 1
    <2>1. ASSUME NEW i \in 1 .. n + 1, i # 1 PROVE i - 1 \in 1 .. n /\ i = (i - 1) + 1
        BY <2>1
    <2> QED BY <2>1
<1>6. 1 \in DOMAIN b
    BY <1>3
<1>7. BatchIds(b) = BatchIds(c) \cup {Head(b)[2]}
    <2>1. ASSUME NEW i \in DOMAIN b PROVE b[i][2] \in BatchIds(c) \cup {Head(b)[2]}
        <3>1. CASE i = 1
            BY <1>3, <3>1
        <3>2. ASSUME NEW j \in 1 .. n, i = j + 1 PROVE b[i][2] \in BatchIds(c)
            BY <1>3, <3>2 DEF BatchIds
        <3> QED BY <1>3, <1>5, <3>1, <3>2
    <2>2. ASSUME NEW j \in DOMAIN c PROVE c[j][2] \in BatchIds(b)
        <3>1. j + 1 \in DOMAIN b /\ c[j] = b[j + 1]
            BY <1>3, <1>4
        <3> QED BY <3>1 DEF BatchIds
    <2>3. Head(b)[2] \in BatchIds(b)
        BY <1>3, <1>6 DEF BatchIds
    <2> QED BY <2>1, <2>2, <2>3 DEF BatchIds
<1>8. ASSUME NEW i \in DOMAIN c, NEW j \in DOMAIN c, i < j PROVE c[i][2][2] < c[j][2][2]
    <2>1. i + 1 \in DOMAIN b /\ j + 1 \in DOMAIN b /\ i + 1 < j + 1
        BY <1>3, <1>8
    <2> QED BY <1>3, <2>1 DEF Up
<1>9. ASSUME NEW x \in BatchIds(c) PROVE Head(b)[2][2] < x[2]
    <2>1. PICK i \in DOMAIN c : x = c[i][2]
        BY DEF BatchIds
    <2>2. i + 1 \in DOMAIN b /\ 1 < i + 1
        BY <1>3, <1>4
    <2> QED BY <1>3, <1>6, <2>1, <2>2 DEF Up
<1> QED BY <1>1, <1>7, <1>8, <1>9 DEF Up

(* A message of the transactional producer, or another, enters the log. *)
LEMMA TxPushed ==
    ASSUME CoreInv, NEW t \in Threads, Push(t)
    PROVE  /\ TxLogged' = TxLogged \cup (IF frame[t].id[1] = "tx" THEN {frame[t].id} ELSE {})
           /\ LogUp /\ (frame[t].id[1] = "tx" =>
                           \A y \in TxLogged : y[2] < frame[t].id[2]) => LogUp'
<1>1. PICK x : x = frame[t].id
    OBVIOUS
<1>2. PICK P : P = PartitionFor(frame[t].key)
    OBVIOUS
<1>3. PICK n \in Nat : n = Len(log[P])
    <2>1. P \in Partitions
        BY <1>2, Pushed
    <2> QED BY <2>1, Positions
<1>4. /\ P \in Partitions /\ LogGrows /\ DOMAIN log[P] = 1 .. n
      /\ DOMAIN log'[P] = 1 .. n + 1 /\ log'[P][n + 1].id = x
      /\ \A q \in Partitions : q # P => log'[q] = log[q]
    <2>1. /\ P \in Partitions /\ LogGrows
          /\ DOMAIN log'[P] = 1 .. Len(log[P]) + 1
          /\ log'[P][Len(log[P]) + 1] = [offset |-> frame[t].value, id |-> x]
          /\ \A q \in Partitions : q # P => log'[q] = log[q]
        BY <1>1, <1>2, Pushed
    <2>2. DOMAIN log[P] = 1 .. n
        BY <1>3, <2>1, Positions
    <2> QED BY <1>3, <2>1, <2>2
<1>5. \A i \in 1 .. n + 1 : i \in 1 .. n \/ i = n + 1
    OBVIOUS
<1>6. n + 1 \in DOMAIN log'[P] /\ \A i \in 1 .. n : i \in 1 .. n + 1
    BY <1>4
<1>7. \A id : InLog(id)' <=> (InLog(id) \/ id = x)
    <2>1. \A p \in Partitions : \A i \in DOMAIN log'[p] :
              \/ p = P /\ i = n + 1
              \/ i \in DOMAIN log[p] /\ log'[p][i] = log[p][i]
        BY <1>4, <1>5 DEF LogGrows
    <2> QED BY <1>4, <1>6, <2>1 DEF InLog, LogGrows
<1>8. \A id : /\ (id \in TxLogged <=> InLog(id) /\ id[1] = "tx")
              /\ (id \in TxLogged' <=> InLog(id)' /\ id[1] = "tx")
    BY DEF TxLogged, Messages, InLog
<1>9. TxLogged' = TxLogged \cup (IF x[1] = "tx" THEN {x} ELSE {})
    BY <1>7, <1>8
<1>10. ASSUME LogUp, x[1] = "tx" => \A y \in TxLogged : y[2] < x[2] PROVE LogUp'
    <2> SUFFICES ASSUME NEW p \in Partitions, NEW i \in DOMAIN log'[p], NEW j \in DOMAIN log'[p],
                        i < j, log'[p][i].id[1] = "tx", log'[p][j].id[1] = "tx"
                 PROVE  log'[p][i].id[2] < log'[p][j].id[2]
        BY DEF LogUp
    <2>1. CASE p # P
        BY <1>4, <1>10, <2>1 DEF LogUp
    <2>2. CASE p = P
        <3>1. i \in 1 .. n
            BY <1>4, <2>2
        <3>2. log'[p][i] = log[p][i]
            BY <1>4, <2>2, <3>1 DEF LogGrows
        <3>3. CASE j \in 1 .. n
            <4>1. log'[p][j] = log[p][j]
                BY <1>4, <2>2, <3>3 DEF LogGrows
            <4> QED BY <1>4, <1>10, <2>2, <3>1, <3>2, <3>3, <4>1 DEF LogUp
        <3>4. CASE j = n + 1
            <4>1. InLog(log[p][i].id) /\ log[p][i].id[1] = "tx"
                BY <1>4, <2>2, <3>1, <3>2 DEF InLog
            <4>2. log[p][i].id \in TxLogged
                BY <1>8, <4>1
            <4> QED BY <1>4, <1>10, <2>2, <3>2, <3>4, <4>2
        <3> QED BY <1>4, <1>5, <2>2, <3>3, <3>4
    <2> QED BY <2>1, <2>2
<1> QED BY <1>1, <1>9, <1>10

(* begin, abort and commit are called, and the batch is cleared. *)
LEMMA TxControl ==
    ASSUME CoreInv, CoreInv', TxInv, NEW t \in Threads,
           Begin(t) \/ Abort(t) \/ Commit(t) \/ Clear(t)
    PROVE  TxInv'
<1>1. /\ UNCHANGED log /\ calls' >= calls /\ overlaps \subseteq overlaps'
      /\ \A u \in Threads : u # t => frame'[u] = frame[u]
      /\ Framed
    <2>1. TxStep(t)
        BY DEF TxStep
    <2> QED BY <2>1, TxTouches DEF Goes, CoreInv, TypeOK
<1>2. TxLogged' = TxLogged /\ (LogUp' <=> LogUp)
    BY <1>1 DEF TxLogged, Messages, LogUp
<1>3. calls \in Nat /\ calls' \in Nat /\ sent \in [open : SUBSET TxIds, committed : SUBSET TxIds]
    BY DEF CoreInv, TypeOK
<1>4. SentUp /\ sent'.committed = sent.committed => SentUp'
    BY <1>1, <1>3, TxTyped DEF SentUp
<1>5. PendingUp /\ pending' = pending => PendingUp'
    <2> SUFFICES ASSUME PendingUp, pending' = pending PROVE PendingUp'
        OBVIOUS
    <2>1. BatchIds(pending)' = BatchIds(pending) /\ (Up(pending)' <=> Up(pending))
        BY DEF BatchIds, Up
    <2> QED BY <1>1, <1>2, <1>3, <2>1, TxTyped DEF PendingUp
<1>6. CASE Begin(t) \/ Abort(t)
    <2>1. /\ frame[t].at = "idle" /\ frame'[t].at = "clear"
          /\ sent'.open = {} /\ sent'.committed = sent.committed
        <3>1. Turns(t, "clear", 0, <<>>, 0, <<>>, {}, <<"tx", 0>>)
            BY <1>1, <1>6, Effects
        <3>2. sent' = [sent EXCEPT !.open = {}]
            BY <1>6 DEF Begin, Abort
        <3> QED BY <1>3, <1>6, <3>1, <3>2 DEF Begin, Abort, Call, Turns
    <2>2. TxOf(t) => TxOf(t)'
        BY <1>2, <1>4, <2>1 DEF TxOf, SendingOK, CopyingOK, PublishingOK, Publishing, InTx
    <2>3. InTx(t)'
        BY <2>1 DEF InTx
    <2> QED BY <1>1, <2>2, <2>3, TxLift
<1>7. CASE Commit(t) /\ inTransaction
    <2>1. /\ frame[t].at = "idle" /\ frame'[t].at = "copy" /\ pending' = pending
          /\ sent'.open = {} /\ sent'.committed = sent.committed \cup sent.open
        <3>1. Turns(t, "copy", 0, <<>>, 0, <<>>, {}, <<"tx", 0>>)
            BY <1>1, <1>7, Effects
        <3> QED BY <1>7, <3>1 DEF Commit, Call, Turns, txVars
    <2>2. ASSUME TxOf(t) PROVE TxOf(t)'
        <3>1. /\ TxLogged = sent.committed /\ PendingUp /\ sent.open = BatchIds(pending)
              /\ SentUp /\ LogUp
            BY <2>1, <2>2 DEF TxOf, Publishing, InTx
        <3>2. BatchIds(pending)' = BatchIds(pending)
            BY <2>1 DEF BatchIds
        <3>3. SentUp'
            BY <1>1, <1>3, <2>1, <3>1, TxTyped DEF SentUp, PendingUp
        <3>4. CopyingOK(t)'
            BY <1>2, <2>1, <3>1, <3>2 DEF CopyingOK
        <3> QED BY <1>2, <1>5, <2>1, <3>1, <3>3, <3>4
                DEF TxOf, SendingOK, PublishingOK, Publishing, InTx
    <2>3. InTx(t)'
        BY <2>1 DEF InTx
    <2> QED BY <1>1, <2>2, <2>3, TxLift
<1>8. CASE Commit(t) /\ ~inTransaction
    <2>1. UNCHANGED <<frame, pending, sent>>
        BY <1>8 DEF Commit, txVars
    <2> QED BY <1>1, <1>2, <2>1, TxStill
<1>9. CASE Clear(t)
    <2>1. /\ frame[t].at = "clear" /\ frame'[t].at = "idle" /\ pending' = <<>> /\ calls' = calls
          /\ sent' = sent
        <3>1. Rests(t)
            BY <1>1, <1>9, Effects
        <3> QED BY <1>9, <3>1 DEF Clear, At, Turns, Rests
    <2>2. PendingUp' /\ BatchIds(pending)' = {}
        BY <2>1 DEF PendingUp, Up, BatchIds
    <2>3. TxOf(t) => TxOf(t)'
        BY <1>2, <1>4, <2>1, <2>2 DEF TxOf, SendingOK, CopyingOK, PublishingOK, Publishing
    <2>4. InTx(t)
        BY <2>1 DEF InTx
    <2> QED BY <1>1, <2>3, <2>4, TxLift
<1> QED BY <1>6, <1>7, <1>8, <1>9

(* send is called. *)
LEMMA TxSend ==
    ASSUME CoreInv, CoreInv', TxInv, NEW t \in Threads, NEW key \in Keys, Send(t, key)
    PROVE  TxInv'
<1>1. /\ UNCHANGED <<log, pending>> /\ calls' = calls + 1 /\ overlaps \subseteq overlaps'
      /\ \A u \in Threads : u # t => frame'[u] = frame[u]
      /\ frame[t].at = "idle" /\ Framed
    <2>1. TxStep(t)
        BY DEF TxStep
    <2>2. UNCHANGED pending /\ calls' = calls + 1 /\ frame[t].at = "idle"
        BY DEF Send, Call, TxCall, txVars
    <2> QED BY <2>1, <2>2, TxTouches DEF Goes, CoreInv, TypeOK
<1>2. TxLogged' = TxLogged /\ (LogUp' <=> LogUp)
    BY <1>1 DEF TxLogged, Messages, LogUp
<1>3. /\ calls \in Nat /\ calls < calls + 1
      /\ sent \in [open : SUBSET TxIds, committed : SUBSET TxIds]
    BY DEF CoreInv, TypeOK
<1>4. CASE ~inTransaction
    <2>1. UNCHANGED <<frame, sent>>
        BY <1>4 DEF Send
    <2> QED BY <1>1, <1>2, <1>3, <2>1, TxStill
<1>5. CASE inTransaction
    <2>1. frame'[t].at = "send" /\ frame'[t].id = <<"tx", calls>>
        <3>1. Turns(t, "send", key, <<"tx", calls>>, 0, <<>>, {}, <<"tx", 0>>)
            BY <1>1, <1>5, Effects
        <3> QED BY <3>1 DEF Turns
    <2>2. BatchIds(pending)' = BatchIds(pending) /\ (Up(pending)' <=> Up(pending))
        BY <1>1 DEF BatchIds, Up
    <2>3. sent'.committed = sent.committed /\ sent'.open = sent.open \cup {<<"tx", calls>>}
        <3>1. sent' = [sent EXCEPT !.open = sent.open \cup {<<"tx", calls>>}]
            BY <1>5 DEF Send
        <3> QED BY <1>3, <3>1
    <2>4. SentUp => SentUp'
        BY <1>1, <1>3, <2>3, TxTyped DEF SentUp
    <2>5. PendingUp => PendingUp'
        BY <1>1, <1>2, <1>3, <2>2, TxTyped DEF PendingUp
    <2>6. ~Publishing(t) /\ ~Publishing(t)' /\ ~InTx(t)
        BY <1>1, <2>1 DEF Publishing, InTx
    <2>7. ASSUME TxOf(t) PROVE SendingOK(t)'
        <3>1. SentUp /\ PendingUp /\ TxLogged = sent.committed /\ sent.open = BatchIds(pending)
            BY <1>1, <2>7, <2>6 DEF TxOf
        <3> QED BY <1>1, <1>2, <1>3, <2>1, <2>2, <2>3, <3>1 DEF SentUp, PendingUp, SendingOK
    <2>8. InTx(t)'
        BY <2>1 DEF InTx
    <2>9. TxOf(t) => TxOf(t)'
        BY <1>1, <1>2, <2>1, <2>4, <2>5, <2>7, <2>6, <2>8, <2>3 DEF TxOf, CopyingOK, PublishingOK
    <2> QED BY <1>1, <2>9, <2>8, TxLift
<1> QED BY <1>4, <1>5

(* A message is added to the batch. *)
LEMMA TxAdded ==
    ASSUME CoreInv, CoreInv', TxInv, NEW t \in Threads, AddPending(t)
    PROVE  TxInv'
<1>1. /\ UNCHANGED <<log, sent, calls, overlaps>>
      /\ \A u \in Threads : u # t => frame'[u] = frame[u]
      /\ frame[t].at = "send" /\ frame'[t].at = "idle" /\ Framed
    <2>1. Rests(t) /\ Framed
        BY Effects DEF CoreInv, TypeOK
    <2> QED BY <2>1 DEF AddPending, At, busVars, Rests, Turns
<1>2. TxLogged' = TxLogged /\ (LogUp' <=> LogUp) /\ (SentUp' <=> SentUp)
    BY <1>1 DEF TxLogged, Messages, LogUp, SentUp
<1>3. PICK e : e = <<frame[t].key, frame[t].id>>
    OBVIOUS
<1>4. e \in Keys \X TxIds /\ e[2] = frame[t].id
    BY <1>1, <1>3 DEF CoreInv, LocalOK
<1>5. pending \in Batches /\ pending' = Append(pending, e)
    BY <1>3 DEF AddPending, CoreInv, TypeOK
<1>6. ~Publishing(t) /\ ~Publishing(t)'
    BY <1>1 DEF Publishing
<1>7. PendingUp /\ SendingOK(t) => PendingUp'
    <2> SUFFICES ASSUME PendingUp, SendingOK(t) PROVE PendingUp'
        OBVIOUS
    <2>1. BatchIds(pending') = BatchIds(pending) \cup {e[2]} /\ Up(pending')
        BY <1>1, <1>4, <1>5, BatchAppended DEF PendingUp, SendingOK
    <2> QED BY <1>1, <1>2, <1>4, <2>1 DEF PendingUp, SendingOK
<1>8. SendingOK(t) => sent'.open = BatchIds(pending')
    BY <1>1, <1>4, <1>5, BatchAppended DEF SendingOK
<1>9. TxOf(t) => TxOf(t)'
    BY <1>1, <1>2, <1>6, <1>7, <1>8 DEF TxOf, SendingOK, CopyingOK, PublishingOK
<1>10. InTx(t)
    BY <1>1 DEF InTx
<1> QED BY <1>1, <1>9, <1>10, TxLift

(* commit copies the batch. *)
LEMMA TxCopied ==
    ASSUME CoreInv, CoreInv', TxInv, NEW t \in Threads, CopyPending(t)
    PROVE  TxInv'
<1>1. /\ UNCHANGED <<log, pending, sent, calls, overlaps>>
      /\ \A u \in Threads : u # t => frame'[u] = frame[u]
      /\ frame[t].at = "copy" /\ frame'[t].at = "publish" /\ frame'[t].queue = pending
    <2>1. Framed
        BY DEF CoreInv, TypeOK
    <2>2. Turns(t, "publish", frame[t].key, frame[t].id, frame[t].value, pending,
                frame[t].reads, frame[t].use)
        BY <2>1, Effects
    <2> QED BY <2>2 DEF CopyPending, At, busVars, txVars, Turns
<1>2. TxLogged' = TxLogged /\ (LogUp' <=> LogUp) /\ (SentUp' <=> SentUp)
    BY <1>1 DEF TxLogged, Messages, LogUp, SentUp
<1>3. ~Publishing(t) /\ Publishing(t)' /\ InFlight(t)' = {} /\ InTx(t)'
    BY <1>1 DEF Publishing, InFlight, InTx
<1>4. /\ BatchIds(frame[t].queue)' = BatchIds(pending)
      /\ (Up(frame[t].queue)' <=> Up(pending))
    BY <1>1 DEF BatchIds, Up
<1>5. ASSUME TxOf(t) PROVE TxOf(t)'
    <2>1. /\ SentUp /\ PendingUp /\ LogUp /\ sent.open = {}
          /\ sent.committed = TxLogged \cup BatchIds(pending)
        BY <1>1, <1>3, <1>5 DEF TxOf, CopyingOK
    <2>2. PublishingOK(t)'
        BY <1>1, <1>2, <1>3, <1>4, <2>1 DEF PublishingOK, PendingUp
    <2>3. SendingOK(t)' /\ CopyingOK(t)'
        BY <1>1 DEF SendingOK, CopyingOK
    <2> QED BY <1>2, <1>3, <2>1, <2>2, <2>3 DEF TxOf
<1>6. InTx(t)
    BY <1>1 DEF InTx
<1> QED BY <1>1, <1>5, <1>6, TxLift

(* commit takes the next message of the batch, or ends the transaction. *)
LEMMA TxPublished ==
    ASSUME CoreInv, CoreInv', TxInv, NEW t \in Threads, PublishPending(t)
    PROVE  TxInv'
<1>1. /\ UNCHANGED <<log, sent, pending, calls, overlaps>> /\ frame[t].at = "publish"
      /\ Framed
    BY DEF PublishPending, At, busVars, CoreInv, TypeOK
<1>2. /\ TxLogged' = TxLogged /\ (LogUp' <=> LogUp) /\ (SentUp' <=> SentUp)
      /\ InTx(t)
    BY <1>1 DEF TxLogged, Messages, LogUp, SentUp, InTx
<1>3. PICK b \in Batches : b = frame[t].queue
    BY <1>1, <1>2 DEF CoreInv, LocalOK
<1>4. ASSUME TxOf(t)
      PROVE  /\ TxLogged \cup BatchIds(b) = sent.committed /\ Up(b)
             /\ \A y \in TxLogged : \A x \in BatchIds(b) : y[2] < x[2]
             /\ SentUp /\ LogUp /\ sent.open = {}
    <2>1. Publishing(t) /\ InFlight(t) = {}
        BY <1>1 DEF Publishing, InFlight
    <2>2. PublishingOK(t)
        BY <1>4 DEF TxOf
    <2>3. /\ TxLogged \cup InFlight(t) \cup BatchIds(b) = sent.committed /\ Up(b) /\ sent.open = {}
          /\ \A y \in TxLogged : \A x \in InFlight(t) \cup BatchIds(b) : y[2] < x[2]
        BY <1>3, <2>1, <2>2 DEF PublishingOK
    <2> QED BY <1>4, <2>1, <2>3 DEF TxOf
<1>5. CASE b = <<>>
    <2>1. frame'[t].at = "clear" /\ \A u \in Threads : u # t => frame'[u] = frame[u]
        <3>1. Turns(t, "clear", frame[t].key, frame[t].id, frame[t].value,
                    frame[t].queue, frame[t].reads, frame[t].use)
            BY <1>1, <1>3, <1>5, Effects
        <3> QED BY <3>1 DEF Turns
    <2>2. BatchIds(b) = {}
        BY <1>5 DEF BatchIds
    <2>3. TxOf(t) => TxOf(t)'
        BY <1>1, <1>2, <1>4, <2>1, <2>2 DEF TxOf, SendingOK, CopyingOK, PublishingOK, Publishing, InTx
    <2> QED BY <1>1, <1>2, <2>1, <2>3, TxLift
<1>6. CASE b # <<>>
    <2>1. /\ frame'[t].at = "offset" /\ frame'[t].id = Head(b)[2] /\ frame'[t].queue = Tail(b)
          /\ \A u \in Threads : u # t => frame'[u] = frame[u]
        <3>1. Turns(t, "offset", Head(b)[1], Head(b)[2], frame[t].value, Tail(b),
                    frame[t].reads, frame[t].use)
            BY <1>1, <1>3, <1>6, Effects
        <3> QED BY <3>1 DEF Turns
    <2>2. Publishing(t)' /\ InFlight(t)' = {Head(b)[2]}
        <3>1. Head(b) \in Keys \X TxIds
            BY <1>6 DEF Batches
        <3>2. Head(b)[2][1] = "tx"
            BY <3>1 DEF TxIds
        <3> QED BY <2>1, <3>2 DEF Publishing, InFlight
    <2>3. /\ BatchIds(frame[t].queue)' = BatchIds(Tail(b))
          /\ (Up(frame[t].queue)' <=> Up(Tail(b)))
        BY <2>1 DEF BatchIds, Up
    <2>4. ASSUME TxOf(t) PROVE TxOf(t)'
        <3>1. /\ TxLogged \cup BatchIds(b) = sent.committed /\ Up(b)
              /\ \A y \in TxLogged : \A x \in BatchIds(b) : y[2] < x[2]
              /\ SentUp /\ LogUp /\ sent.open = {}
            BY <1>4, <2>4
        <3>2. /\ BatchIds(b) = BatchIds(Tail(b)) \cup {Head(b)[2]}
              /\ Up(Tail(b)) /\ \A x \in BatchIds(Tail(b)) : Head(b)[2][2] < x[2]
            BY <1>6, <3>1, BatchShortened
        <3>3. PublishingOK(t)'
            <4>1. TxLogged' \cup InFlight(t)' \cup BatchIds(frame[t].queue)' = sent.committed'
                BY <1>1, <1>2, <2>2, <2>3, <3>1, <3>2
            <4>2. \A y \in TxLogged' : \A x \in InFlight(t)' \cup BatchIds(frame[t].queue)' :
                      y[2] < x[2]
                BY <1>2, <2>2, <2>3, <3>1, <3>2
            <4>3. \A y \in InFlight(t)' : \A x \in BatchIds(frame[t].queue)' : y[2] < x[2]
                BY <2>2, <2>3, <3>2
            <4> QED BY <1>1, <2>3, <3>1, <3>2, <4>1, <4>2, <4>3 DEF PublishingOK
        <3>4. SendingOK(t)' /\ CopyingOK(t)' /\ InTx(t)'
            BY <2>1, <2>2 DEF SendingOK, CopyingOK, InTx, Publishing
        <3> QED BY <1>2, <2>2, <3>1, <3>3, <3>4 DEF TxOf
    <2> QED BY <1>1, <1>2, <2>1, <2>4, TxLift
<1> QED BY <1>5, <1>6

(* A message gets its offset. *)
LEMMA TxOffset ==
    ASSUME CoreInv, CoreInv', TxInv, NEW t \in Threads, TakeOffset(t)
    PROVE  TxInv'
<1>1. /\ UNCHANGED <<log, sent, pending, calls, overlaps>> /\ frame[t].at = "offset"
      /\ Framed
    BY DEF TakeOffset, At, txVars, CoreInv, TypeOK
<1>2. /\ frame'[t].at = "push" /\ frame'[t].id = frame[t].id /\ frame'[t].queue = frame[t].queue
      /\ \A u \in Threads : u # t => frame'[u] = frame[u]
    <2>1. Turns(t, "push", frame[t].key, frame[t].id, nextOffset, frame[t].queue,
                frame[t].reads, frame[t].use)
        BY <1>1, Effects
    <2> QED BY <2>1 DEF Turns
<1>3. /\ TxLogged' = TxLogged /\ (LogUp' <=> LogUp) /\ (SentUp' <=> SentUp)
    BY <1>1 DEF TxLogged, Messages, LogUp, SentUp
<1>4. CASE frame[t].id[1] # "tx"
    <2>1. ~InTx(t) /\ ~InTx(t)'
        BY <1>1, <1>2, <1>4 DEF InTx
    <2>2. calls' >= calls
        BY <1>1 DEF CoreInv, TypeOK
    <2> QED BY <1>1, <1>2, <1>3, <2>1, <2>2, TxStill
<1>5. CASE frame[t].id[1] = "tx"
    <2>1. InTx(t) /\ Publishing(t) /\ Publishing(t)' /\ InFlight(t)' = InFlight(t)
        BY <1>1, <1>2, <1>5 DEF InTx, Publishing, InFlight
    <2>2. /\ BatchIds(frame[t].queue)' = BatchIds(frame[t].queue)
          /\ (Up(frame[t].queue)' <=> Up(frame[t].queue))
        BY <1>2 DEF BatchIds, Up
    <2>3. PublishingOK(t) => PublishingOK(t)'
        BY <1>1, <1>3, <2>1, <2>2 DEF PublishingOK
    <2>4. TxOf(t) => TxOf(t)'
        BY <1>2, <1>3, <2>1, <2>3 DEF TxOf, SendingOK, CopyingOK, InTx, Publishing
    <2> QED BY <1>1, <1>2, <2>1, <2>4, TxLift
<1> QED BY <1>4, <1>5

(* A message enters its partition. *)
LEMMA TxPush ==
    ASSUME CoreInv, CoreInv', TxInv, NEW t \in Threads, Push(t)
    PROVE  TxInv'
<1>1. UNCHANGED <<sent, pending, calls, overlaps>> /\ frame[t].at = "push" /\ Framed
    BY DEF Push, At, txVars, CoreInv, TypeOK
<1>2. PICK x : x = frame[t].id
    OBVIOUS
<1>3. /\ frame'[t].at = IF x[1] = "tx" THEN "publish" ELSE "acknowledge"
      /\ frame'[t].queue = frame[t].queue
      /\ \A u \in Threads : u # t => frame'[u] = frame[u]
    <2>1. Turns(t, IF x[1] = "tx" THEN "publish" ELSE "acknowledge", frame[t].key, x,
                frame[t].value, frame[t].queue, frame[t].reads, frame[t].use)
        BY <1>1, <1>2, Effects
    <2> QED BY <2>1 DEF Turns
<1>4. /\ TxLogged' = TxLogged \cup (IF x[1] = "tx" THEN {x} ELSE {})
      /\ LogUp /\ (x[1] = "tx" => \A y \in TxLogged : y[2] < x[2]) => LogUp'
    BY <1>2, TxPushed
<1>5. (SentUp' <=> SentUp)
    BY <1>1 DEF SentUp
<1>6. CASE x[1] # "tx"
    <2>1. ~InTx(t) /\ ~InTx(t)'
        BY <1>1, <1>2, <1>3, <1>6 DEF InTx
    <2>2. calls' >= calls
        BY <1>1 DEF CoreInv, TypeOK
    <2> QED BY <1>1, <1>3, <1>4, <1>6, <2>1, <2>2, TxStill
<1>7. CASE x[1] = "tx"
    <2>1. /\ InTx(t) /\ Publishing(t) /\ Publishing(t)'
          /\ InFlight(t) = {x} /\ InFlight(t)' = {}
        BY <1>1, <1>2, <1>3, <1>7 DEF InTx, Publishing, InFlight
    <2>2. /\ BatchIds(frame[t].queue)' = BatchIds(frame[t].queue)
          /\ (Up(frame[t].queue)' <=> Up(frame[t].queue))
        BY <1>3 DEF BatchIds, Up
    <2>3. ASSUME TxOf(t) PROVE TxOf(t)'
        <3>1. /\ TxLogged \cup {x} \cup BatchIds(frame[t].queue) = sent.committed
              /\ sent.open = {}
              /\ Up(frame[t].queue) /\ SentUp /\ LogUp
              /\ \A y \in TxLogged : \A z \in {x} \cup BatchIds(frame[t].queue) : y[2] < z[2]
              /\ \A z \in BatchIds(frame[t].queue) : x[2] < z[2]
            BY <2>1, <2>3 DEF TxOf, PublishingOK
        <3>2. LogUp'
            BY <1>4, <3>1
        <3>3. PublishingOK(t)'
            <4>1. TxLogged' = TxLogged \cup {x}
                BY <1>4, <1>7
            <4>2. TxLogged' \cup InFlight(t)' \cup BatchIds(frame[t].queue)' = sent.committed'
                BY <1>1, <1>5, <2>1, <2>2, <3>1, <4>1
            <4>3. \A y \in TxLogged' : \A z \in InFlight(t)' \cup BatchIds(frame[t].queue)' :
                      y[2] < z[2]
                BY <2>1, <2>2, <3>1, <4>1
            <4> QED BY <1>1, <2>1, <2>2, <3>1, <4>2, <4>3 DEF PublishingOK
        <3>4. SendingOK(t)' /\ CopyingOK(t)' /\ InTx(t)'
            BY <1>3, <1>7 DEF SendingOK, CopyingOK, InTx
        <3> QED BY <1>5, <2>1, <3>1, <3>2, <3>3, <3>4 DEF TxOf
    <2> QED BY <1>1, <1>3, <2>1, <2>3, TxLift
<1> QED BY <1>6, <1>7

(* Every step keeps it. *)
LEMMA TxKept ==
    ASSUME CoreInv, CoreInv', TxInv, [Next]_vars
    PROVE  TxInv'
<1>1. ASSUME UNCHANGED <<log, sent, pending>>, calls' >= calls, overlaps \subseteq overlaps',
             \A u \in Threads : frame'[u] = frame[u] \/ (~InTx(u) /\ ~InTx(u)')
      PROVE  TxInv'
    <2>1. TxLogged' = TxLogged /\ (LogUp => LogUp')
        BY <1>1 DEF TxLogged, Messages, LogUp
    <2> QED BY <1>1, <2>1, TxStill
<1>2. calls \in Nat /\ calls' \in Nat
    BY DEF CoreInv, TypeOK
<1>3. CASE UNCHANGED vars
    BY <1>1, <1>2, <1>3 DEF vars
<1>4. CASE GroupStep
    BY <1>1, <1>4, CoreGroup DEF GroupStep
<1>5. ASSUME NEW t \in Threads, FenceStep(t) PROVE TxInv'
    <2>1. ~InTx(t)
        BY <1>5, FenceTouches DEF Goes, InTx
    <2>2. ~InTx(t)'
        <3>1. ASSUME frame'[t].at = "offset" PROVE frame'[t].id[1] # "tx"
            <4>1. IsValid(t) /\ Framed
                BY <1>5, <3>1, FenceTouches DEF CoreInv, TypeOK
            <4>2. \/ Rests(t)
                  \/ Turns(t, "offset", frame[t].key, frame[t].id, frame[t].value,
                           frame[t].queue, frame[t].reads, frame[t].use)
                BY <4>1, Effects
            <4>3. frame'[t].id = frame[t].id
                BY <3>1, <4>2 DEF Turns, Rests
            <4>4. frame[t].id \in {Default} \X Nat
                BY <4>1 DEF IsValid, At, CoreInv, LocalOK
            <4> QED BY <4>3, <4>4 DEF Default
        <3> QED BY <1>5, <3>1, FenceTouches DEF Goes, InTx
    <2> QED BY <1>1, <1>5, <2>1, <2>2, FenceTouches DEF Goes
<1>6. ASSUME NEW t \in Threads, ConsumerStep(t) \/ HandlerStep(t) PROVE TxInv'
    <2>1. ~InTx(t) /\ ~InTx(t)'
        BY <1>6, ReaderTouches DEF Goes, InTx, Reading
    <2> QED BY <1>1, <1>6, <2>1, ReaderTouches DEF Goes
<1>7. ASSUME NEW t \in Threads, ProducerStep(t), ~TakeOffset(t), ~Push(t) PROVE TxInv'
    <2>1. frame[t].at \in {"idle", "acknowledge"}
        BY <1>7 DEF ProducerStep, Acknowledge, IdempotentProduce, At, Call
    <2>2. ~InTx(t)
        BY <2>1 DEF InTx
    <2>3. ~InTx(t)'
        <3>1. Framed
            BY DEF CoreInv, TypeOK
        <3>2. \/ Rests(t) \/ frame' = frame
              \/ \E k, n : Turns(t, "offset", k, <<Own, n>>, 0, <<>>, {}, <<Own, n>>)
            BY <1>7, <3>1, Effects DEF ProducerStep
        <3> QED BY <2>2, <3>2 DEF Rests, Turns, InTx, Own
    <2> QED BY <1>1, <1>7, <2>2, <2>3, ProducerTouches DEF Goes
<1>8. ASSUME NEW t \in Threads, ProducerStep(t) PROVE TxInv'
    BY <1>7, <1>8, TxOffset, TxPush
<1>9. ASSUME NEW t \in Threads, TxStep(t) PROVE TxInv'
    BY <1>9, TxControl, TxSend, TxAdded, TxCopied, TxPublished DEF TxStep
<1> QED BY <1>3, <1>4, <1>5, <1>6, <1>8, <1>9, Parts

(* "all-or-nothing": while the sessions of two threads do not overlap, the *)
(* bus shows only messages of committed transactions, in the order they    *)
(* were sent and once each, and all of them once commit has returned.      *)
THEOREM TransactionsAlwaysWhole == Spec => []TransactionsWhole
<1>1. Init => CoreInv /\ TxInv
    <2> SUFFICES ASSUME Init PROVE CoreInv /\ TxInv
        OBVIOUS
    <2>1. /\ \A t \in Threads : frame[t].at = "idle"
          /\ \A p \in Partitions : DOMAIN log[p] = {}
          /\ sent.open = {} /\ sent.committed = {} /\ DOMAIN pending = {}
        BY DEF Init, Idle
    <2>2. TxLogged = {} /\ BatchIds(pending) = {}
        BY <2>1 DEF TxLogged, Messages, BatchIds
    <2>3. \A t \in Threads : ~Publishing(t) /\ frame[t].at \notin {"send", "copy", "clear"}
        BY <2>1 DEF Publishing
    <2>4. SentUp /\ LogUp /\ PendingUp
        BY <2>1, <2>2 DEF SentUp, LogUp, PendingUp, Up
    <2>5. TxInv
        BY <2>1, <2>2, <2>3, <2>4 DEF TxInv, SendingOK, CopyingOK, PublishingOK
    <2> QED BY <2>5, CoreStart
<1>2. CoreInv /\ TxInv /\ [Next]_vars => CoreInv' /\ TxInv'
    BY CoreStep, TxKept
<1>3. CoreInv /\ TxInv => TransactionsWhole
    <2> SUFFICES ASSUME CoreInv, TxInv, <<"tx", 0>> \notin overlaps
                 PROVE  TransactionsWhole
        BY DEF TransactionsWhole
    <2> DEFINE Rest == /\ TxLogged \subseteq sent.committed
                       /\ \A x \in TxLogged : \A y \in sent.committed \ TxLogged : x[2] < y[2]
    <2>1. \A y \in sent.committed : y[2] \in Nat
        BY TxTyped
    <2>2. Rest
        <3>1. ASSUME NEW t \in Threads, Publishing(t) PROVE Rest
            BY <3>1 DEF TxInv, PublishingOK
        <3>2. ASSUME NEW t \in Threads, frame[t].at = "copy" PROVE Rest
            <4>1. \A u \in Threads : ~Publishing(u) /\ frame[u].at # "clear"
                <5>1. ASSUME NEW u \in Threads, InTx(u) PROVE u = t
                    <6>1. InTx(t)
                        BY <3>2 DEF InTx
                    <6>2. /\ frame[t].use = <<"tx", 0>> /\ frame[u].use = <<"tx", 0>>
                          /\ frame[t].at # "idle" /\ frame[u].at # "idle"
                        BY <5>1, <6>1 DEF CoreInv, UseOK, InTx
                    <6> QED BY <6>2 DEF CoreInv, Exclusive, Nothing
                <5> QED BY <3>2, <5>1 DEF InTx, Publishing
            <4>2. PendingUp /\ sent.committed = TxLogged \cup BatchIds(pending)
                BY <3>2, <4>1 DEF TxInv, CopyingOK
            <4> QED BY <4>2 DEF PendingUp
        <3>3. CASE \A t \in Threads : ~Publishing(t) /\ frame[t].at # "copy"
            BY <3>3 DEF TxInv
        <3> QED BY <3>1, <3>2, <3>3
    <2>3. ASSUME TxIdle PROVE TxLogged = sent.committed
        <3>1. ASSUME NEW t \in Threads, InTx(t) PROVE FALSE
            <4>1. frame[t].at # "idle" /\ frame[t].use = <<"tx", 0>>
                BY <3>1 DEF CoreInv, UseOK, InTx
            <4> QED BY <2>3, <4>1 DEF TxIdle, Using
        <3>2. \A t \in Threads : ~Publishing(t) /\ frame[t].at # "copy"
            BY <3>1 DEF Publishing, InTx
        <3> QED BY <3>2 DEF TxInv
    <2>4. ASSUME NEW x \in TxLogged, NEW y \in sent.committed, y[2] < x[2] PROVE y \in TxLogged
        <3>1. x[2] \in Nat /\ y[2] \in Nat /\ ~(x[2] < y[2])
            BY <2>1, <2>2, <2>4
        <3> QED BY <2>2, <3>1
    <2>5. LogUp
        BY DEF TxInv
    <2> QED BY <2>2, <2>3, <2>4, <2>5 DEF TransactionsWhole, LogUp
<1> QED BY <1>1, <1>2, <1>3, PTL DEF Spec
=============================================================================
