---------------------------- MODULE RingBuffer ----------------------------
(***************************************************************************)
(* The single-producer, single-consumer ring buffer of                     *)
(* src/src/log/ring_buffer.rs, one step per atomic or slot access.  claim  *)
(* stores the producer sequence BEFORE publish writes the slot, so the     *)
(* consumer may read a slot while, or before, it is written: an undefined  *)
(* read, which returns what the slot held, or a mixture.  An item is named *)
(* by the sequence number it was pushed with.                              *)
(***************************************************************************)
EXTENDS Integers, Sequences

CONSTANTS MinCapacity,  \* the argument of RingBuffer::new
          BatchSize,    \* the argument of batch_consume
          MaxPushes     \* bound on successful pushes

ASSUME RingAssumption == MinCapacity \in 0 .. 65536 /\ BatchSize \in Nat \ {0} /\ MaxPushes \in Nat

VARIABLES slots, producer_sequence, consumer_sequence,
          producer,     \* where the producer is, and the sequence it claimed
          consumer,     \* where the consumer is, its read, and the pops still to do
          alive,        \* FALSE once the buffer is dropped
          delivered,    \* what pops returned, and what Drop dropped, in order
          raced         \* sequences read before their publish was complete

ringVars == <<slots, producer_sequence, consumer_sequence, producer, consumer,
              alive, delivered, raced>>

Uninit == -1    \* MaybeUninit::uninit()
Torn == -2      \* a slot in the middle of a write

\* min_capacity.next_power_of_two() (1 for 0).
PowersOfTwo == {2^k : k \in 0 .. 16}
capacity == CHOOSE c \in PowersOfTwo :
                c >= MinCapacity /\ \A p \in PowersOfTwo : p >= MinCapacity => c <= p

Slot(sequence) == sequence % capacity

RingInit ==
    /\ slots = [s \in 0 .. capacity - 1 |-> Uninit]
    /\ producer_sequence = 0 /\ consumer_sequence = 0
    /\ producer = [pc |-> "idle", seq |-> 0]
    /\ consumer = [pc |-> "idle", data |-> Uninit, left |-> 0]
    /\ alive = TRUE /\ delivered = <<>> /\ raced = {}

---------------------------------------------------------------------------
\* Mutant: room for one item more than there are slots.
ClaimLap ==
    /\ alive /\ producer.pc = "idle" /\ producer_sequence < MaxPushes
    /\ producer_sequence - consumer_sequence <= capacity
    /\ producer' = [pc |-> "claim", seq |-> producer_sequence]
    /\ UNCHANGED <<slots, producer_sequence, consumer_sequence, consumer, alive, delivered, raced>>

\* claim: load both sequences; full when the next one would lap the consumer.
Claim ==
    /\ alive /\ producer.pc = "idle" /\ producer_sequence < MaxPushes
    /\ producer_sequence + 1 - consumer_sequence <= capacity
    /\ producer' = [pc |-> "claim", seq |-> producer_sequence]
    /\ UNCHANGED <<slots, producer_sequence, consumer_sequence, consumer, alive, delivered, raced>>

ClaimStore ==
    /\ producer.pc = "claim"
    /\ producer_sequence' = producer.seq + 1
    /\ producer' = [producer EXCEPT !.pc = "publish"]
    /\ UNCHANGED <<slots, consumer_sequence, consumer, alive, delivered, raced>>

\* publish: a plain write of the slot, not atomic.
PublishBegin ==
    /\ producer.pc = "publish"
    /\ slots' = [slots EXCEPT ![Slot(producer.seq)] = Torn]
    /\ producer' = [producer EXCEPT !.pc = "writing"]
    /\ UNCHANGED <<producer_sequence, consumer_sequence, consumer, alive, delivered, raced>>

PublishEnd ==
    /\ producer.pc = "writing"
    /\ slots' = [slots EXCEPT ![Slot(producer.seq)] = producer.seq]
    /\ producer' = [producer EXCEPT !.pc = "idle"]
    /\ UNCHANGED <<producer_sequence, consumer_sequence, consumer, alive, delivered, raced>>

---------------------------------------------------------------------------
\* try_pop and pop_wait pop once, batch_consume up to batch_size times.
PopStart(n) ==
    /\ alive /\ consumer.pc = "idle"
    /\ consumer' = [consumer EXCEPT !.pc = "load", !.left = n]
    /\ UNCHANGED <<slots, producer_sequence, consumer_sequence, producer, alive, delivered, raced>>

\* Nothing published: try_pop and batch_consume return; pop_wait returns when
\* its deadline has passed and stays here, loading again, until then.
PopEmpty ==
    /\ consumer.pc = "load" /\ consumer_sequence >= producer_sequence
    /\ consumer' = [consumer EXCEPT !.pc = "idle"]
    /\ UNCHANGED <<slots, producer_sequence, consumer_sequence, producer, alive, delivered, raced>>

PopLoad ==
    /\ consumer.pc = "load" /\ consumer_sequence < producer_sequence
    /\ consumer' = [consumer EXCEPT !.pc = "read"]
    /\ UNCHANGED <<slots, producer_sequence, consumer_sequence, producer, alive, delivered, raced>>

\* assume_init_read: whatever the slot holds, the write complete or not.
PopRead ==
    /\ consumer.pc = "read"
    /\ consumer' = [consumer EXCEPT !.pc = "store", !.data = slots[Slot(consumer_sequence)]]
    /\ raced' = IF producer.pc \in {"publish", "writing"} /\ producer.seq = consumer_sequence
                THEN raced \cup {consumer_sequence} ELSE raced
    /\ UNCHANGED <<slots, producer_sequence, consumer_sequence, producer, alive, delivered>>

PopStore ==
    /\ consumer.pc = "store"
    /\ consumer_sequence' = consumer_sequence + 1
    /\ delivered' = Append(delivered, consumer.data)
    /\ consumer' = [consumer EXCEPT !.pc = IF consumer.left > 1 THEN "load" ELSE "idle",
                                    !.left = @ - 1]
    /\ UNCHANGED <<slots, producer_sequence, producer, alive, raced>>

\* Drop: exclusive access; the unread slots are dropped in order.
DropBuffer ==
    /\ alive /\ producer.pc = "idle" /\ consumer.pc = "idle"
    /\ alive' = FALSE
    /\ delivered' = delivered \o [i \in 1 .. producer_sequence - consumer_sequence |->
                                      slots[Slot(consumer_sequence + i - 1)]]
    /\ UNCHANGED <<slots, producer_sequence, consumer_sequence, producer, consumer, raced>>

RingNext ==
    \/ Claim \/ ClaimStore \/ PublishBegin \/ PublishEnd
    \/ \E n \in {1, BatchSize} : PopStart(n)
    \/ PopEmpty \/ PopLoad \/ PopRead \/ PopStore \/ DropBuffer

RingSpec == RingInit /\ [][RingNext]_ringVars

---------------------------------------------------------------------------
(***************************************************************************)
(* Every item is handed out once, in the order of the pushes, and dropped  *)
(* with the buffer if it was not: no claim laps an unread slot.  The one   *)
(* exception is a pop that overtook the publish of its own sequence: it    *)
(* sees the slot's previous lap or a torn write, and loses that item.      *)
(***************************************************************************)
DeliveredInOrder ==
    /\ producer_sequence - consumer_sequence <= capacity
    /\ \A i \in 1 .. Len(delivered) :
          \/ delivered[i] = i - 1
          \/ /\ i - 1 \in raced
             /\ delivered[i] \in {Torn, IF i > capacity THEN i - 1 - capacity ELSE Uninit}
===========================================================================
