----------------------------- MODULE Idempotency -----------------------------
(***************************************************************************)
(* IdempotencyService of src/src/service/idempotency.rs: the ids already   *)
(* processed with the time of each, kept as a sequence from the oldest to  *)
(* the newest.  Writing an id again gives it a new time.                   *)
(***************************************************************************)
EXTENDS Integers, Sequences, SequencesExt

CONSTANT MaxEntries     \* max_entries

ASSUME MaxEntriesAssumption == MaxEntries \in Nat

IsProcessed(processed, id) == Contains(processed, id)

Insert(processed, id) == Append(RemoveFirst(processed, id), id)

Dropped(s, n) == SubSeq(s, n + 1, Len(s))

EvictOldestBatch(processed) ==
    LET tenth == MaxEntries \div 10
    IN  Dropped(processed, IF tenth < 1 THEN 1 ELSE tenth)

(* The first half of mark_processed; the second is Insert. *)
MakeRoom(processed) ==
    IF Len(processed) >= MaxEntries THEN EvictOldestBatch(processed) ELSE processed

(* evict_older_than drops the ids up to some time. *)
EvictOlderThan(processed, n) == Dropped(processed, n)
=============================================================================
