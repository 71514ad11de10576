# Banking ledger: TLA+ models, checks and proofs

This directory holds the formal model of the banking ledger in `src/`: TLA+
modules that follow the Rust source step by step, TLC configurations that
check them on small instances, and TLAPS proofs for instances of any size.
`PROJECT.json` lists the components, the runs, the source lines behind every
definition, the findings, the hazards and the theorems.

## 1. The system

| Component | State it keeps | Operations | What is hard about it | What makes it correct |
|---|---|---|---|---|
| Account (`domain/account.rs`) | `balance`, `available_balance` (two atomics), `status` (mutex) | debit, credit, place_hold, release_hold, set_status | two atomics written one after the other, lock-free retries, status read once | funds never overdrawn, operations atomic |
| Account service (`service/account_service.rs`) | map of accounts | the same, by identifier | concurrent use of one account | as above |
| Journal (`domain/journal.rs`, `extensions.rs`) | immutable entries | build legs, validate, reverse, audit reports | saturating legs, unbalanced lists | every entry balances, a reversal mirrors its original |
| Ledger service (`service/ledger_service.rs`) | journal, counter, transactions | begin_transaction, record_transfer, record_entry, reverse_entry | journal first, balances later, legs one by one; a leg may fail | balances follow from the journal, commit only when applied |
| HTTP API (`api/mod.rs`) | accounts, `journal_seq`, hash chain, journal, breaker, roles, identities | some sixty handlers | a handler takes and drops one lock after the other; rollback may fail | no money lost or made unreported, complete audit trail, every request answered |
| Circuit breaker, bulkhead, token bucket, golden signals, incident detector (`service/resilience.rs`) | state, counts, times, samples | allow_request, record_success, record_failure; try_acquire; try_consume; record_request, reset, check | counts and times written outside the state lock, CAS loops, counters read and cleared one by one | recovers; the limits hold; the signals are true |
| Persistence (`store/mod.rs`, `persist_after_mutation`, `restore_from_store`) | database rows | detached snapshot writes, restore at start | snapshots overtake each other, writes fail, partial restore | the store catches up with memory |
| Hash chain (`log/hash_chain.rs`) | blocks | append, verify, prove, redact, batch verify | redaction rewrites links, chunk borders, a new genesis after a restart | tampering is detected, nothing else is |
| Event bus (`log/event_bus.rs`, `service/event_bus_wiring.rs`) | partitions, offsets, epochs, groups | produce, consume, fence, commit | offset taken before the lock, check-then-act dedup | exactly once, whole transactions, nothing skipped |
| Idempotency (`service/idempotency.rs`) | processed ids, capacity | is_processed, mark_processed, evict, process | check-then-act, eviction | handler runs once per id |
| Event log (`log/event_log.rs`) | log file, event store, read model | append, replay, apply, rebuild | torn lines, retries, a read model that lags behind | replay reproduces the state, totals add up |
| Saga, outbox (`service/saga.rs`) | running sagas, messages, timeouts | start, next_action, step_succeeded, step_failed, ... | late or repeated reports, retry limit | ends, whole or undone |
| Choreography (`service/choreography.rs`), projector (`service/distributed_state.rs`) | balances, processed ids, states, view | event handlers | redelivery, reordering, lost updates | money conserved, outcome true, view newest |
| Ring buffer, histogram (`log/ring_buffer.rs`) | slots, two sequences; atomics | claim, publish, pop; record, reset | sequence published before the slot; overlapping reset | items in order; percentiles true |
| Concurrency primitives (`service/concurrency.rs`) | balance and condvar, queue | wait_and_debit, notify, enqueue, dequeue | one wake-up for many waiters | nobody sleeps through |
| Deadlock detector (`service/advanced.rs`) | owners, waits | acquire, wait_for, release, detect_cycle | stale waits, hash-map order | deadlocks are reported |
| Identity (`service/identity_service.rs`) | parties, identifiers, index | create, add, replace, query | three locks in a row, check then replace | history can be followed |
| RBAC (`rbac.rs`) | role bindings | bind, unbind, can, export_audit | check then bind | no escalation |
| Chart of accounts (`domain/coa.rs`) | accounts with parents | add, deactivate, validate | any order of parents and children | no circle |

The handlers of the API call the account service and the journal functions
directly, under one lock at a time, and run on the worker threads of the
server; the ledger service does the same for its callers.  Account operations
are the only synchronisation between requests for the same money.  Event bus,
event log, sagas and the choreographed transfer are libraries of the crate:
the API does not call them, and what drives them is not in the repository.

## 2. Modules

| Module | Models | State and actions |
|---|---|---|
| `Totals` | - | `Total(S, f)`: the sum of a function over a finite set, as the cardinality of a set of tokens, so that it can be reasoned about without recursion |
| `AtomicAccount` | what an account promises | `balance`, `available`; one step per operation |
| `Account` | `domain/account.rs` | one action per atomic access: `DebitLoad`, `DebitCas`, `DebitSub`, ... ; `Start` is the amount and status check each operation begins with; `pc`, `amt`, `seen` are the locals of a call; `raced` records that a `release_hold` met a call between its two writes |
| `Journal` | `domain/journal.rs`, reports of `extensions.rs` | operators only: legs, `IsValidEntry`, `ReverseLegs`, `ValidateAll`, `TrialBalance` |
| `AccountBook` | `service/account_service.rs` | `registered`, `balance`, `status`; account operations by identifier as single steps |
| `LedgerService` | `service/ledger_service.rs`, over `Journal` and `AccountBook` | `RecordEntry` and `ReverseAppend` are the blocks under the write lock, `ApplyLeg` one turn of the loop over the legs, `CommitTransaction` the last block; `applied` is the loop variable; `failed` records the entries whose application ended in an error |
| `TransferApi` | the money-moving handlers of `api/mod.rs`, over the same two | one action per lock section of `transfer` and `reverse_journal_entry`; `create_account`, `debit_account`, `credit_account`, `set_account_status` are one action each |
| `CircuitBreaker` | `CircuitBreaker` of `service/resilience.rs` | `AllowClosed`, `AllowOpen`, `AllowHalfOpen`; the two and three steps of the record functions |
| `HashChain` | `log/hash_chain.rs` | operators over a sequence of blocks; the hash of a block is the record of what is hashed, hence injective |
| `Persistence` | `persist_after_mutation`, `restore_from_store`, `store/mod.rs`, over `HashChain` | handlers change memory, then `CopyAccount`, `CopyJournal`, `CopyChain` take the copy; `tasks` is, for every detached task, what it still has to write, `TaskWrites` and `TaskFails` are its steps; `accountRows`, `journalRows` and `blockRows` are the tables; `Restart` is a crash and the next start |
| `Idempotency` | `service/idempotency.rs` | operators over the sequence of processed ids, oldest first |
| `EventBus` | `log/event_bus.rs`, `service/event_bus_wiring.rs`, over `Idempotency` | one action per atomic access or critical section; `frame[t]` is what a thread is doing; `sent` records the `send` calls of the open and of the committed transactions |
| `EventLog` | `log/event_log.rs` | `Process`, `LogEvent`, `LogEventFails`, `Finish`, `LogRestart`; `Project` gives the read model one event of the store at a time, whenever it gets to it; the file is a sequence of lines with a clean or unfinished end |
| `Saga` | `service/saga.rs` | the methods of orchestrator, outbox and timeout handler, put together by a driver (`Drive`), a publisher (`Send`) and participants; the transport refuses a message as often as it is offered (`PublishFails`) |
| `Choreography` | `service/choreography.rs`, `service/distributed_state.rs` | `bus` is everything published; each map access of the account service is a step; amounts are any integers, as `initiate_transfer` checks no sign |
| `RingBuffer`, `Histogram` | `log/ring_buffer.rs` | one step per atomic or slot access |
| `Waiting` | `TransferCondition`, `FairTransferQueue` | critical sections; sleeping, awake and woken threads |
| `Resilience` | `Bulkhead`, `TokenBucket` | load and compare-and-swap; refill in ticks |
| `Signals` | `GoldenSignals`, `IncidentDetector` | one step per counter, of record, reset and check |
| `LockGraph` | `DeadlockDetector` | what is recorded beside what is really locked; `DetectCycle` is the search itself, under every iteration order |
| `Rbac` | `rbac.rs`, `bind_role` | check and bind as two steps; the permission tables of `RbacEngine::new` |
| `Identity` | `service/identity_service.rs` and the identifier handlers | one step per lock |
| `ChartOfAccounts` | `domain/coa.rs` | `AddAccount`, `Deactivate`; the walk of `validate_no_circular_ref` |
| `Coordination` | - | composes `Saga`, `Choreography` and `CircuitBreaker`, with the fairness of the first and the last; one in focus per behaviour, since they share no state |
| `Storage` | - | composes `Persistence` and `EventLog` in the same way |
| `Standalone` | - | composes the nine modules from `RingBuffer` to `ChartOfAccounts` in the same way |
| `MC*` | - | constants and symmetry for TLC |
| `*Proofs` | - | theorems and their lemmas |

`LedgerService` and `TransferApi` use accounts through `AccountBook`, in which
a debit or credit is one step.  That step is justified by `Account`: without a
racing `release_hold` the lock-free account implements `AtomicAccount`
(theorem `Linearizable`).  A call that was admitted before a status change and
finishes after it is ordered before the change.  Holds are not part of
`AccountBook`; `Persistence` has them.

Definitions named in "mutants" of `PROJECT.json` (`DebitCasBlind`,
`CommitEarly`, ...) are deliberately wrong variants of an action, kept to show
that each property notices such a mistake; no specification uses them.

### Abstractions

* Identifiers, descriptions, timestamps, responses, metrics and log lines are
  left out unless a property is about them.  A CRITICAL log line that reports
  money is the history variable `lost` or `minted` of `TransferApi`.
* `i64::MAX` is the constant `I64Max` (`MaxCents`, `CreditLimit`);
  `checked_add`, `saturating_add` and the wrapping `fetch_sub` are modelled
  against it.  The sums of `JournalEntry::new` are `i128` and modelled as exact.
* Legs are those of a release build: the debug assertions of `EntryLeg` are
  compiled out and a non-positive amount becomes 0.  `ChartOfAccounts` is the
  debug build, the one in which `add_account` refuses anything.
* `create_account` accepts any initial balance, a negative one too, and so do
  `TransferApi` and `Account`; `MoneyConserved` sums balances of either sign.
* All atomics of an account are SeqCst, so interleaving single accesses is
  exact.  The histogram's are relaxed, but each is looked at by itself.  A read
  of a ring-buffer slot that is not written yet is undefined and modelled as
  every value the slot can give: uninitialised, the previous lap, a mixture.
* `failure_count` of the breaker is kept up to the threshold, the only value
  it is compared with, and time is reduced to "recent" and "cooled".  The
  token bucket counts in fractions of a token and ticks of a clock.
* The hash chain is, in `TransferApi`, the list of entry numbers appended to
  it; `Persistence` has the blocks themselves, under `redact` too.
* Hash functions are injective.  The database keeps what a write was told to
  keep; a write may fail without effect.
* The driver of a saga is not in the repository.  `CompensationComplete` is the
  method as it is, without a check of the status; that the driver calls it for
  a saga that is compensating, when every compensation was answered, is a
  condition of `Drive`.
* The transport of the choreographed transfer may delay, repeat and reorder.
  The participants of a saga execute a message once and answer every time.

### History variables

Several guarantees of this code hold only while certain calls do not overlap,
because the code checks and acts under separate locks.  The models record such
overlaps (`orderly`, `overlaps`, `overlapped`, `raced`, `muddled`, `stray`,
`stale`, `passedOver`, `evicted`), and the properties say what holds without one, or
name exactly what one costs.  No action reads a history variable.

## 3. Runs

| Run | Configuration | Shows |
|---|---|---|
| `account_cas` | 3 threads, amounts -1 to 2, balance 2, `I64Max` 3, no `release_hold` | `NoHalfDoneOperation` and the refinement `ImplementsAtomicAccount` |
| `account_all_ops` | 2 threads, all operations, fair | `NeverOverdrawn`, under the release race too; `HeldNonNegative` up to that race; `ClosedDrains` |
| `ledger_service` | 2 callers, 2 transactions, 3 numbers, an unknown account, refused and compound entries | `JournalSound` (no alarm of validate_all, ordered numbers, mirrored reversals, an even trial balance), `BalancesFollowJournal`, `CommittedMeansApplied` |
| `transfer_api` | 2 threads, 2 accounts opened with -1 or 1, 3 requests, `I64Max` 2 | `MoneyConserved`, `AuditTrailComplete` |
| `storage` | store: 2 threads, 2 accounts, 3 requests, 2 starts; log: 3 commands, 4 runs, 3 starts, `MaxCents` 5 | `StoreCatchesUp`, `StoredPrefix`, `AlarmsExplained`, `TamperingDetected`; `LossBounded`, `OneRunPerCommand`, `ModelAddsUp` |
| `event_bus` | 2 threads, 2 keys on 2 partitions, 5 calls, a table of one id | `ExactlyOnce`, `TransactionsWhole`, `NothingSkipped`, `HandledOnce` |
| `coordination` | a saga of 2 steps, 2 retries, 2 crashes of the publisher; 2 transfers, one of -1 to nobody, 2 handlers, 4 deliveries; 3 requests behind a breaker of threshold 2; fair | `StepsInOrder`, `AllOrNothing`, `SagaEnds`; `MoneyConserved`, `CompletedMeansCredited`, `ViewIsNewest`; `OpenHasCause`, `OpenRecovers` |
| `standalone` | see `MCStandalone.cfg` | `DeliveredInOrder`, `HistogramTruthful`, `NobodySleepsThrough`, `LimitsHold`, `DeadlocksReported`, `NoEscalation`, `IdentityTraceable`, `HierarchyEnds`, `SignalsTruthful` |

Four more runs end in a violation, of what the code's own comments say; they
are the findings of section 4.

| Run | Configuration | Refuted |
|---|---|---|
| `release_race` | as `account_all_ops` | `AvailableWithinBalance`: the available funds never exceed the balance |
| `ledger_atomic` | as `ledger_service` | `EntriesAtomic`: an entry is applied as a whole or not at all |
| `redact_deadlock` | 1 thread, 1 account, fair | `RequestsAnswered`: every request returns |
| `refund` | 1 transfer to nobody, 1 handler, 3 deliveries | `RefundedOnce`: a debit is given back once |

Bounds.  Three threads are enough for one to be between its two writes while
two others race on the same compare-and-swap; two suffice for every race
between lock sections, which involve pairs of requests.  Amounts include 0 and
a negative one because the checks on them differ between modules.  `I64Max` of
2 or 3 puts the overflow exits within reach of two credits.  Three journal
entries allow an entry, a second one and a reversal of either, or a reversal of
a reversal.  In `storage` three requests are a creation, a change and a
save that overlaps another, on either side of a restart.  Five calls on the bus
are a transaction with two messages and another thread's call, or two
producers, a consumer and a second delivery; a deduplication table of
one id evicts with every second one.  Three starts of the event log leave an
unfinished line, an entry glued to it and a replay of both.  Two steps make a
saga with something to undo, and two retries one whose message is given up.  A ring of two slots is lapped twice by five
pushes.  Three records overflow a list of two samples.
Every bound is a constant (`Max...`) used in a guard.  The systems stop when
their bounds are used up, the accounts are closed or the sagas have ended, so
the runs do not check deadlock.

Fairness.  `Account!FairSpec` assumes that a thread inside a call keeps being
scheduled (`WF` of its steps); nobody is obliged to call anything.
`Coordination!BreakerFairness` assumes the same of admitted handlers, that time
passes, and that clients keep sending requests: without requests the code
never leaves Open, because only `allow_request` looks at the clock.
`Persistence!FairSpec` assumes that worker threads keep running, not that tasks
do.  `Coordination!SagaFairness` assumes a driver and a publisher that keep
working and a clock that lets timeouts expire; messages may be refused up to
the retry limit and beyond any hope, and answers lost.  A saga one of whose
compensations was refused `max_retries` times does not end, and `SagaEnds`
says so (`GivenUp`): `retryable` leaves the message out and nothing else looks
at it.

Symmetry (threads, accounts, transactions) is used only in runs without
liveness properties; the refinement of `account_cas` is a safety property.

## 4. What the code does that a reader may not expect

The findings, each a run in which what the code says of itself is violated:

* `redact_deadlock`: with a store configured, a request to redact a block never
  returns and blocks every later user of the hash chain.
* `release_race`: `release_hold` loads two atomics that a debit writes one
  after the other.  A debit in between makes its guard pass for funds that were
  never on hold, and the available funds end above the balance
  (`account.rs:373`; the comment of the guard says this cannot be).  A second
  `release_hold` alone does not do it, since the compare-and-swap of the first
  then fails.  `HeldNonNegative` and the account theorems say what holds up to
  this race.
* `ledger_atomic`: `record_entry` and `reverse_entry` stop at the leg that fails
  and roll nothing back, although the header of `ledger_service.rs` says
  "either both succeed, or both fail with rollback".  `BalancesFollowJournal`
  is about the accounts no such entry names.
* `refund`: an `AccountDebited` event without destination refunds each time it
  is delivered, although the header of `choreography.rs` says that every
  consumer deduplicates.  `MoneyConserved` counts the repeated refunds.

Modelled as it is, visible in a property's exceptions or in a definition:

* `transfer` journals the destination as debited, and `reverse_journal_entry`
  flips those legs: reversing a transfer moves the money the same way again
  (`api/mod.rs:1342`).  Numbers are taken before the journal lock, so the
  journal of the API is not in their order (`api/mod.rs:604`).
* HalfOpen refuses no probe, since `record_success` closes the circuit before
  the limit is met (`resilience.rs:108`), and a failed probe reopens only if
  no success reset the count (`resilience.rs:136`).
* Saves overtake each other, because nothing orders the detached tasks; a
  restart restores balances but neither holds, statuses, journal nor
  `journal_seq` (`LoadAccounts`, `Restart`), and block 1 no longer links to
  the genesis block (`AlarmsExplained`).  A transfer whose credit fails
  returns before it saves, and so does a reversal whose second leg fails
  (`api/mod.rs:1353`); `Persistence` has the transfer, with the credit and its
  rollback as one step, and leaves reversals to `TransferApi`.
* `produce` of one number by two threads at once appends it twice; offsets may
  enter a partition out of order; overlapping transactions lose messages.  The
  messages of one `commit` become visible one by one.
* `batch_verify_parallel` panics when its last chunk starts beyond the end
  (11 blocks in 5 chunks, `hash_chain.rs:383`); `parallel_verify_chain`, its
  only caller, never asks for such chunks, which `TamperingDetected` includes.
* `WriteAheadLog::create` appends behind an unfinished line and starts its
  sequence at 1 again; replay drops the line and goes on.
* `step_succeeded` and `step_failed` do not look at the status of the saga or
  the step they are about, so an answer behind a timeout counts for another
  step (`stray`).
* `initiate_transfer` takes a negative amount, which debits nothing and takes
  from the destination; `CompletedMeansCredited` promises only accounts that no
  such transfer touches that they are not overdrawn.
* A compensation refused `max_retries` times leaves its saga Compensating.
* `claim` stores the producer sequence before `publish` writes the slot.
* `try_consume_n` gives nothing back when it fails half-way.
* `DeadlockDetector::acquire` leaves the wait it ends on record, which may
  report a cycle nobody is in.
* `grant_temporary_audit` grants until somebody revokes it; a request without
  subject header is the default admin's.
* The p99 of the golden signals is the sample of rank (n - 1) * 99 / 100 rounded
  down, so of up to a hundred samples the slowest never shows; handlers record
  only successes, so the error rate of the API stays 0.
* `verify_identifier` looks only at active identifiers, so one that waits for
  verification is not found; two replacements of one identifier leave two
  active versions.

## 5. Proofs

All theorems hold for every value of the constants under the named
assumptions of the module that declares them.  Each inductive invariant was
checked with TLC on small instances before it was proved.

* `TotalsProofs`: a total changes by as much as the one value that changed
  (`TotalChange`), grows by the value of a new key (`TotalExtend`), and is the
  same under a renaming of the keys (`TotalRenamed`); from the library's
  theorems on cardinality.
* `AccountProofs`.  Type correctness and `NeverOverdrawn` need `LocalOK`: the
  value a compare-and-swap expects is one the amount was checked against.
  `HeldNonNegative` is not inductive either: a `release_hold` about to swap
  must know that its check still holds.  `ReleaseChecked` says so, and holds
  for all four operations until the race of section 4 (`raced`).  From the same
  invariant, and the premise `NoReleaseRace` that `release_hold` is not used
  together with what moves the balance, follow `OperationsComplete` and the refinement
  `Linearizable`: `StepEffect` shows for each atomic access that it is
  invisible to the atomic account or is the one step at which the operation
  takes effect (the swap of the available funds, for debit and credit alike).
* `TransferApiProofs`.  `MoneyConserved` relates four sums.  `CoreInv` adds to
  the types that the two legs of every entry in hand or in the journal are
  opposite and equal (`EntriesOK`), without which the two halves of a reversal
  would not cancel; `UnregisteredEmpty` is needed for `create_account`.
  `StepConserves` then has one case per lock section.  `AuditTrailComplete`
  needs that numbers in hand, in the journal and in the chain are below the
  counter and that no two requests hold the same one.
* `LedgerServiceProofs`.  `CoreInv` adds to the types what a caller between two
  lock sections holds (`InHand`): an entry of the journal, no more legs of
  which were applied than it has.  `JournalSound` follows from `EntriesSound`,
  which is about single entries; that the trial balance is even rests on
  `MovedOn`, the sum over the legs of one account and side: summed over the
  accounts it counts every leg once (`CountsParts`, `TotalOfSizes`).
  `BalancesFollowJournal` speaks of entries as a whole.  `LegsExplain` says it leg
  by leg, at every step, and `Accounted` that an entry nobody is working on and
  that did not fail has all its legs applied; `AllOnAccount` then makes the
  legs applied on an account those of the journal.
* `StandaloneProofs`: the circuit breaker and six components of `Standalone`,
  each from its own specification (`BreakerSpec`, `RbacSpec`, `LimitsSpec`,
  `RingSpec`, `WaitingSpec`, `IdentitySpec`, `ChartSpec`; the components share
  no variables).
  `OpenHasCause` is strengthened by: a request about to open the circuit has
  left the time of its failure behind.  `NoEscalation` needs that whoever passed the
  check of a `bind_role` that is still to write was appointed.  `LimitsHold`: a
  bulkhead caller swaps only a count it loaded below the limit; the tokens
  taken since any grant and those still there are no more than a full bucket
  and the refill up to `last_refill`.  `DeliveredInOrder`: a lap of slots from
  the first unpublished sequence still holds the lap before (`SlotsHeld`), so
  the unread ones hold their items; `MinCapacity` is at most 65536 because
  powers of two are out of the provers' reach and are listed.
  `NobodySleepsThrough`: a thread is asleep or about to look, not both, and
  the requests are numbered as they came, taken ones first.
  `IdentityTraceable`: an identifier is in one place of the index or in one
  call that will put it there (`Filed`), and every first version has a line,
  the one set closed under replacement (`IsLine`), with the right number of
  active versions (`Counted`).  A replacement adds to one line and leaves the
  others alone (`GrownLine`, `OtherLine`).  `HierarchyEnds`: the accounts can be
  ranked so that a parent ranks below its children (`ChartInv`).  An added
  account may already be named as a parent, so all accounts but those its own
  walk meets move up (`RankAdded`).  A walk then goes down and meets no account twice, and since
  there are finitely many, `Cardinality(CoaIds)` turns are enough to come to
  the root, which is why `validate_no_circular_ref` refuses no more than it must.
* `SagaProofs`: the two ways to carry out a transfer over several services,
  each from its own specification (`SagaSpec`, `ChoreoSpec`).
  `StepsInOrder` is inductive with the types (`OrderInv`).
  `AllOrNothing` speaks of sagas at rest.  `SagaInv` says what holds in between:
  the participants' memory agrees with the outbox and with what was done and
  undone (`Executed`, `Truthful`), and for a saga that was told of nothing but
  its open step (`Told`) the steps before it are done, its answer is on its way
  or made the saga compensate, and exactly the done steps are asked to be
  undone.
  `CompletedMeansCredited` and `ViewIsNewest` need that events are true and
  told apart by their stamps (`EventsTrue`) and that what is reported comes
  from one (`ReportsTrue`).  `MoneyConserved` speaks of rest between handlers
  only and is not inductive.  `MoneyInv` says it at every step: a debit or
  credit written and not yet marked counts as done (`Balanced`), and, until two
  handlers race, they touch different accounts and transfers (`Apart`) and what
  one read is still so when it writes (`Fresh`).  That no account is overdrawn
  needs that what a handler is about to write is at least zero too (`Solvent`).
* `EventBusProofs`.  `CoreInv` says what a thread's frame holds at each label
  (`LocalOK`), what it uses there (`UseOK`), and that two threads in the same
  session, registration, sequence number or message have been noticed
  (`Exclusive`).  Each promise of the bus then has an invariant of its own.
  `HandledOnce`: what the handler succeeded with is in the table, about to be,
  or evicted (`Remembered`), and it runs again for an id only after an overlap
  or an eviction (`RunAgain`).  `NothingSkipped`: what a consumer has handled
  and what it has in hand leave no gap in the partition (`Covered`,
  `ReaderOK`), although offsets are not in order there.  `ExactlyOnce`: an id
  is with one thread, or in the log at one place and acknowledged or about to
  be (`OnceInv`).  `TransactionsWhole` compares the log with the recorded `send`
  calls; `TxInv` says it at every step of `commit`: the pending messages are
  what was sent and not aborted, and the log, the message being produced and
  the rest of the batch are what was committed, in this order.

* `PersistenceProofs`: what survives a crash, in the store (`Spec` of
  `Persistence`) and in the event log (`LogSpec`).
  - `StoredPrefix` needs `StoreInv`: what a task has left to write of its copy
    continues what is stored, although other tasks write in between and any of
    them may fail.
  - `TamperingDetected` is a lemma about chains of any length and asks of the
    server's chain only that its blocks are numbered; that the batch verifier
    agrees with `verify_chain` rests on the arithmetic of the chunk borders.
  - `AlarmsExplained` needs `LinkInv`: `verify_chain` is happy now only if what
    the next start will read is linked too, so the invariant is about all that
    is stored or will be (`Kept`), and says that it is what memory has, unless a
    redaction is at work, which holds the lock.  That a redaction leaves a
    linked chain is shown by induction over the loop (`IsRedaction`).
  - `StoreCatchesUp` speaks of rest; `SaveInv` says it at every step: until two
    saves overlap, one runs at a time (`Lone`), and for each account the newest
    balance is stored, in the task's copy, or about to be copied (`Safe`),
    unless a transfer is between its debit and its credit (`Midway`).
  - `LossBounded` counts what is acknowledged and not replayed; `LossInv` also
    counts the torn line that the next entry will be glued to.  It rests on
    `LogType`: no event is in the file or the writer's buffer twice (`Once`),
    and all are of runs that were (`Past`).  `OneRunPerCommand` needs the part
    that a command being run has no event in the store.
  - `ModelAddsUp` is a fact about the fold of any sequence of events
    (`RebuildAddsUp`), by induction over it, and about one more (`ApplyAddsUp`);
    `ModelInv` ties it to what the read model was given, which lags behind the
    store.

Induction over data.  The library's induction theorems take an operator as a
parameter, which no installed prover instantiates.  `Induct` states induction
over the natural numbers for a set instead (from `WFMin`, the minimum of a
well-founded relation), and serves the recursive functions of `HashChain` and
`EventLog`: `IsRun`, `IsReplay` and `IsRedaction` name the function that a `LET`
defines, and the set is that of the indices at which the claim holds.

Model-checked only:

* the liveness properties (`ClosedDrains`, `OpenRecovers`, `SagaEnds`, and
  `RequestsAnswered`, which is refuted), which need fairness and `ENABLED`;
* `DeadlocksReported`, about the search of the detector, a recursive operator,
  in whose module the provers lose their arithmetic;
* `HistogramTruthful` (powers of two and sums of buckets) and `SignalsTruthful`
  (the rank of a sorted list).

## 6. Not modelled

* Signing and hashing primitives, decimal money arithmetic, formatting,
  read-only queries and reports of the API: values without state.
* Server start-up, load generators, thread pinning, benchmarks, production
  checklists and simulations: no state whose interleavings matter.
* `SnapshotStore` of the event log, which nothing fills or reads, and
  `check_and_mark` of the idempotency service, which only tests call: the
  table of `IdempotentHandler` is private.  It would pass the capacity check by.
* Which of two overlapping registrations of one producer is valid afterwards
  (`event_bus.rs:189`): the two steps are modelled, but nothing asks for it.
* Sequence barrier and dependency graph of the ring buffer,
  `AsyncFlushBuffer`, validation pipeline, analytics counter, saturation
  gauge, chaos agent, the sample histogram and the in-process bus of
  `advanced.rs`: sequential, or one value under one lock.
* `persist_if_configured` and `CommandDispatcher` have no caller and no method.
* Power failures that lose flushed data, and damage to stored data other than
  the forgeries of `TamperingDetected`.
