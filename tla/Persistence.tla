----------------------------- MODULE Persistence -----------------------------
(***************************************************************************)
(* How the server survives a restart: persist_after_mutation and           *)
(* restore_from_store of src/src/api/mod.rs over src/src/store/mod.rs.     *)
(* A handler changes the accounts, the journal and the hash chain in       *)
(* memory, copies them (one account after the other, then the journal,     *)
(* then the chain) and leaves the copy to a detached task, which writes    *)
(* row after row.  Nothing waits for a task; its errors are dropped.       *)
(* The store is configured; requests refused by the breaker or the rate    *)
(* limiter change nothing and are left out, and so is reverse_journal_     *)
(* entry, which saves as transfer does.                                    *)
(*                                                                         *)
(* History: orderly holds while no save began during another, no write     *)
(* failed and no transfer gave up half-way; chainLost once a start-up      *)
(* could not load the chain.                                               *)
(***************************************************************************)
EXTENDS HashChain, FiniteSets, SequencesExt

CONSTANTS
    Threads,
    Ids,                \* accounts
    Initial,            \* initial_balance_cents of create_account
    SaveLast,           \* journal entries a save writes (10)
    MaxRequests,        \* bound on requests
    MaxStarts,          \* bound on start-ups of the server
    Note,               \* data of the chain blocks that are not transfers
    NoThread

ASSUME PersistenceAssumption ==
    /\ IsFiniteSet(Threads) /\ IsFiniteSet(Ids)
    /\ Initial \in Nat /\ SaveLast \in Nat \ {0}
    /\ MaxRequests \in Nat /\ MaxStarts \in Nat \ {0}
    /\ NoThread \notin Threads
    /\ GenesisData \notin Ids \cup {Note, Redacted}

VARIABLES
    accounts,           \* account map: id to balance, available and status
    journal,            \* Vec<JournalEntry>: <<start, number>>
    journalSeq,
    blocks,             \* HashChain::blocks
    lock,               \* the thread that keeps the hash_chain lock
    pc,                 \* the step of each thread
    move,               \* source, destination and entry number of its transfer
    copy,               \* what its save has copied so far
    tasks,              \* detached tasks: the writes each has left
    accountRows, journalRows, blockRows,        \* the database
    starts, requests,
    orderly, chainLost

memory == <<accounts, journal, journalSeq, blocks, lock>>
history == <<orderly, chainLost>>
rows == <<accountRows, journalRows, blockRows>>
bound == <<starts, requests>>
locals == <<pc, move, copy>>
vars == <<accounts, journal, journalSeq, blocks, lock, pc, move, copy,
          tasks, accountRows, journalRows, blockRows, starts, requests, orderly, chainLost>>

Empty == [x \in {} |-> 0]
NoCopy == [accounts |-> <<>>, journal |-> <<>>]
NoMove == <<>>

Saving == {"accounts", "entries", "blocks"}

Init ==
    /\ accounts = Empty
    /\ journal = <<>>
    /\ journalSeq = 0
    /\ blocks = NewChain(1)
    /\ lock = NoThread
    /\ pc = [t \in Threads |-> "idle"]
    /\ move = [t \in Threads |-> NoMove]
    /\ copy = [t \in Threads |-> NoCopy]
    /\ tasks = <<>>
    /\ accountRows = Empty /\ journalRows = {} /\ blockRows = Empty
    /\ starts = 1
    /\ requests = 0
    /\ orderly = TRUE
    /\ chainLost = FALSE

GoTo(t, label) ==
    /\ pc' = [pc EXCEPT ![t] = label]
    /\ UNCHANGED <<move, copy>>

Request(t) ==
    /\ pc[t] = "idle"
    /\ requests < MaxRequests
    /\ requests' = requests + 1
    /\ UNCHANGED starts

(* persist_after_mutation is entered: does another save run? *)
SaveFrom(t) ==
    /\ GoTo(t, "accounts")
    /\ orderly' = (orderly /\ tasks = <<>>
                           /\ \A u \in Threads \ {t} : pc[u] \notin Saving)
    /\ UNCHANGED chainLost

NewAccount(b) == [balance |-> b, available |-> b, status |-> "Open"]

(* An account with more or less on it, and with another status. *)
Moved(account, d) ==
    [balance |-> account.balance + d, available |-> account.available + d,
     status |-> account.status]
Held(account, d) ==
    [balance |-> account.balance, available |-> account.available - d,
     status |-> account.status]
Marked(account, new) ==
    [balance |-> account.balance, available |-> account.available, status |-> new]

Move(id, d) == accounts' = [accounts EXCEPT ![id] = Moved(@, d)]

(* A table, or the account map, with one entry written. *)
Upsert(table, key, value) ==
    [x \in DOMAIN table \cup {key} |-> IF x = key THEN value ELSE table[x]]

Usable(id) == id \in DOMAIN accounts /\ accounts[id].status = "Open"

-----------------------------------------------------------------------------
(* Handlers with one change of an account. *)
CreateAccount(t, id) ==
    /\ Request(t)
    /\ id \notin DOMAIN accounts \cup DOMAIN accountRows
    /\ accounts' = Upsert(accounts, id, NewAccount(Initial))
    /\ SaveFrom(t)
    /\ UNCHANGED <<journal, journalSeq, blocks, lock, tasks, rows>>

(* Mutant: the change is answered without a save. *)
DebitAccountUnsaved(t, id) ==
    /\ Request(t)
    /\ Usable(id) /\ accounts[id].available >= 1
    /\ Move(id, -1)
    /\ UNCHANGED <<journal, journalSeq, blocks, lock, locals, tasks, rows, history>>

DebitAccount(t, id) ==
    /\ Request(t)
    /\ Usable(id) /\ accounts[id].available >= 1
    /\ Move(id, -1)
    /\ SaveFrom(t)
    /\ UNCHANGED <<journal, journalSeq, blocks, lock, tasks, rows>>

CreditAccount(t, id) ==
    /\ Request(t)
    /\ Usable(id)
    /\ Move(id, 1)
    /\ SaveFrom(t)
    /\ UNCHANGED <<journal, journalSeq, blocks, lock, tasks, rows>>

StatusChange == {<<"Open", "Frozen">>, <<"Frozen", "Open">>,
                 <<"Open", "Closed">>, <<"Frozen", "Closed">>}

SetAccountStatus(t, id, new) ==
    /\ Request(t)
    /\ id \in DOMAIN accounts
    /\ <<accounts[id].status, new>> \in StatusChange
    /\ accounts' = [accounts EXCEPT ![id] = Marked(@, new)]
    /\ SaveFrom(t)
    /\ UNCHANGED <<journal, journalSeq, blocks, lock, tasks, rows>>

(* place_hold and release_hold do not save. *)
PlaceHold(t, id) ==
    /\ Request(t)
    /\ Usable(id) /\ accounts[id].available >= 1
    /\ accounts' = [accounts EXCEPT ![id] = Held(@, 1)]
    /\ UNCHANGED <<journal, journalSeq, blocks, lock, locals, tasks, rows, history>>

ReleaseHold(t, id) ==
    /\ Request(t)
    /\ Usable(id) /\ accounts[id].available < accounts[id].balance
    /\ accounts' = [accounts EXCEPT ![id] = Held(@, -1)]
    /\ UNCHANGED <<journal, journalSeq, blocks, lock, locals, tasks, rows, history>>

-----------------------------------------------------------------------------
(* Handlers that use the chain. *)
ChainFree == lock = NoThread

(* coa_deactivate closes the account, then appends a block. *)
CoaDeactivate(t, id) ==
    /\ Request(t)
    /\ id \in DOMAIN accounts
    /\ <<accounts[id].status, "Closed">> \in StatusChange
    /\ accounts' = [accounts EXCEPT ![id] = Marked(@, "Closed")]
    /\ GoTo(t, "deactivate")
    /\ UNCHANGED <<journal, journalSeq, blocks, lock, tasks, rows, history>>

CoaDeactivateChain(t) ==
    /\ pc[t] = "deactivate" /\ ChainFree
    /\ blocks' = AppendBlock(blocks, Note, starts)
    /\ SaveFrom(t)
    /\ UNCHANGED <<accounts, journal, journalSeq, lock, tasks, rows, bound>>

(* commit_transaction and reject_transaction append a block and save       *)
(* nothing.                                                                *)
CommitTransaction(t) ==
    /\ Request(t)
    /\ ChainFree
    /\ blocks' = AppendBlock(blocks, Note, starts)
    /\ UNCHANGED <<accounts, journal, journalSeq, lock, locals, tasks, rows, history>>

(* transfer of 1, as in TransferApi. *)
TransferStart(t, f, g) ==
    /\ Request(t)
    /\ f \in DOMAIN accounts
    /\ journalSeq' = journalSeq + 1
    /\ pc' = [pc EXCEPT ![t] = "chain"]
    /\ move' = [move EXCEPT ![t] = <<f, g, journalSeq + 1>>]
    /\ UNCHANGED <<accounts, journal, blocks, lock, copy, tasks, rows, history>>

TransferChain(t) ==
    /\ pc[t] = "chain" /\ ChainFree
    /\ blocks' = AppendBlock(blocks, move[t][1], starts)
    /\ GoTo(t, "journal")
    /\ UNCHANGED <<accounts, journal, journalSeq, lock, tasks, rows, bound, history>>

TransferJournal(t) ==
    /\ pc[t] = "journal"
    /\ journal' = Append(journal, <<starts, move[t][3]>>)
    /\ GoTo(t, "debit")
    /\ UNCHANGED <<accounts, journalSeq, blocks, lock, tasks, rows, bound, history>>

Source(t) == move[t][1]
Destination(t) == move[t][2]

Return(t) ==
    /\ pc' = [pc EXCEPT ![t] = "idle"]
    /\ move' = [move EXCEPT ![t] = NoMove]
    /\ UNCHANGED copy

TransferDebit(t) ==
    /\ pc[t] = "debit"
    /\ IF Usable(Source(t)) /\ accounts[Source(t)].available >= 1
       THEN Move(Source(t), -1) /\ GoTo(t, "credit")
       ELSE UNCHANGED accounts /\ Return(t)
    /\ UNCHANGED <<journal, journalSeq, blocks, lock, tasks, rows, bound, history>>

(* A failed credit is rolled back and answered without a save; the         *)
(* rollback fails when the source can no longer be used.                   *)
TransferCredit(t) ==
    /\ pc[t] = "credit"
    /\ \/ /\ Usable(Destination(t))
          /\ Move(Destination(t), 1)
          /\ SaveFrom(t)
       \/ /\ ~Usable(Destination(t))
          /\ IF Usable(Source(t)) THEN Move(Source(t), 1) ELSE UNCHANGED accounts
          /\ Return(t)
          /\ orderly' = FALSE
          /\ UNCHANGED chainLost
    /\ UNCHANGED <<journal, journalSeq, blocks, lock, tasks, rows, bound>>

(* redact_block keeps the lock while it saves: the last step of its save   *)
(* waits for the lock it holds itself.                                     *)
RedactBlock(t, index) ==
    /\ Request(t)
    /\ ChainFree
    /\ CanRedact(blocks, index)
    /\ blocks' = Redact(blocks, index)
    /\ lock' = t
    /\ SaveFrom(t)
    /\ UNCHANGED <<accounts, journal, journalSeq, tasks, rows>>

-----------------------------------------------------------------------------
(* persist_after_mutation: the accounts one by one, the journal, the chain.*)
Copied(t) == {copy[t].accounts[i].key : i \in DOMAIN copy[t].accounts}

CopyAccount(t, id) ==
    /\ pc[t] = "accounts"
    /\ id \in DOMAIN accounts \ Copied(t)
    /\ copy' = [copy EXCEPT ![t] =
                   [accounts |-> Append(@.accounts, [key |-> id, value |-> accounts[id]]),
                    journal |-> @.journal]]
    /\ UNCHANGED <<memory, pc, move, tasks, rows, bound, history>>

AccountsCopied(t) ==
    /\ pc[t] = "accounts"
    /\ DOMAIN accounts \subseteq Copied(t)
    /\ GoTo(t, "entries")
    /\ UNCHANGED <<memory, tasks, rows, bound, history>>

LastEntries(s) ==
    SubSeq(s, IF Len(s) > SaveLast THEN Len(s) - SaveLast + 1 ELSE 1, Len(s))

CopyJournal(t) ==
    /\ pc[t] = "entries"
    /\ pc' = [pc EXCEPT ![t] = "blocks"]
    /\ copy' = [copy EXCEPT ![t] = [accounts |-> @.accounts, journal |-> LastEntries(journal)]]
    /\ UNCHANGED <<memory, move, tasks, rows, bound, history>>

(* The task writes the accounts, the last entries from the newest on, and  *)
(* every block in order.                                                   *)
CopyChain(t) ==
    /\ pc[t] = "blocks" /\ ChainFree
    /\ tasks' = Append(tasks, [accounts |-> copy[t].accounts, blocks |-> blocks,
                               entries |-> Reverse(copy[t].journal)])
    /\ pc' = [pc EXCEPT ![t] = "idle"]
    /\ copy' = [copy EXCEPT ![t] = NoCopy]
    /\ move' = [move EXCEPT ![t] = NoMove]
    /\ UNCHANGED <<memory, rows, bound, history>>

-----------------------------------------------------------------------------
(* The detached tasks.  The blocks come last, so a task without any is     *)
(* done.                                                                   *)
Part(task) ==
    CASE task.accounts # <<>> -> "accounts"
      [] task.accounts = <<>> /\ task.entries # <<>> -> "entries"
      [] OTHER -> "blocks"

Without(task, part) ==
    [accounts |-> IF part = "accounts" THEN Tail(task.accounts) ELSE task.accounts,
     entries |-> IF part = "entries" THEN Tail(task.entries) ELSE task.entries,
     blocks |-> IF part = "blocks" THEN Tail(task.blocks) ELSE task.blocks]

Left(k, task) ==
    IF task.blocks = <<>> THEN RemoveAt(tasks, k) ELSE [tasks EXCEPT ![k] = task]

TaskWrites(k) ==
    LET task == tasks[k]
        part == Part(task)
        account == Head(task.accounts)
        block == Head(task.blocks)
    IN  /\ accountRows' = IF part = "accounts"
                          THEN Upsert(accountRows, account.key, account.value)
                          ELSE accountRows
        /\ journalRows' = IF part = "entries"
                          THEN journalRows \cup {Head(task.entries)}
                          ELSE journalRows
        /\ blockRows' = IF part = "blocks"
                        THEN Upsert(blockRows, block.index, block)
                        ELSE blockRows
        /\ tasks' = Left(k, Without(task, part))
        /\ UNCHANGED <<memory, locals, bound, history>>

(* Mutant: a block that cannot be written is skipped. *)
TaskFailsOn(k) ==
    /\ tasks' = Left(k, Without(tasks[k], Part(tasks[k])))
    /\ orderly' = FALSE
    /\ UNCHANGED <<memory, locals, rows, bound, chainLost>>

(* A failed write of an account or an entry is skipped; save_hash_chain    *)
(* returns at the first block it cannot write.                             *)
TaskFails(k) ==
    /\ tasks' = IF Part(tasks[k]) = "blocks"
                THEN RemoveAt(tasks, k)
                ELSE Left(k, Without(tasks[k], Part(tasks[k])))
    /\ orderly' = FALSE
    /\ UNCHANGED <<memory, locals, rows, bound, chainLost>>

-----------------------------------------------------------------------------
(* load_all_accounts: only the balance of a row is used. *)
LoadAccounts == [id \in DOMAIN accountRows |-> NewAccount(accountRows[id].balance)]

(* load_hash_chain: a new genesis block, then the stored blocks from 1 on, *)
(* ordered by index.                                                       *)
LoadChain(stamp) ==
    LET found == DOMAIN blockRows \ {0}
        At(i) == CHOOSE x \in found : Cardinality({y \in found : y <= x}) = i
    IN  NewChain(stamp) \o [i \in 1 .. Cardinality(found) |-> blockRows[At(i)]]

(* The process dies and starts again; each of the two loads may fail, and  *)
(* the journal and its counter are not loaded.                             *)
Restart(accountsLoaded, chainLoaded) ==
    /\ starts < MaxStarts
    /\ starts' = starts + 1
    /\ accounts' = IF accountsLoaded THEN LoadAccounts ELSE Empty
    /\ blocks' = IF chainLoaded THEN LoadChain(starts + 1) ELSE NewChain(starts + 1)
    /\ journal' = <<>>
    /\ journalSeq' = 0
    /\ lock' = NoThread
    /\ pc' = [t \in Threads |-> "idle"]
    /\ copy' = [t \in Threads |-> NoCopy]
    /\ tasks' = <<>>
    /\ orderly' = (orderly /\ tasks = <<>> /\ accountsLoaded)
    /\ chainLost' = (chainLost \/ ~chainLoaded)
    /\ move' = [t \in Threads |-> NoMove]
    /\ UNCHANGED <<rows, requests>>

Step(t) ==
    \/ CoaDeactivateChain(t)
    \/ TransferChain(t) \/ TransferJournal(t) \/ TransferDebit(t) \/ TransferCredit(t)
    \/ \E id \in Ids : CopyAccount(t, id)
    \/ AccountsCopied(t) \/ CopyJournal(t) \/ CopyChain(t)

Next ==
    \/ \E t \in Threads :
          \/ \E id \in Ids :
                \/ CreateAccount(t, id) \/ DebitAccount(t, id) \/ CreditAccount(t, id)
                \/ PlaceHold(t, id) \/ ReleaseHold(t, id) \/ CoaDeactivate(t, id)
                \/ \E new \in {"Open", "Frozen", "Closed"} : SetAccountStatus(t, id, new)
                \/ \E id2 \in Ids : TransferStart(t, id, id2)
          \/ CommitTransaction(t)
          \/ \E index \in 0 .. Len(blocks) : RedactBlock(t, index)
          \/ Step(t)
    \/ \E k \in DOMAIN tasks : TaskWrites(k) \/ TaskFails(k)
    \/ \E a, c \in BOOLEAN : Restart(a, c)

Spec == Init /\ [][Next]_vars

(* A worker thread keeps running; tasks, requests and crashes are free.    *)
FairSpec == Spec /\ \A t \in Threads : WF_vars(Step(t))

-----------------------------------------------------------------------------
Settled == tasks = <<>> /\ \A t \in Threads : pc[t] = "idle"

(* Once requests and tasks have come to rest, a restart would bring back   *)
(* every balance: the rows of the store agree with memory, provided no     *)
(* save began during another (persist_after_mutation does not order the    *)
(* tasks it spawns), no write failed and no transfer was rolled back.      *)
StoreCatchesUp ==
    orderly /\ Settled =>
        \A id \in DOMAIN accounts :
            /\ id \in DOMAIN accountRows
            /\ accountRows[id].balance = accounts[id].balance

(* The stored blocks are always an initial part of a chain, whatever       *)
(* writes fail and wherever the process dies: save_hash_chain writes in    *)
(* order and stops at the first error, and load_hash_chain relies on it.   *)
StoredPrefix == DOMAIN blockRows = 0 .. Cardinality(DOMAIN blockRows) - 1

(* verify_chain raises no alarm about a chain nobody tampered with, except *)
(* at block 1 after a restart: load_hash_chain replaces the genesis block  *)
(* that block 1 was linked to.  Redaction raises none.                     *)
AlarmsExplained ==
    ~chainLost => VerifyChain(blocks) \subseteq (IF starts > 1 THEN {1} ELSE {})

(* The chain with the data of one block replaced, and with its hash made   *)
(* to fit.                                                                 *)
Forgery(p) == IF p = 1 THEN Redacted ELSE GenesisData

Forged(p) ==
    [blocks EXCEPT ![p] = [index |-> @.index, prev |-> @.prev, data |-> Forgery(p),
                           stamp |-> @.stamp, hash |-> @.hash]]

Resealed(p) ==
    [blocks EXCEPT ![p] = Sealed(@.index, @.prev, @.prev, Forgery(p), @.stamp)]

(* persist_after_mutation is there "so the API response is never blocked": *)
(* every request that was accepted is answered, or dies with the process.  *)
RequestsAnswered == \A t \in Threads : pc[t] # "idle" ~> pc[t] = "idle"

(* Changed data is reported at its block, and at the next one when the     *)
(* block's own hash was recomputed to fit; the proof of a block convinces  *)
(* exactly when verify_chain has nothing against it; the batch verifier,   *)
(* on any number of chunks that stay within the chain, comes to the        *)
(* verdict of the sequential one as long as each block is hashed over what *)
(* it stores; and the chunks parallel_verify_chain chooses, at least as    *)
(* large as they are many, do stay within the chain.                       *)
TamperingDetected ==
    /\ \A p \in DOMAIN blocks :
          /\ blocks[p].index \in VerifyChain(Forged(p))
          /\ p < Len(blocks) => p \in VerifyChain(Resealed(p))
          /\ \A c \in {blocks, Forged(p)} :
                VerifyPosition(ProofForBlock(c, p - 1)) <=> p - 1 \notin VerifyChain(c)
    /\ (\A p \in DOMAIN blocks : VerifySelf(blocks[p])) =>
          \A n \in 1 .. Len(blocks) : SlicesInRange(Len(blocks), n) =>
              \A c \in {blocks} \cup {Forged(p) : p \in DOMAIN blocks} :
                  BatchVerify(c, n) = {} <=> VerifyChain(c) = {}
    /\ \A most \in 1 .. Len(blocks) : \A perChunk \in most .. Len(blocks) :
          SlicesInRange(Len(blocks), NumChunks(Len(blocks), perChunk, most))
=============================================================================
