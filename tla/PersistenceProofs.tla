-------------------------- MODULE PersistenceProofs --------------------------
(***************************************************************************)
(* What survives a restart, wherever writes fail or the process dies: of   *)
(* the server with its store, for any threads, accounts and number of      *)
(* requests, and of the event log, for any commands.                       *)
(***************************************************************************)
EXTENDS Persistence, EventLog, TotalsProofs, SequenceTheorems, WellFoundedInduction

(* Induction up to a number: what holds of 0 and passes from each number   *)
(* to the next holds of all.                                               *)
LEMMA Induct ==
    ASSUME NEW S \in SUBSET Nat, 0 \in S, \A n \in Nat : n \in S => n + 1 \in S
    PROVE  S = Nat
<1> SUFFICES ASSUME Nat \ S # {} PROVE FALSE
    OBVIOUS
<1>1. PICK x \in Nat \ S : \A y \in Nat \ S : ~(<<y, x>> \in OpToRel(<, Nat))
    BY NatLessThanWellFounded, WFMin
<1>2. x - 1 \in Nat /\ x - 1 \notin S
    OBVIOUS
<1>3. x - 1 < x
    OBVIOUS
<1> QED BY <1>1, <1>2, <1>3 DEF OpToRel

-----------------------------------------------------------------------------
(* The invariant. *)

IsSeq(q) == \E S : q \in Seq(S)

TypeOK ==
    /\ DOMAIN pc = Threads /\ DOMAIN move = Threads /\ DOMAIN copy = Threads
    /\ starts \in Nat \ {0} /\ orderly \in BOOLEAN /\ chainLost \in BOOLEAN
    /\ lock \in Threads \cup {NoThread}
    /\ IsSeq(tasks)
    /\ \A k \in DOMAIN tasks :
          IsSeq(tasks[k].accounts) /\ IsSeq(tasks[k].blocks) /\ tasks[k].blocks # <<>>
    /\ \A t \in Threads :
          /\ IsSeq(copy[t].accounts)
          /\ pc[t] \notin Saving => copy[t].accounts = <<>>
          /\ pc[t] = "chain" => move[t][1] \in Ids

(* A block with index i: its hash covers its data, and it follows one that *)
(* is the genesis block exactly if i is 1.                                 *)
BlockOK(b, i) ==
    /\ b.index = i
    /\ b.hash = ComputeHash(i, b.hash[1], b.data, b.stamp)
    /\ i = 0 => b.prev = ZeroHash /\ b.data = GenesisData /\ VerifySelf(b)
    /\ i # 0 => /\ b.data # GenesisData
                /\ b.prev = ComputeHash(i - 1, b.prev[1], b.prev[3], b.prev[4])
                /\ b.prev[3] = GenesisData <=> i = 1

(* The blocks in memory, and what a task has left to write of them. *)
ChainOK(bs) == IsSeq(bs) /\ bs # <<>> /\ \A p \in DOMAIN bs : BlockOK(bs[p], p - 1)

RestOK(bs, stored) ==
    /\ bs[1].index \in Nat
    /\ \A p \in DOMAIN bs : BlockOK(bs[p], bs[1].index + p - 1)
    /\ \A i \in Nat : i < bs[1].index => i \in stored

(* What is stored is the beginning of a chain, and so it stays when the    *)
(* tasks write on.                                                         *)
StoreInv ==
    /\ ChainOK(blocks)
    /\ \E n \in Nat : DOMAIN blockRows = 0 .. n - 1
    /\ \A i \in DOMAIN blockRows : BlockOK(blockRows[i], i)
    /\ \A k \in DOMAIN tasks : RestOK(tasks[k].blocks, DOMAIN blockRows)

(* The blocks that are stored or will be, the genesis block apart. *)
Kept ==
    {blockRows[i] : i \in DOMAIN blockRows \ {0}}
    \cup UNION {{tasks[k].blocks[p] : p \in {q \in DOMAIN tasks[k].blocks :
                                                tasks[k].blocks[q].index # 0}}
                   : k \in DOMAIN tasks}

(* As long as no start-up lost the chain: memory is linked, but for block  *)
(* 1 after a restart, what is kept is linked, and memory is what is kept   *)
(* and more, but for a redaction, which holds the lock to the end.         *)
LinkInv ==
    ~chainLost =>
        /\ \A p \in 2 .. Len(blocks) : p > 2 \/ starts = 1 =>
              VerifySelf(blocks[p]) /\ blocks[p].prev = blocks[p - 1].hash
        /\ \A b, c \in Kept : c.index = b.index + 1 => c.prev = b.hash
        /\ \A b, c \in Kept : c.index = b.index => c = b
        /\ \A b \in Kept : VerifySelf(b)
        /\ lock = NoThread =>
              /\ \A p \in DOMAIN blocks : VerifySelf(blocks[p])
              /\ \A b \in Kept : b.index + 1 \in DOMAIN blocks /\ b = blocks[b.index + 1]

-----------------------------------------------------------------------------
(* A transfer is between its debit and its credit; it will save or spoil   *)
(* the order.                                                              *)
Midway == \E t \in Threads : pc[t] = "credit"

Current(ws, id, amount) == \A i \in DOMAIN ws : ws[i].key = id => ws[i].value.balance = amount
Holds(ws, id) == \E i \in DOMAIN ws : ws[i].key = id

Clean(id) == id \in DOMAIN accountRows /\ accountRows[id].balance = accounts[id].balance

(* Account id is stored as it is, or will be by the save that runs. *)
Safe(id) ==
    /\ \A t \in Threads : pc[t] \in Saving =>
          /\ Current(copy[t].accounts, id, accounts[id].balance)
          /\ pc[t] = "accounts" \/ Holds(copy[t].accounts, id)
    /\ \A k \in DOMAIN tasks :
          /\ Current(tasks[k].accounts, id, accounts[id].balance)
          /\ Holds(tasks[k].accounts, id) \/ Clean(id)
    /\ tasks = <<>> /\ (\A t \in Threads : pc[t] \notin Saving) => Clean(id)

(* One save runs at a time. *)
Lone ==
    /\ \A t, u \in Threads : pc[t] \in Saving /\ pc[u] \in Saving => t = u
    /\ (\E t \in Threads : pc[t] \in Saving) => tasks = <<>>
    /\ \A k \in DOMAIN tasks : k = 1

SaveInv == orderly => Lone /\ (Midway \/ \A id \in DOMAIN accounts : Safe(id))

-----------------------------------------------------------------------------
(* Redaction. *)

(* What the loop of redact makes of the block at p when its predecessor    *)
(* has the hash before.                                                    *)
Rehash(bs, index, p, before) ==
    IF p = index + 1
    THEN Sealed(bs[p].index, bs[p].prev, before, Redacted, bs[p].stamp)
    ELSE Sealed(bs[p].index, before, before, bs[p].data, bs[p].stamp)

(* g is the chain of N blocks the loop makes of bs. *)
IsRedaction(g, bs, N, index) ==
    g = [p \in 1 .. N |-> IF p <= index THEN bs[p]
                          ELSE Rehash(bs, index, p, g[p - 1].hash)]

(* The recursion of Redact has a solution. *)
LEMMA RedactExists ==
    ASSUME NEW bs, NEW N \in Nat, NEW index \in Nat \ {0}
    PROVE  \E g : IsRedaction(g, bs, N, index)
<1> DEFINE Body(g, p) == IF p <= index THEN bs[p] ELSE Rehash(bs, index, p, g[p - 1].hash)
           S == {n \in Nat : \E g : g = [p \in 1 .. n |-> Body(g, p)]}
<1>1. 0 \in S
    <2>1. <<>> = [p \in 1 .. 0 |-> Body(<<>>, p)]
        OBVIOUS
    <2> QED BY <2>1
<1>2. ASSUME NEW n \in Nat, n \in S PROVE n + 1 \in S
    <2>1. PICK g : g = [p \in 1 .. n |-> Body(g, p)]
        BY <1>2
    <2>2. PICK h : h = [p \in 1 .. n + 1 |-> Body(g, p)]
        OBVIOUS
    <2>3. ASSUME NEW p \in 1 .. n + 1 PROVE Body(g, p) = Body(h, p)
        <3>1. CASE p <= index
            BY <3>1
        <3>2. CASE p > index
            <4>1. p - 1 \in 1 .. n
                BY <3>2
            <4>2. h[p - 1] = g[p - 1]
                <5>1. h[p - 1] = Body(g, p - 1)
                    BY <2>2, <4>1
                <5>2. g[p - 1] = Body(g, p - 1)
                    BY <2>1, <4>1
                <5> QED BY <5>1, <5>2
            <4> QED BY <3>2, <4>2
        <3> QED BY <3>1, <3>2
    <2>4. h = [p \in 1 .. n + 1 |-> Body(h, p)]
        BY <2>2, <2>3
    <2> QED BY <2>4
<1>3. S = Nat
    <2> HIDE DEF S
    <2>1. S \in SUBSET Nat
        BY Zenon DEF S
    <2> QED BY <1>1, <1>2, <2>1, Induct
<1> QED BY <1>3 DEF IsRedaction

(* Redact keeps the blocks before, and hashes every block from the         *)
(* redacted one on over the hash of its predecessor.                       *)
LEMMA RedactSolves ==
    ASSUME NEW bs, NEW N \in Nat, DOMAIN bs = 1 .. N, NEW index \in Nat \ {0}
    PROVE  IsRedaction(Redact(bs, index), bs, N, index)
<1>1. \E g : IsRedaction(g, bs, N, index)
    BY RedactExists
<1> QED BY <1>1, Zenon DEF Redact, Rehash, IsRedaction

-----------------------------------------------------------------------------
(* Sequences. *)

LEMMA SeqFacts ==
    ASSUME NEW q, IsSeq(q)
    PROVE  /\ Len(q) \in Nat /\ DOMAIN q = 1 .. Len(q)
           /\ q = <<>> <=> Len(q) = 0
           /\ q = [i \in 1 .. Len(q) |-> q[i]]
<1>1. PICK S : q \in Seq(S)
    BY DEF IsSeq
<1> QED BY <1>1, LenProperties, EmptySeq

LEMMA SeqMade ==
    ASSUME NEW n \in Nat, NEW q, q = [i \in 1 .. n |-> q[i]]
    PROVE  IsSeq(q) /\ Len(q) = n
<1>1. q \in [1 .. n -> {q[i] : i \in 1 .. n}]
    OBVIOUS
<1>2. q \in Seq({q[i] : i \in 1 .. n})
    BY <1>1, SeqDef
<1>3. DOMAIN q = 1 .. n /\ DOMAIN q = 1 .. Len(q) /\ Len(q) \in Nat
    BY <1>1, <1>2, LenProperties
<1>4. Len(q) = n
    BY <1>3
<1> QED BY <1>2, <1>4, Zenon DEF IsSeq

LEMMA SeqEmpty == IsSeq(<<>>)
<1>1. <<>> \in Seq({})
    OBVIOUS
<1> QED BY <1>1 DEF IsSeq

LEMMA SeqAppend ==
    ASSUME NEW q, IsSeq(q), NEW e
    PROVE  /\ IsSeq(Append(q, e)) /\ Len(Append(q, e)) = Len(q) + 1
           /\ \A i \in 1 .. Len(q) : Append(q, e)[i] = q[i]
           /\ Append(q, e)[Len(q) + 1] = e
<1>1. PICK S : q \in Seq(S)
    BY DEF IsSeq
<1>2. PICK T : T = S \cup {e}
    OBVIOUS
<1>3. q \in Seq(T) /\ e \in T
    BY <1>1, <1>2, SeqMonotonic
<1> QED BY <1>3, AppendProperties, SeqFacts DEF IsSeq

LEMMA SeqTail ==
    ASSUME NEW q, IsSeq(q), q # <<>>
    PROVE  /\ IsSeq(Tail(q)) /\ Len(Tail(q)) = Len(q) - 1
           /\ \A i \in 1 .. Len(q) - 1 : Tail(q)[i] = q[i + 1]
           /\ Head(q) = q[1]
<1>1. PICK S : q \in Seq(S)
    BY DEF IsSeq
<1> QED BY <1>1, HeadTailProperties, SeqFacts DEF IsSeq

LEMMA SeqExcept ==
    ASSUME NEW q, IsSeq(q), NEW k \in DOMAIN q, NEW e
    PROVE  /\ IsSeq([q EXCEPT ![k] = e]) /\ Len([q EXCEPT ![k] = e]) = Len(q)
           /\ \A i \in 1 .. Len(q) : [q EXCEPT ![k] = e][i] = IF i = k THEN e ELSE q[i]
<1>1. PICK S : q \in Seq(S)
    BY DEF IsSeq
<1>2. PICK T : T = S \cup {e}
    OBVIOUS
<1>3. q \in Seq(T) /\ e \in T
    BY <1>1, <1>2, SeqMonotonic
<1>4. k \in 1 .. Len(q)
    BY SeqFacts
<1> QED BY <1>3, <1>4, ExceptSeq DEF IsSeq

LEMMA SeqConcat ==
    ASSUME NEW q, IsSeq(q), NEW r, IsSeq(r)
    PROVE  /\ IsSeq(q \o r) /\ Len(q \o r) = Len(q) + Len(r)
           /\ \A i \in 1 .. Len(q) + Len(r) :
                 (q \o r)[i] = IF i <= Len(q) THEN q[i] ELSE r[i - Len(q)]
<1>1. PICK S : q \in Seq(S)
    BY DEF IsSeq
<1>2. PICK T : r \in Seq(T)
    BY DEF IsSeq
<1>3. PICK U : U = S \cup T
    OBVIOUS
<1>4. q \in Seq(U) /\ r \in Seq(U)
    BY <1>1, <1>2, <1>3, SeqMonotonic
<1> QED BY <1>4, ConcatProperties DEF IsSeq

LEMMA SeqRemove ==
    ASSUME NEW q, IsSeq(q), NEW k \in DOMAIN q
    PROVE  /\ IsSeq(RemoveAt(q, k)) /\ Len(RemoveAt(q, k)) = Len(q) - 1
           /\ \A i \in 1 .. Len(q) - 1 :
                 RemoveAt(q, k)[i] = IF i < k THEN q[i] ELSE q[i + 1]
<1>1. PICK S : q \in Seq(S)
    BY DEF IsSeq
<1>2. k \in 1 .. Len(q) /\ Len(q) \in Nat
    BY SeqFacts
<1>3. \A i \in 1 .. Len(q) : q[i] \in S
    BY <1>1, ElementOfSeq
<1>4. PICK a : a = SubSeq(q, 1, k - 1)
    OBVIOUS
<1>5. PICK b : b = SubSeq(q, k + 1, Len(q))
    OBVIOUS
<1>6. a \in Seq(S) /\ Len(a) = k - 1 /\ \A i \in 1 .. k - 1 : a[i] = q[i]
    <2>1. \A i \in 1 .. k - 1 : q[i] \in S
        BY <1>2, <1>3
    <2> QED BY <1>2, <1>4, <2>1, SubSeqProperties
<1>7. b \in Seq(S) /\ Len(b) = Len(q) - k /\ \A i \in 1 .. Len(q) - k : b[i] = q[k + i]
    <2>1. \A i \in k + 1 .. Len(q) : q[i] \in S
        BY <1>2, <1>3
    <2>2. k + 1 \in Int /\ Len(q) \in Int
        BY <1>2
    <2>3. /\ b \in Seq(S) /\ Len(b) = IF k + 1 <= Len(q) THEN Len(q) - (k + 1) + 1 ELSE 0
          /\ \A i \in 1 .. Len(q) - (k + 1) + 1 : b[i] = q[k + 1 + i - 1]
        BY <1>5, <2>1, <2>2, SubSeqProperties, SMTT(30)
    <2> QED BY <1>2, <2>3, SMTT(30)
<1>8. PICK c : c = a \o b
    OBVIOUS
<1>9. /\ IsSeq(c) /\ Len(c) = Len(q) - 1
      /\ \A i \in 1 .. Len(q) - 1 : c[i] = IF i < k THEN a[i] ELSE b[i - (k - 1)]
    BY <1>2, <1>6, <1>7, <1>8, ConcatProperties, SMTT(30) DEF IsSeq
<1>10. ASSUME NEW i \in 1 .. Len(q) - 1 PROVE c[i] = IF i < k THEN q[i] ELSE q[i + 1]
    <2>1. CASE i < k
        BY <1>2, <1>6, <1>9, <2>1
    <2>2. CASE i >= k
        <3>1. i - (k - 1) \in 1 .. Len(q) - k /\ k + (i - (k - 1)) = i + 1
            BY <1>2, <2>2
        <3>2. c[i] = b[i - (k - 1)]
            BY <1>2, <1>9, <2>2
        <3>3. b[i - (k - 1)] = q[k + (i - (k - 1))]
            BY <1>7, <3>1
        <3> QED BY <1>2, <2>2, <3>1, <3>2, <3>3
    <2> QED BY <1>2, <2>1, <2>2
<1> QED BY <1>4, <1>5, <1>8, <1>9, <1>10 DEF RemoveAt

-----------------------------------------------------------------------------
(* What a step does to the chain, to the tasks and to the stored blocks. *)

others == <<blockRows, starts, chainLost>>

ChainSame == UNCHANGED <<blocks, lock, tasks, others>>

Grows ==
    /\ lock = NoThread
    /\ \E data \in Ids \cup {Note} : blocks' = AppendBlock(blocks, data, starts)
    /\ UNCHANGED <<lock, tasks, others>>

Redacts ==
    /\ lock = NoThread /\ lock' \in Threads
    /\ \E index \in Nat \ {0} : index < Len(blocks) /\ blocks' = Redact(blocks, index)
    /\ UNCHANGED <<tasks, others>>

Hands ==
    /\ lock = NoThread
    /\ \E task : tasks' = Append(tasks, task) /\ task.blocks = blocks
    /\ UNCHANGED <<blocks, lock, others>>

LEMMA ChainCases ==
    ASSUME TypeOK, [Next]_vars
    PROVE  \/ ChainSame \/ Grows \/ Redacts \/ Hands
           \/ \E k \in DOMAIN tasks : TaskWrites(k) \/ TaskFails(k)
           \/ \E a, c \in BOOLEAN : Restart(a, c)
<1> USE DEF ChainSame, others, memory, rows, bound, history, locals
<1>1. CASE UNCHANGED vars
    BY <1>1 DEF vars
<1>2. ASSUME NEW t \in Threads, NEW id \in Ids,
             \/ CreateAccount(t, id) \/ DebitAccount(t, id) \/ CreditAccount(t, id)
             \/ PlaceHold(t, id) \/ ReleaseHold(t, id) \/ CoaDeactivate(t, id)
             \/ \E new \in {"Open", "Frozen", "Closed"} : SetAccountStatus(t, id, new)
             \/ \E id2 \in Ids : TransferStart(t, id, id2)
      PROVE ChainSame
    BY <1>2 DEF CreateAccount, DebitAccount, CreditAccount, PlaceHold, ReleaseHold,
        CoaDeactivate, SetAccountStatus, TransferStart, Request, SaveFrom
<1>3. ASSUME NEW t \in Threads, CommitTransaction(t) \/ CoaDeactivateChain(t) PROVE Grows
    BY <1>3 DEF CommitTransaction, CoaDeactivateChain, Request, SaveFrom, Grows, ChainFree
<1>4. ASSUME NEW t \in Threads, TransferChain(t) PROVE Grows
    BY <1>4 DEF TransferChain, Grows, ChainFree, TypeOK
<1>5. ASSUME NEW t \in Threads, NEW index \in 0 .. Len(blocks), RedactBlock(t, index)
      PROVE Redacts
    <2>1. index \in Nat \ {0} /\ index < Len(blocks)
        BY <1>5 DEF RedactBlock, CanRedact
    <2> QED BY <1>5, <2>1 DEF RedactBlock, Redacts, ChainFree, Request, SaveFrom
<1>6. ASSUME NEW t \in Threads, TransferJournal(t) \/ TransferDebit(t) \/ TransferCredit(t)
      PROVE ChainSame
    BY <1>6 DEF TransferJournal, TransferDebit, TransferCredit, SaveFrom
<1>7. ASSUME NEW t \in Threads,
             (\E id \in Ids : CopyAccount(t, id)) \/ AccountsCopied(t) \/ CopyJournal(t)
      PROVE ChainSame
    BY <1>7 DEF CopyAccount, AccountsCopied, CopyJournal
<1>8. ASSUME NEW t \in Threads, CopyChain(t) PROVE Hands
    BY <1>8 DEF CopyChain, Hands, ChainFree
<1> QED BY <1>1, <1>2, <1>3, <1>4, <1>5, <1>6, <1>7, <1>8 DEF Next, Step

(* A task that is done leaves the list, the others stay. *)
LEMMA RemoveFacts ==
    ASSUME NEW q, IsSeq(q), NEW k \in DOMAIN q
    PROVE  /\ IsSeq(RemoveAt(q, k))
           /\ \A j \in DOMAIN RemoveAt(q, k) : \E i \in DOMAIN q : RemoveAt(q, k)[j] = q[i]
<1> PICK r : r = RemoveAt(q, k)
    OBVIOUS
<1>1. /\ IsSeq(r) /\ Len(r) = Len(q) - 1
      /\ \A i \in 1 .. Len(q) - 1 : r[i] = IF i < k THEN q[i] ELSE q[i + 1]
    BY SeqRemove
<1>2. DOMAIN r = 1 .. Len(q) - 1 /\ DOMAIN q = 1 .. Len(q) /\ Len(q) \in Nat
    BY <1>1, SeqFacts
<1>3. ASSUME NEW j \in DOMAIN r PROVE \E i \in DOMAIN q : r[j] = q[i]
    <2>1. j \in 1 .. Len(q) /\ j + 1 \in 1 .. Len(q)
        BY <1>2
    <2>2. r[j] = q[j] \/ r[j] = q[j + 1]
        BY <1>1, <1>2
    <2> QED BY <1>2, <2>1, <2>2
<1> QED BY <1>1, <1>3

LEMMA LeftFacts ==
    ASSUME NEW k \in DOMAIN tasks, IsSeq(tasks), NEW task
    PROVE  /\ IsSeq(Left(k, task))
           /\ \A j \in DOMAIN Left(k, task) :
                 \/ \E i \in DOMAIN tasks : Left(k, task)[j] = tasks[i]
                 \/ Left(k, task)[j] = task /\ task.blocks # <<>>
<1>1. CASE task.blocks = <<>>
    BY <1>1, RemoveFacts DEF Left
<1>2. CASE task.blocks # <<>>
    <2>1. PICK r : r = [tasks EXCEPT ![k] = task]
        OBVIOUS
    <2>2. /\ IsSeq(r) /\ Len(r) = Len(tasks)
          /\ \A i \in 1 .. Len(tasks) : r[i] = IF i = k THEN task ELSE tasks[i]
        <3>1. /\ IsSeq([tasks EXCEPT ![k] = task]) /\ Len([tasks EXCEPT ![k] = task]) = Len(tasks)
              /\ \A i \in 1 .. Len(tasks) :
                    [tasks EXCEPT ![k] = task][i] = IF i = k THEN task ELSE tasks[i]
            BY SeqExcept, Zenon
        <3> QED BY <2>1, <3>1
    <2>3. DOMAIN r = DOMAIN tasks /\ DOMAIN tasks = 1 .. Len(tasks)
        BY <2>2, SeqFacts
    <2> QED BY <1>2, <2>1, <2>2, <2>3 DEF Left
<1> QED BY <1>1, <1>2

(* What is left of a task after one more of its writes. *)
LEMMA WithoutFacts ==
    ASSUME NEW task, IsSeq(task.accounts), IsSeq(task.blocks), task.blocks # <<>>
    PROVE  /\ IsSeq(Without(task, Part(task)).accounts)
           /\ IsSeq(Without(task, Part(task)).blocks)
           /\ Part(task) = "accounts" =>
                 /\ task.accounts # <<>>
                 /\ Without(task, Part(task)).accounts = Tail(task.accounts)
           /\ Part(task) # "accounts" => /\ task.accounts = <<>>
                                         /\ Without(task, Part(task)).accounts = <<>>
           /\ Part(task) = "blocks" =>
                 Without(task, Part(task)).blocks = Tail(task.blocks)
           /\ Part(task) # "blocks" => Without(task, Part(task)).blocks = task.blocks
<1>1. \/ task.accounts # <<>> /\ Part(task) = "accounts"
      \/ task.accounts = <<>> /\ Part(task) = "entries"
      \/ task.accounts = <<>> /\ Part(task) = "blocks"
    BY DEF Part
<1> QED BY <1>1, SeqTail DEF Without

(* Left and RemoveAt, for the tasks of a state. *)
LEMMA TasksAfter ==
    ASSUME TypeOK, NEW k \in DOMAIN tasks, TaskWrites(k) \/ TaskFails(k)
    PROVE  /\ IsSeq(tasks')
           /\ \A j \in DOMAIN tasks' :
                 /\ IsSeq(tasks'[j].accounts) /\ IsSeq(tasks'[j].blocks)
                 /\ tasks'[j].blocks # <<>>
                 /\ \/ \E i \in DOMAIN tasks : tasks'[j].blocks = tasks[i].blocks
                    \/ /\ Part(tasks[k]) = "blocks" /\ TaskWrites(k)
                       /\ tasks'[j].blocks = Tail(tasks[k].blocks)
<1> PICK task : task = Without(tasks[k], Part(tasks[k]))
    OBVIOUS
<1>1. IsSeq(tasks) /\ \A i \in DOMAIN tasks :
          IsSeq(tasks[i].accounts) /\ IsSeq(tasks[i].blocks) /\ tasks[i].blocks # <<>>
    BY DEF TypeOK
<1>2. /\ IsSeq(task.accounts) /\ IsSeq(task.blocks)
      /\ Part(tasks[k]) = "blocks" => task.blocks = Tail(tasks[k].blocks)
      /\ Part(tasks[k]) # "blocks" => task.blocks = tasks[k].blocks
    BY <1>1, WithoutFacts
<1>3. CASE TaskWrites(k) \/ (TaskFails(k) /\ Part(tasks[k]) # "blocks")
    <2>1. tasks' = Left(k, task)
        BY <1>3 DEF TaskWrites, TaskFails
    <2>2. IsSeq(tasks') /\ \A j \in DOMAIN tasks' :
              \/ \E i \in DOMAIN tasks : tasks'[j] = tasks[i]
              \/ tasks'[j] = task /\ task.blocks # <<>>
        BY <1>1, <2>1, LeftFacts
    <2> QED BY <1>1, <1>2, <1>3, <2>2
<1>4. CASE TaskFails(k) /\ Part(tasks[k]) = "blocks"
    <2>1. tasks' = RemoveAt(tasks, k)
        BY <1>4 DEF TaskFails
    <2> QED BY <1>1, <2>1, RemoveFacts
<1> QED BY <1>3, <1>4

-----------------------------------------------------------------------------
(* Types. *)

LEMMA TypeInit == Init => TypeOK
<1> SUFFICES ASSUME Init PROVE TypeOK
    OBVIOUS
<1>1. IsSeq(tasks) /\ DOMAIN tasks = {}
    BY SeqEmpty DEF Init
<1>2. ASSUME NEW t \in Threads
      PROVE copy[t].accounts = <<>> /\ pc[t] = "idle"
    BY DEF Init, NoCopy
<1>3. /\ DOMAIN pc = Threads /\ DOMAIN move = Threads /\ DOMAIN copy = Threads
      /\ starts \in Nat \ {0} /\ lock \in Threads \cup {NoThread}
    BY DEF Init
<1>4. orderly \in BOOLEAN /\ chainLost \in BOOLEAN
    BY Zenon DEF Init
<1> QED BY <1>1, <1>2, <1>3, <1>4, SeqEmpty DEF TypeOK, Saving

LEMMA TypeStep == ASSUME TypeOK, StoreInv, [Next]_vars PROVE TypeOK'
<1> USE DEF memory, rows, bound, history, locals
<1>1. CASE UNCHANGED vars
    BY <1>1 DEF vars, TypeOK
<1>2. ASSUME NEW t \in Threads, NEW p, p # "chain",
             pc[t] \notin Saving \/ p \in Saving,
             UNCHANGED <<tasks, starts, lock, chainLost>>, orderly' \in BOOLEAN,
             \/ GoTo(t, p)
             \/ Return(t) /\ p = "idle"
      PROVE TypeOK'
    <2>1. CASE GoTo(t, p)
        BY <1>2, <2>1 DEF TypeOK, GoTo
    <2>2. CASE Return(t) /\ p = "idle"
        BY <1>2, <2>2 DEF TypeOK, Return, Saving
    <2> QED BY <1>2, <2>1, <2>2
<1>3. ASSUME NEW t \in Threads, SaveFrom(t), pc[t] \notin Saving,
             UNCHANGED <<tasks, starts, lock>>
      PROVE TypeOK'
    <2>1. orderly' \in BOOLEAN /\ UNCHANGED chainLost /\ GoTo(t, "accounts")
        BY <1>3 DEF SaveFrom
    <2> QED BY <1>2, <1>3, <2>1
<1>4. ASSUME NEW t \in Threads, NEW id \in Ids,
             \/ CreateAccount(t, id) \/ DebitAccount(t, id) \/ CreditAccount(t, id)
             \/ \E new \in {"Open", "Frozen", "Closed"} : SetAccountStatus(t, id, new)
      PROVE TypeOK'
    BY <1>3, <1>4 DEF CreateAccount, DebitAccount, CreditAccount, SetAccountStatus,
        Request, Saving
<1>5. ASSUME NEW t \in Threads, NEW id \in Ids, PlaceHold(t, id) \/ ReleaseHold(t, id)
      PROVE TypeOK'
    BY <1>5 DEF PlaceHold, ReleaseHold, TypeOK, Request
<1>6. ASSUME NEW t \in Threads, CommitTransaction(t) PROVE TypeOK'
    BY <1>6 DEF CommitTransaction, TypeOK, Request
<1>7. ASSUME NEW t \in Threads, NEW id \in Ids, CoaDeactivate(t, id) PROVE TypeOK'
    <2>1. /\ pc[t] \notin Saving /\ GoTo(t, "deactivate")
          /\ UNCHANGED <<tasks, starts, lock, chainLost, orderly>>
        BY <1>7 DEF CoaDeactivate, Request, Saving
    <2> QED BY <1>2, <2>1 DEF TypeOK
<1>8. ASSUME NEW t \in Threads, NEW id \in Ids, NEW id2 \in Ids, TransferStart(t, id, id2)
      PROVE TypeOK'
    <2>1. /\ pc' = [pc EXCEPT ![t] = "chain"]
          /\ move' = [move EXCEPT ![t] = <<id, id2, journalSeq + 1>>]
          /\ UNCHANGED <<tasks, starts, lock, chainLost, orderly, copy>>
          /\ pc[t] = "idle"
        BY <1>8 DEF TransferStart, Request
    <2> QED BY <2>1 DEF TypeOK, Saving
<1>9. ASSUME NEW t \in Threads, CoaDeactivateChain(t) PROVE TypeOK'
    BY <1>3, <1>9 DEF CoaDeactivateChain, Saving
<1>10. ASSUME NEW t \in Threads, NEW index, RedactBlock(t, index) PROVE TypeOK'
    <2>1. /\ pc' = [pc EXCEPT ![t] = "accounts"] /\ pc[t] = "idle"
          /\ UNCHANGED <<tasks, starts, chainLost, copy, move>> /\ lock' = t
          /\ orderly' \in BOOLEAN
        BY <1>10 DEF RedactBlock, Request, SaveFrom, GoTo
    <2> QED BY <2>1 DEF TypeOK, Saving
<1>11. ASSUME NEW t \in Threads, TransferChain(t) \/ TransferJournal(t) \/ TransferDebit(t)
       PROVE TypeOK'
    <2>1. /\ UNCHANGED <<tasks, starts, lock, chainLost, orderly>>
          /\ pc[t] \notin Saving
          /\ GoTo(t, "journal") \/ GoTo(t, "debit") \/ GoTo(t, "credit") \/ Return(t)
        BY <1>11 DEF TransferChain, TransferJournal, TransferDebit, Saving
    <2> QED BY <1>2, <2>1 DEF TypeOK
<1>12. ASSUME NEW t \in Threads, TransferCredit(t) PROVE TypeOK'
    <2>1. /\ UNCHANGED <<tasks, starts, lock>> /\ pc[t] \notin Saving
          /\ SaveFrom(t) \/ (Return(t) /\ orderly' = FALSE /\ UNCHANGED chainLost)
        BY <1>12 DEF TransferCredit, Saving
    <2> QED BY <1>2, <1>3, <2>1
<1>13. ASSUME NEW t \in Threads, NEW id \in Ids, CopyAccount(t, id) PROVE TypeOK'
    <2>1. PICK c : c = [accounts |-> Append(copy[t].accounts, [key |-> id, value |-> accounts[id]]),
                        journal |-> copy[t].journal]
        OBVIOUS
    <2>2. IsSeq(c.accounts)
        <3>1. IsSeq(copy[t].accounts)
            BY DEF TypeOK
        <3> QED BY <2>1, <3>1, SeqAppend
    <2>3. /\ copy' = [copy EXCEPT ![t] = c]
          /\ UNCHANGED <<lock, pc, move, tasks, starts, orderly, chainLost>>
          /\ pc[t] = "accounts"
        BY <1>13, <2>1 DEF CopyAccount
    <2> HIDE <2>1
    <2> QED BY <2>2, <2>3 DEF TypeOK, Saving
<1>14. ASSUME NEW t \in Threads, AccountsCopied(t) PROVE TypeOK'
    <2>1. /\ UNCHANGED <<lock, tasks, starts, orderly, chainLost>> /\ GoTo(t, "entries")
        BY <1>14 DEF AccountsCopied
    <2> QED BY <1>2, <2>1 DEF TypeOK, Saving
<1>15. ASSUME NEW t \in Threads, CopyJournal(t) PROVE TypeOK'
    <2>1. PICK c : c = [accounts |-> copy[t].accounts, journal |-> LastEntries(journal)]
        OBVIOUS
    <2>2. /\ copy' = [copy EXCEPT ![t] = c] /\ pc' = [pc EXCEPT ![t] = "blocks"]
          /\ UNCHANGED <<lock, move, tasks, starts, orderly, chainLost>>
        BY <1>15, <2>1 DEF CopyJournal
    <2>3. c.accounts = copy[t].accounts
        BY <2>1
    <2> HIDE <2>1
    <2> QED BY <2>2, <2>3 DEF TypeOK, Saving
<1>16. ASSUME NEW t \in Threads, CopyChain(t) PROVE TypeOK'
    <2>1. PICK task : task = [accounts |-> copy[t].accounts, blocks |-> blocks,
                               entries |-> Reverse(copy[t].journal)]
        OBVIOUS
    <2>2. IsSeq(task.accounts) /\ IsSeq(task.blocks) /\ task.blocks # <<>>
        BY <1>16, <2>1 DEF TypeOK, StoreInv, ChainOK
    <2>3. /\ copy' = [copy EXCEPT ![t] = NoCopy] /\ pc' = [pc EXCEPT ![t] = "idle"]
          /\ move' = [move EXCEPT ![t] = NoMove] /\ tasks' = Append(tasks, task)
          /\ UNCHANGED <<lock, starts, orderly, chainLost>>
        BY <1>16, <2>1 DEF CopyChain
    <2> HIDE <2>1
    <2>4. /\ IsSeq(tasks') /\ Len(tasks') = Len(tasks) + 1 /\ Len(tasks) \in Nat
          /\ DOMAIN tasks' = 1 .. Len(tasks')
          /\ DOMAIN tasks = 1 .. Len(tasks)
          /\ \A i \in 1 .. Len(tasks) : tasks'[i] = tasks[i]
          /\ tasks'[Len(tasks) + 1] = task
        BY <2>3, SeqAppend, SeqFacts DEF TypeOK
    <2>5. \A k \in DOMAIN tasks' : k \in DOMAIN tasks \/ k = Len(tasks) + 1
        BY <2>4
    <2>6. \A k \in DOMAIN tasks' :
              IsSeq(tasks'[k].accounts) /\ IsSeq(tasks'[k].blocks) /\ tasks'[k].blocks # <<>>
        BY <2>2, <2>4, <2>5 DEF TypeOK
    <2> QED BY <2>3, <2>4, <2>6, SeqEmpty DEF TypeOK, NoCopy, Saving
<1>17. ASSUME NEW k \in DOMAIN tasks, TaskWrites(k) \/ TaskFails(k) PROVE TypeOK'
    <2>1. UNCHANGED <<pc, move, copy, lock, starts, chainLost>> /\ orderly' \in BOOLEAN
        BY <1>17 DEF TaskWrites, TaskFails, TypeOK
    <2> QED BY <1>17, <2>1, TasksAfter DEF TypeOK
<1>18. ASSUME NEW a \in BOOLEAN, NEW c \in BOOLEAN, Restart(a, c) PROVE TypeOK'
    BY <1>18, SeqEmpty DEF Restart, TypeOK, NoCopy, Saving
<1> QED BY <1>1, <1>4, <1>5, <1>6, <1>7, <1>8, <1>9, <1>10, <1>11, <1>12, <1>13, <1>14,
    <1>15, <1>16, <1>17, <1>18 DEF Next, Step

-----------------------------------------------------------------------------
(* What is stored. *)

(* load_hash_chain finds the stored blocks in order. *)
LEMMA LoadFacts ==
    ASSUME NEW n \in Nat, DOMAIN blockRows = 0 .. n - 1, NEW stamp
    PROVE  /\ IsSeq(LoadChain(stamp))
           /\ DOMAIN LoadChain(stamp) = 1 .. (IF n = 0 THEN 1 ELSE n)
           /\ LoadChain(stamp)[1] = Genesis(stamp)
           /\ \A p \in 2 .. n : LoadChain(stamp)[p] = blockRows[p - 1]
<1> DEFINE found == DOMAIN blockRows \ {0}
           At(i) == CHOOSE x \in found : Cardinality({y \in found : y <= x}) = i
           m == IF n = 0 THEN 0 ELSE n - 1
<1>1. found = 1 .. n - 1 /\ m \in Nat
    OBVIOUS
<1>2. Cardinality(found) = m
    <2>1. Cardinality(1 .. n - 1) = IF 1 > n - 1 THEN 0 ELSE n - 1 - 1 + 1
        BY FS_Interval
    <2> HIDE DEF found
    <2> QED BY <1>1, <2>1
<1>3. ASSUME NEW x \in found PROVE Cardinality({y \in found : y <= x}) = x
    <2>1. {y \in found : y <= x} = 1 .. x
        BY <1>1
    <2>2. x \in Int /\ x >= 1
        BY <1>1
    <2>3. Cardinality(1 .. x) = IF 1 > x THEN 0 ELSE x - 1 + 1
        BY <2>2, FS_Interval
    <2>4. Cardinality({y \in found : y <= x}) = Cardinality(1 .. x)
        BY <2>1, Zenon
    <2> HIDE DEF found
    <2> QED BY <2>2, <2>3, <2>4
<1>4. ASSUME NEW i \in 1 .. m PROVE At(i) = i
    <2>1. i \in found
        BY <1>1
    <2> QED BY <1>3, <2>1
<1> HIDE DEF At, found
<1>5. PICK q : q = [i \in 1 .. m |-> blockRows[At(i)]]
    OBVIOUS
<1>6. IsSeq(q) /\ Len(q) = m /\ \A i \in 1 .. m : q[i] = blockRows[i]
    BY <1>1, <1>4, <1>5, SeqMade
<1>7. PICK g : g = NewChain(stamp)
    OBVIOUS
<1>8. IsSeq(g) /\ Len(g) = 1 /\ g[1] = Genesis(stamp)
    <2>1. g \in Seq({Genesis(stamp)})
        BY <1>7 DEF NewChain
    <2> QED BY <1>7, <2>1 DEF NewChain, IsSeq
<1>9. LoadChain(stamp) = g \o q
    BY <1>2, <1>5, <1>7 DEF LoadChain, At, found
<1>10. PICK c : c = g \o q
    OBVIOUS
<1>11. /\ IsSeq(c) /\ Len(c) = 1 + m
       /\ \A i \in 1 .. 1 + m : c[i] = IF i <= 1 THEN g[i] ELSE q[i - 1]
    <2>1. /\ IsSeq(g \o q) /\ Len(g \o q) = Len(g) + Len(q)
          /\ \A i \in 1 .. Len(g) + Len(q) :
                 (g \o q)[i] = IF i <= Len(g) THEN g[i] ELSE q[i - Len(g)]
        BY <1>6, <1>8, SeqConcat
    <2> QED BY <1>6, <1>8, <1>10, <2>1
<1>12. IsSeq(c) /\ DOMAIN c = 1 .. (IF n = 0 THEN 1 ELSE n)
    <2>1. DOMAIN c = 1 .. Len(c)
        BY <1>11, SeqFacts
    <2>2. 1 + m = IF n = 0 THEN 1 ELSE n
        OBVIOUS
    <2> HIDE DEF m
    <2> QED BY <1>11, <2>1, <2>2
<1>13. c[1] = Genesis(stamp)
    BY <1>1, <1>8, <1>11
<1>14. ASSUME NEW p \in 2 .. n PROVE c[p] = blockRows[p - 1]
    <2>1. p \in 1 .. 1 + m /\ ~(p <= 1) /\ p - 1 \in 1 .. m
        OBVIOUS
    <2> QED BY <1>6, <1>11, <2>1
<1> QED BY <1>9, <1>10, <1>12, <1>13, <1>14

LEMMA GenesisOK == ASSUME NEW stamp PROVE BlockOK(Genesis(stamp), 0)
BY DEF BlockOK, Genesis, Sealed, ComputeHash, VerifySelf, HashOver

LEMMA NewChainOK == ASSUME NEW stamp PROVE ChainOK(NewChain(stamp))
<1>1. PICK g : g = NewChain(stamp)
    OBVIOUS
<1>2. g \in Seq({Genesis(stamp)}) /\ g # <<>> /\ DOMAIN g = {1} /\ g[1] = Genesis(stamp)
    BY <1>1 DEF NewChain
<1> QED BY <1>1, <1>2, GenesisOK DEF ChainOK, IsSeq

(* A block appended to a sound chain. *)
LEMMA NextOK ==
    ASSUME NEW b, NEW i \in Nat, BlockOK(b, i), NEW data, data # GenesisData, NEW stamp
    PROVE  BlockOK(NextLink(b, data, stamp), i + 1)
<1>1. PICK c : c = NextLink(b, data, stamp)
    OBVIOUS
<1>2. c.index = i + 1 /\ c.prev = b.hash /\ c.data = data /\ c.stamp = stamp
      /\ c.hash = <<b.hash, i + 1, data, stamp>>
    BY <1>1 DEF NextLink, Sealed, ComputeHash, BlockOK
<1>3. c.hash = ComputeHash(i + 1, c.hash[1], c.data, c.stamp)
    BY <1>2 DEF ComputeHash
<1>4. b.hash = <<b.hash[1], i, b.data, b.stamp>>
    BY DEF BlockOK, ComputeHash
<1>5. b.hash[3] = b.data /\ b.hash[4] = b.stamp
    BY <1>4
<1>6. c.prev = ComputeHash(i + 1 - 1, c.prev[1], c.prev[3], c.prev[4])
    BY <1>2, <1>4, <1>5 DEF ComputeHash
<1>7. b.data = GenesisData <=> i = 0
    BY DEF BlockOK
<1>8. c.prev[3] = GenesisData <=> i + 1 = 1
    BY <1>2, <1>5, <1>7
<1> QED BY <1>1, <1>2, <1>3, <1>6, <1>8 DEF BlockOK

LEMMA AppendOK ==
    ASSUME NEW bs, ChainOK(bs), NEW data, data # GenesisData, NEW stamp
    PROVE  /\ ChainOK(AppendBlock(bs, data, stamp))
           /\ Len(AppendBlock(bs, data, stamp)) = Len(bs) + 1
           /\ \A p \in DOMAIN bs : AppendBlock(bs, data, stamp)[p] = bs[p]
           /\ AppendBlock(bs, data, stamp)[Len(bs) + 1] = NextLink(bs[Len(bs)], data, stamp)
<1>1. PICK c : c = NextLink(bs[Len(bs)], data, stamp)
    OBVIOUS
<1>2. PICK g : g = AppendBlock(bs, data, stamp)
    OBVIOUS
<1>3. IsSeq(bs) /\ Len(bs) \in Nat /\ Len(bs) # 0 /\ DOMAIN bs = 1 .. Len(bs)
    BY SeqFacts DEF ChainOK
<1>4. /\ IsSeq(g) /\ Len(g) = Len(bs) + 1 /\ DOMAIN g = 1 .. Len(bs) + 1
      /\ \A i \in 1 .. Len(bs) : g[i] = bs[i]
      /\ g[Len(bs) + 1] = c
    BY <1>1, <1>2, <1>3, SeqAppend, SeqFacts DEF AppendBlock
<1>5. BlockOK(bs[Len(bs)], Len(bs) - 1)
    BY <1>3 DEF ChainOK
<1>6. BlockOK(c, Len(bs) + 1 - 1)
    <2>1. BlockOK(c, Len(bs) - 1 + 1)
        BY <1>1, <1>3, <1>5, NextOK
    <2>2. Len(bs) - 1 + 1 = Len(bs) + 1 - 1
        BY <1>3
    <2> QED BY <2>1, <2>2
<1>7. \A p \in DOMAIN g : BlockOK(g[p], p - 1)
    BY <1>3, <1>4, <1>6 DEF ChainOK
<1>8. g # <<>>
    BY <1>3, <1>4, SeqFacts
<1> QED BY <1>1, <1>2, <1>3, <1>4, <1>7, <1>8 DEF ChainOK

(* Redaction keeps a chain sound. *)
LEMMA RedactOK ==
    ASSUME NEW bs, ChainOK(bs), NEW index \in Nat \ {0}, Redacted # GenesisData
    PROVE  ChainOK(Redact(bs, index))
<1>1. PICK g : g = Redact(bs, index)
    OBVIOUS
<1>2. IsSeq(bs) /\ Len(bs) \in Nat /\ Len(bs) # 0 /\ DOMAIN bs = 1 .. Len(bs)
    BY SeqFacts DEF ChainOK
<1>3. /\ DOMAIN g = 1 .. Len(bs)
      /\ \A p \in 1 .. Len(bs) : p <= index => g[p] = bs[p]
      /\ \A p \in 1 .. Len(bs) : p > index => g[p] = Rehash(bs, index, p, g[p - 1].hash)
    <2>1. IsRedaction(g, bs, Len(bs), index)
        BY <1>1, <1>2, RedactSolves
    <2> QED BY <1>2, <2>1 DEF IsRedaction
<1>4. IsSeq(g) /\ Len(g) = Len(bs)
    <2>1. IsRedaction(g, bs, Len(bs), index)
        BY <1>1, <1>2, RedactSolves
    <2>2. g = [p \in 1 .. Len(bs) |-> g[p]]
        BY <1>2, <2>1 DEF IsRedaction
    <2> QED BY <1>2, <2>2, SeqMade
<1>5. ASSUME NEW p \in 1 .. Len(bs) PROVE BlockOK(g[p], p - 1)
    <2>0. BlockOK(bs[p], p - 1)
        BY <1>2 DEF ChainOK
    <2>1. CASE p <= index
        BY <1>3, <2>0, <2>1
    <2>2. CASE p = index + 1
        <3>1. g[p] = Sealed(bs[p].index, bs[p].prev, g[p - 1].hash, Redacted, bs[p].stamp)
            BY <1>3, <2>2 DEF Rehash
        <3>2. p - 1 # 0
            BY <2>2
        <3> HIDE <2>2
        <3> QED BY <2>0, <3>1, <3>2 DEF BlockOK, Sealed, ComputeHash
    <2>3. CASE p > index + 1
        <3>1. /\ p - 1 \in 1 .. Len(bs) /\ p - 1 > index /\ p - 1 # 0 /\ p - 2 # 0
              /\ p - 2 = p - 1 - 1
            BY <1>2, <2>3
        <3>2. PICK r : r = g[p - 1]
            OBVIOUS
        <3>3. r.hash = <<r.hash[1], p - 2, r.data, r.stamp>> /\ r.data # GenesisData
            <4>1. r = Rehash(bs, index, p - 1, g[p - 1 - 1].hash)
                BY <1>3, <3>1, <3>2
            <4>2. bs[p - 1].index = p - 2 /\ bs[p - 1].data # GenesisData
                BY <1>2, <3>1 DEF ChainOK, BlockOK
            <4> QED BY <4>1, <4>2 DEF Rehash, Sealed, ComputeHash
        <3>4. g[p] = Sealed(bs[p].index, r.hash, r.hash, bs[p].data, bs[p].stamp)
            BY <1>3, <2>3, <3>2 DEF Rehash
        <3>5. r.hash[3] = r.data /\ r.hash[4] = r.stamp
            BY <3>3
        <3>6. r.hash = ComputeHash(p - 1 - 1, r.hash[1], r.hash[3], r.hash[4])
            BY <3>1, <3>3, <3>5 DEF ComputeHash
        <3>7. r.hash[3] = GenesisData <=> p - 1 = 1
            BY <3>1, <3>3, <3>5
        <3>8. bs[p].index = p - 1 /\ bs[p].data # GenesisData
            BY <2>0, <3>1 DEF BlockOK
        <3>9. /\ g[p].index = p - 1 /\ g[p].prev = r.hash /\ g[p].data = bs[p].data
              /\ g[p].stamp = bs[p].stamp
              /\ g[p].hash = <<r.hash, p - 1, bs[p].data, bs[p].stamp>>
            BY <3>4, <3>8 DEF Sealed, ComputeHash
        <3>10. g[p].hash = ComputeHash(p - 1, g[p].hash[1], g[p].data, g[p].stamp)
            BY <3>9 DEF ComputeHash
        <3> QED BY <3>1, <3>6, <3>7, <3>8, <3>9, <3>10 DEF BlockOK
    <2> QED BY <2>1, <2>2, <2>3
<1> QED BY <1>1, <1>2, <1>3, <1>4, <1>5, SeqFacts DEF ChainOK

LEMMA RestGrows ==
    ASSUME NEW bs, NEW D, NEW E, RestOK(bs, D), D \subseteq E
    PROVE  RestOK(bs, E)
BY DEF RestOK

LEMMA ChainRest == ASSUME NEW bs, ChainOK(bs), NEW D PROVE RestOK(bs, D)
<1>1. 1 \in DOMAIN bs /\ DOMAIN bs = 1 .. Len(bs)
    BY SeqFacts DEF ChainOK
<1>2. bs[1].index = 0
    BY <1>1 DEF ChainOK, BlockOK
<1>3. ASSUME NEW p \in DOMAIN bs PROVE BlockOK(bs[p], bs[1].index + p - 1)
    <2>1. bs[1].index + p - 1 = p - 1
        BY <1>1, <1>2
    <2> QED BY <2>1 DEF ChainOK
<1> QED BY <1>2, <1>3 DEF RestOK

LEMMA RestTail ==
    ASSUME NEW bs, IsSeq(bs), bs # <<>>, Tail(bs) # <<>>, NEW D, RestOK(bs, D)
    PROVE  RestOK(Tail(bs), D \cup {bs[1].index})
<1>1. PICK r : r = Tail(bs)
    OBVIOUS
<1>2. /\ Len(bs) \in Nat /\ DOMAIN bs = 1 .. Len(bs) /\ DOMAIN r = 1 .. Len(bs) - 1
      /\ Len(bs) > 1
      /\ \A i \in 1 .. Len(bs) - 1 : r[i] = bs[i + 1]
    BY <1>1, SeqTail, SeqFacts
<1>3. PICK i0 \in Nat : i0 = bs[1].index
    BY DEF RestOK
<1>4. r[1].index = i0 + 1
    <2>1. r[1] = bs[2] /\ 2 \in DOMAIN bs
        BY <1>2
    <2>2. BlockOK(bs[2], i0 + 2 - 1)
        BY <1>3, <2>1 DEF RestOK
    <2> QED BY <2>1, <2>2 DEF BlockOK
<1>5. ASSUME NEW p \in DOMAIN r PROVE BlockOK(r[p], i0 + 1 + p - 1)
    <2>1. r[p] = bs[p + 1] /\ p + 1 \in DOMAIN bs /\ p \in Nat
        BY <1>2
    <2>2. BlockOK(bs[p + 1], i0 + (p + 1) - 1)
        BY <1>3, <2>1 DEF RestOK
    <2>3. i0 + (p + 1) - 1 = i0 + 1 + p - 1
        BY <2>1
    <2> QED BY <2>1, <2>2, <2>3
<1>6. ASSUME NEW i \in Nat, i < i0 + 1 PROVE i \in D \cup {i0}
    BY <1>3, <1>6 DEF RestOK
<1>7. \A p \in DOMAIN r : BlockOK(r[p], r[1].index + p - 1)
    BY <1>4, <1>5
<1>8. \A i \in Nat : i < r[1].index => i \in D \cup {i0}
    BY <1>4, <1>6
<1>9. r[1].index \in Nat
    BY <1>4
<1>10. RestOK(r, D \cup {i0})
    BY <1>7, <1>8, <1>9 DEF RestOK
<1> QED BY <1>1, <1>3, <1>10

(* A task writes the first of the blocks it has left, whose predecessors   *)
(* are stored.                                                             *)
LEMMA StoreWrites ==
    ASSUME TypeOK, StoreInv, NEW k \in DOMAIN tasks, TaskWrites(k)
    PROVE  StoreInv'
<1>1. blocks' = blocks
    BY DEF TaskWrites, memory
<1>2. PICK n \in Nat : DOMAIN blockRows = 0 .. n - 1
    BY DEF StoreInv
<1>3. PICK bs : bs = tasks[k].blocks
    OBVIOUS
<1>4. IsSeq(bs) /\ bs # <<>> /\ RestOK(bs, DOMAIN blockRows)
    BY <1>3 DEF TypeOK, StoreInv
<1>5. CASE Part(tasks[k]) # "blocks"
    <2>1. blockRows' = blockRows
        BY <1>5 DEF TaskWrites
    <2>2. \A j \in DOMAIN tasks' : \E i \in DOMAIN tasks : tasks'[j].blocks = tasks[i].blocks
        BY <1>5, TasksAfter
    <2> QED BY <1>1, <2>1, <2>2 DEF StoreInv
<1>6. CASE Part(tasks[k]) = "blocks"
    <2>1. PICK b : b = bs[1]
        OBVIOUS
    <2>2. b.index \in Nat /\ BlockOK(b, b.index)
        <3>1. b.index \in Nat /\ 1 \in DOMAIN bs
            BY <1>4, <2>1, SeqFacts DEF RestOK
        <3>2. BlockOK(b, b.index + 1 - 1)
            BY <1>4, <2>1, <3>1 DEF RestOK
        <3>3. b.index + 1 - 1 = b.index
            BY <3>1
        <3> QED BY <3>1, <3>2, <3>3
    <2>3. PICK i0 \in Nat : i0 = b.index
        BY <2>2
    <2>4. Head(tasks[k].blocks) = b
        BY <1>3, <1>4, <2>1, SeqTail
    <2>5. blockRows' = [x \in DOMAIN blockRows \cup {i0} |-> IF x = i0 THEN b ELSE blockRows[x]]
        BY <1>6, <2>3, <2>4 DEF TaskWrites, Upsert
    <2>6. DOMAIN blockRows' = DOMAIN blockRows \cup {i0}
        BY <2>5
    <2>7. \E m \in Nat : DOMAIN blockRows' = 0 .. m - 1
        <3>1. \A i \in Nat : i < i0 => i \in DOMAIN blockRows
            BY <1>4, <2>1, <2>3 DEF RestOK
        <3>2. i0 <= n
            BY <1>2, <2>3, <3>1
        <3>3. CASE i0 < n
            <4>1. DOMAIN blockRows' = 0 .. n - 1
                BY <1>2, <2>6, <3>3
            <4> QED BY <4>1
        <3>4. CASE i0 = n
            <4>1. DOMAIN blockRows' = 0 .. (n + 1) - 1
                BY <1>2, <2>6, <3>4
            <4> QED BY <4>1
        <3> QED BY <3>2, <3>3, <3>4
    <2>8. \A i \in DOMAIN blockRows' : BlockOK(blockRows'[i], i)
        BY <2>2, <2>3, <2>5 DEF StoreInv
    <2>9. ASSUME NEW j \in DOMAIN tasks'
          PROVE RestOK(tasks'[j].blocks, DOMAIN blockRows')
        <3>1. CASE \E i \in DOMAIN tasks : tasks'[j].blocks = tasks[i].blocks
            <4>1. PICK i \in DOMAIN tasks : tasks'[j].blocks = tasks[i].blocks
                BY <3>1
            <4>2. RestOK(tasks[i].blocks, DOMAIN blockRows)
                BY DEF StoreInv
            <4>3. DOMAIN blockRows \subseteq DOMAIN blockRows'
                BY <2>6
            <4> QED BY <4>1, <4>2, <4>3, RestGrows
        <3>2. CASE tasks'[j].blocks = Tail(tasks[k].blocks)
            <4>1. Tail(bs) # <<>>
                BY <1>3, <3>2, TasksAfter
            <4>2. RestOK(Tail(bs), DOMAIN blockRows \cup {bs[1].index})
                BY <1>4, <4>1, RestTail
            <4> QED BY <1>3, <2>1, <2>3, <2>6, <3>2, <4>2
        <3> QED BY <3>1, <3>2, TasksAfter
    <2> QED BY <1>1, <2>7, <2>8, <2>9 DEF StoreInv
<1> QED BY <1>5, <1>6

LEMMA StoreFails ==
    ASSUME TypeOK, StoreInv, NEW k \in DOMAIN tasks, TaskFails(k)
    PROVE  StoreInv'
<1>1. UNCHANGED <<blocks, blockRows>>
    BY DEF TaskFails, memory, rows
<1>2. \A j \in DOMAIN tasks' : \E i \in DOMAIN tasks : tasks'[j].blocks = tasks[i].blocks
    <2>1. \A j \in DOMAIN tasks' :
              \/ \E i \in DOMAIN tasks : tasks'[j].blocks = tasks[i].blocks
              \/ Part(tasks[k]) = "blocks" /\ TaskWrites(k)
        BY TasksAfter
    <2>2. ASSUME Part(tasks[k]) = "blocks" 
          PROVE \A j \in DOMAIN tasks' : \E i \in DOMAIN tasks : tasks'[j].blocks = tasks[i].blocks
        <3>1. tasks' = RemoveAt(tasks, k) /\ IsSeq(tasks)
            BY <2>2 DEF TaskFails, TypeOK
        <3>2. \A j \in DOMAIN tasks' : \E i \in DOMAIN tasks : tasks'[j] = tasks[i]
            BY <3>1, RemoveFacts
        <3> QED BY <3>2
    <2> QED BY <2>1, <2>2
<1> QED BY <1>1, <1>2 DEF StoreInv

(* What a start-up loads. *)
LEMMA LoadOK ==
    ASSUME StoreInv, NEW stamp
    PROVE  ChainOK(LoadChain(stamp))
<1>1. PICK n \in Nat : DOMAIN blockRows = 0 .. n - 1
    BY DEF StoreInv
<1>2. PICK c : c = LoadChain(stamp)
    OBVIOUS
<1>3. /\ IsSeq(c) /\ DOMAIN c = 1 .. (IF n = 0 THEN 1 ELSE n)
      /\ c[1] = Genesis(stamp) /\ \A p \in 2 .. n : c[p] = blockRows[p - 1]
    BY <1>1, <1>2, LoadFacts
<1>4. c # <<>>
    BY <1>3
<1>5. ASSUME NEW p \in DOMAIN c PROVE BlockOK(c[p], p - 1)
    <2>1. CASE p = 1
        BY <1>3, <2>1, GenesisOK
    <2>2. CASE p # 1
        <3>1. p \in 2 .. n /\ p - 1 \in DOMAIN blockRows
            BY <1>1, <1>3, <2>2
        <3> QED BY <1>3, <3>1 DEF StoreInv
    <2> QED BY <2>1, <2>2
<1> QED BY <1>2, <1>3, <1>4, <1>5 DEF ChainOK

LEMMA StoreStep == ASSUME TypeOK, StoreInv, [Next]_vars PROVE StoreInv'
<1> USE DEF others
<1>0. GenesisData # Note /\ GenesisData # Redacted /\ GenesisData \notin Ids
    BY PersistenceAssumption
<1>1. CASE ChainSame
    BY <1>1 DEF ChainSame, StoreInv
<1>2. CASE Grows
    <2>1. PICK data \in Ids \cup {Note} : blocks' = AppendBlock(blocks, data, starts)
        BY <1>2 DEF Grows
    <2>2. ChainOK(blocks')
        BY <1>0, <2>1, AppendOK DEF StoreInv
    <2> QED BY <1>2, <2>2 DEF Grows, StoreInv
<1>3. CASE Redacts
    <2>1. PICK index \in Nat \ {0} : blocks' = Redact(blocks, index)
        BY <1>3 DEF Redacts
    <2>2. ChainOK(blocks')
        BY <1>0, <2>1, RedactOK DEF StoreInv
    <2> QED BY <1>3, <2>2 DEF Redacts, StoreInv
<1>4. CASE Hands
    <2>1. PICK task : tasks' = Append(tasks, task) /\ task.blocks = blocks
        BY <1>4 DEF Hands
    <2>2. UNCHANGED <<blocks, blockRows>>
        BY <1>4 DEF Hands
    <2>3. /\ DOMAIN tasks' = 1 .. Len(tasks) + 1 /\ Len(tasks) \in Nat
          /\ DOMAIN tasks = 1 .. Len(tasks)
          /\ \A i \in 1 .. Len(tasks) : tasks'[i] = tasks[i]
          /\ tasks'[Len(tasks) + 1] = task
        BY <2>1, SeqAppend, SeqFacts DEF TypeOK
    <2>4. RestOK(blocks, DOMAIN blockRows)
        BY ChainRest DEF StoreInv
    <2>5. ASSUME NEW k \in DOMAIN tasks' PROVE RestOK(tasks'[k].blocks, DOMAIN blockRows)
        <3>1. CASE k \in DOMAIN tasks
            BY <2>3, <3>1 DEF StoreInv
        <3>2. CASE k = Len(tasks) + 1
            BY <2>1, <2>3, <2>4, <3>2
        <3> QED BY <2>3, <3>1, <3>2
    <2> QED BY <2>2, <2>5 DEF StoreInv
<1>5. ASSUME NEW k \in DOMAIN tasks, TaskWrites(k) \/ TaskFails(k) PROVE StoreInv'
    BY <1>5, StoreWrites, StoreFails
<1>6. ASSUME NEW a \in BOOLEAN, NEW c \in BOOLEAN, Restart(a, c) PROVE StoreInv'
    <2>1. ChainOK(LoadChain(starts + 1)) /\ ChainOK(NewChain(starts + 1))
        BY LoadOK, NewChainOK
    <2>2. ChainOK(blocks') /\ tasks' = <<>> /\ UNCHANGED blockRows
        BY <1>6, <2>1 DEF Restart, rows
    <2>3. DOMAIN tasks' = {}
        BY <2>2
    <2> QED BY <2>2, <2>3 DEF StoreInv
<1> QED BY <1>1, <1>2, <1>3, <1>4, <1>5, <1>6, ChainCases

LEMMA StoreInit == Init => StoreInv
<1> SUFFICES ASSUME Init PROVE StoreInv
    OBVIOUS
<1>1. ChainOK(blocks) /\ DOMAIN tasks = {}
    BY NewChainOK DEF Init
<1>2. DOMAIN blockRows = 0 .. 0 - 1
    BY DEF Init, Empty
<1>3. \A i \in DOMAIN blockRows : BlockOK(blockRows[i], i)
    BY <1>2
<1> QED BY <1>1, <1>2, <1>3 DEF StoreInv

(* Every state is well typed: tasks and copies are sequences, no task is   *)
(* kept that has nothing left to write, only a saving thread holds a copy. *)
(* And the chain in memory, what is stored of it and what the tasks still  *)
(* write fit together.                                                     *)
THEOREM PersistenceType == Spec => [](TypeOK /\ StoreInv)
<1>1. Init => TypeOK /\ StoreInv
    BY TypeInit, StoreInit
<1>2. (TypeOK /\ StoreInv) /\ [Next]_vars => (TypeOK /\ StoreInv)'
    BY TypeStep, StoreStep
<1> QED BY <1>1, <1>2, PTL DEF Spec

(* For any number of threads and requests, whatever writes fail and        *)
(* wherever the process dies, the stored blocks are an initial part of a   *)
(* chain.                                                                  *)
THEOREM StoredPrefixHolds == Spec => []StoredPrefix
<1>1. StoreInv => StoredPrefix
    <2> SUFFICES ASSUME StoreInv PROVE StoredPrefix
        OBVIOUS
    <2>1. PICK n \in Nat : DOMAIN blockRows = 0 .. n - 1
        BY DEF StoreInv
    <2>2. Cardinality(0 .. n - 1) = IF 0 > n - 1 THEN 0 ELSE n - 1 - 0 + 1
        BY FS_Interval
    <2>3. Cardinality(0 .. n - 1) = n
        BY <2>2
    <2> QED BY <2>1, <2>3 DEF StoredPrefix
<1> QED BY <1>1, PersistenceType, PTL

-----------------------------------------------------------------------------
(* Verification. *)

(* A chain whose blocks carry their positions and that starts with a block *)
(* without predecessor.                                                    *)
Indexed(c) ==
    /\ IsSeq(c) /\ c # <<>> /\ c[1].prev = ZeroHash
    /\ \A p \in DOMAIN c : c[p].index = p - 1

LEMMA VerifyFacts ==
    ASSUME NEW c, Indexed(c)
    PROVE  /\ \A p \in DOMAIN c : p - 1 \in VerifyChain(c) <=>
                 \/ ~VerifySelf(c[p])
                 \/ p # 1 /\ c[p].prev # c[p - 1].hash
           /\ VerifyChain(c) = {} <=>
                 \A p \in DOMAIN c : /\ VerifySelf(c[p])
                                     /\ p # 1 => c[p].prev = c[p - 1].hash
<1>1. Len(c) \in Nat /\ Len(c) # 0 /\ DOMAIN c = 1 .. Len(c)
    BY SeqFacts DEF Indexed
<1>2. VerifyChain(c) = {c[p].index : p \in {q \in DOMAIN c : ~VerifySelf(c[q])}}
            \cup {c[p].index : p \in {q \in 2 .. Len(c) : c[q].prev # c[q - 1].hash}}
    BY DEF VerifyChain, Indexed
<1>3. ASSUME NEW p \in DOMAIN c
      PROVE p - 1 \in VerifyChain(c) <=> \/ ~VerifySelf(c[p])
                                         \/ p # 1 /\ c[p].prev # c[p - 1].hash
    <2>1. ASSUME p - 1 \in VerifyChain(c)
          PROVE ~VerifySelf(c[p]) \/ (p # 1 /\ c[p].prev # c[p - 1].hash)
        <3>1. CASE \E q \in DOMAIN c : ~VerifySelf(c[q]) /\ p - 1 = c[q].index
            <4>1. PICK q \in DOMAIN c : ~VerifySelf(c[q]) /\ p - 1 = q - 1
                BY <3>1 DEF Indexed
            <4>2. p = q
                BY <1>1, <4>1
            <4> QED BY <4>1, <4>2
        <3>2. CASE \E q \in 2 .. Len(c) : c[q].prev # c[q - 1].hash /\ p - 1 = c[q].index
            <4>1. PICK q \in 2 .. Len(c) : c[q].prev # c[q - 1].hash /\ p - 1 = c[q].index
                BY <3>2
            <4>2. q \in DOMAIN c /\ q # 1
                BY <1>1
            <4>3. p = q
                BY <1>1, <4>1, <4>2 DEF Indexed
            <4> QED BY <4>1, <4>2, <4>3
        <3> QED BY <1>2, <2>1, <3>1, <3>2
    <2>2. ASSUME ~VerifySelf(c[p]) PROVE p - 1 \in VerifyChain(c)
        <3>1. p - 1 = c[p].index
            BY DEF Indexed
        <3> QED BY <1>2, <2>2, <3>1
    <2>3. ASSUME p # 1, c[p].prev # c[p - 1].hash PROVE p - 1 \in VerifyChain(c)
        <3>1. p - 1 = c[p].index /\ p \in 2 .. Len(c)
            BY <1>1, <2>3 DEF Indexed
        <3> QED BY <1>2, <2>3, <3>1
    <2> QED BY <2>1, <2>2, <2>3
<1>4. ASSUME NEW x \in VerifyChain(c) PROVE \E p \in DOMAIN c : x = p - 1
    BY <1>1, <1>2 DEF Indexed
<1> QED BY <1>3, <1>4

(* The proof of a block convinces exactly when verify_chain has nothing    *)
(* against it.                                                             *)
LEMMA ProofFacts ==
    ASSUME NEW c, Indexed(c), NEW p \in DOMAIN c
    PROVE  VerifyPosition(ProofForBlock(c, p - 1)) <=> p - 1 \notin VerifyChain(c)
<1>1. p \in Nat \ {0}
    BY SeqFacts DEF Indexed
<1>2. p - 1 + 1 = p /\ (p - 1 > 0 <=> p # 1)
    BY <1>1
<1>3. VerifyPosition(ProofForBlock(c, p - 1)) <=>
          VerifySelf(c[p]) /\ (p # 1 => c[p].prev = c[p - 1].hash)
    BY <1>2 DEF VerifyPosition, ProofForBlock
<1> QED BY <1>3, VerifyFacts

(* The batch verifier on a chain of more than one chunk. *)
LEMMA BatchFacts ==
    ASSUME NEW c, Indexed(c), NEW n \in Nat \ {0}, ~Sequential(Len(c), n)
    PROVE  /\ BatchVerify(c, n) = {} =>
                 \A p \in DOMAIN c :
                     c[p].hash = HashOver(c[p], IF p = 1 THEN ZeroHash ELSE c[p - 1].hash)
           /\ (\A p \in DOMAIN c :
                   /\ c[p].hash = HashOver(c[p], IF p = 1 THEN ZeroHash ELSE c[p - 1].hash)
                   /\ c[p].prev = IF p = 1 THEN ZeroHash ELSE c[p - 1].hash)
              => BatchVerify(c, n) = {}
<1> DEFINE Before(p) == IF p = 1 THEN ZeroHash ELSE c[p - 1].hash
           at == {ChunkStart(Len(c), n, k) + 1 : k \in 2 .. n} \cap 1 .. Len(c)
           Bad == {c[p].index : p \in {q \in 1 .. Len(c) : c[q].hash # HashOver(c[q], Before(q))}}
           Apart == {c[p].index : p \in {q \in at : c[q].prev # Before(q)}}
<1>1. DOMAIN c = 1 .. Len(c)
    BY SeqFacts DEF Indexed
<1>2. BatchVerify(c, n) = Bad \cup Apart
    BY DEF BatchVerify
<1>3. ASSUME NEW p \in DOMAIN c, Bad = {} PROVE c[p].hash = HashOver(c[p], Before(p))
    BY <1>1, <1>3
<1>4. at \subseteq DOMAIN c
    BY <1>1
<1>5. ASSUME \A p \in DOMAIN c : c[p].hash = HashOver(c[p], Before(p)) /\ c[p].prev = Before(p)
      PROVE Bad = {} /\ Apart = {}
    BY <1>1, <1>4, <1>5
<1> HIDE DEF Bad, Apart
<1> QED BY <1>2, <1>3, <1>5

LEMMA ChainIndexed == ASSUME NEW c, ChainOK(c) PROVE Indexed(c)
<1>1. 1 \in DOMAIN c
    BY SeqFacts DEF ChainOK
<1>2. BlockOK(c[1], 1 - 1)
    BY <1>1 DEF ChainOK
<1> QED BY <1>2 DEF ChainOK, Indexed, BlockOK

(* The forged chain, and the forged block. *)
LEMMA ForgedFacts ==
    ASSUME ChainOK(blocks), NEW p \in DOMAIN blocks
    PROVE  /\ Indexed(Forged(p)) /\ DOMAIN Forged(p) = DOMAIN blocks
           /\ \A q \in DOMAIN blocks : q # p => Forged(p)[q] = blocks[q]
           /\ Forged(p)[p].prev = blocks[p].prev
           /\ Forged(p)[p].index = p - 1
           /\ \A over : Forged(p)[p].hash # HashOver(Forged(p)[p], over)
<1>0. GenesisData # Redacted
    BY PersistenceAssumption
<1>1. IsSeq(blocks) /\ DOMAIN blocks = 1 .. Len(blocks) /\ Len(blocks) \in Nat /\ Len(blocks) # 0
    BY SeqFacts DEF ChainOK
<1>2. PICK f : f = [index |-> blocks[p].index, prev |-> blocks[p].prev, data |-> Forgery(p),
                    stamp |-> blocks[p].stamp, hash |-> blocks[p].hash]
    OBVIOUS
<1>3. BlockOK(blocks[p], p - 1)
    BY DEF ChainOK
<1>4. /\ f.index = p - 1 /\ f.prev = blocks[p].prev /\ f.data = Forgery(p)
      /\ f.hash = <<blocks[p].hash[1], p - 1, blocks[p].data, blocks[p].stamp>>
    BY <1>2, <1>3 DEF BlockOK, ComputeHash
<1>5. blocks[p].data # Forgery(p)
    <2>1. p - 1 = 0 <=> p = 1
        BY <1>1
    <2> QED BY <1>0, <1>3, <2>1 DEF BlockOK, Forgery
<1>6. ASSUME NEW over PROVE f.hash # HashOver(f, over)
    BY <1>4, <1>5 DEF HashOver, ComputeHash
<1>7. PICK g : g = [blocks EXCEPT ![p] = f]
    OBVIOUS
<1>8. Forged(p) = g
    BY <1>2, <1>7 DEF Forged
<1>9. /\ IsSeq(g) /\ Len(g) = Len(blocks)
      /\ \A i \in 1 .. Len(blocks) : g[i] = IF i = p THEN f ELSE blocks[i]
    <2>1. /\ IsSeq([blocks EXCEPT ![p] = f]) /\ Len([blocks EXCEPT ![p] = f]) = Len(blocks)
          /\ \A i \in 1 .. Len(blocks) :
                [blocks EXCEPT ![p] = f][i] = IF i = p THEN f ELSE blocks[i]
        BY <1>1, SeqExcept, Zenon
    <2> QED BY <1>7, <2>1
<1>10. DOMAIN g = 1 .. Len(blocks) /\ g # <<>>
    BY <1>1, <1>9, SeqFacts
<1>11. Indexed(blocks)
    BY ChainIndexed
<1>12. Indexed(g)
    <2>1. \A q \in DOMAIN g : g[q].index = q - 1
        BY <1>1, <1>4, <1>9, <1>10, <1>11 DEF Indexed
    <2>2. g[1].prev = ZeroHash
        BY <1>1, <1>4, <1>9, <1>11 DEF Indexed
    <2> QED BY <1>9, <1>10, <2>1, <2>2 DEF Indexed
<1> QED BY <1>1, <1>4, <1>6, <1>8, <1>9, <1>10, <1>12

(* The block behind one that was sealed over other data. *)
LEMMA ResealedFacts ==
    ASSUME ChainOK(blocks), NEW p \in DOMAIN blocks, p < Len(blocks)
    PROVE  p \in VerifyChain(Resealed(p))
<1>0. GenesisData # Redacted
    BY PersistenceAssumption
<1>1. IsSeq(blocks) /\ DOMAIN blocks = 1 .. Len(blocks) /\ Len(blocks) \in Nat /\ Len(blocks) # 0
    BY SeqFacts DEF ChainOK
<1>2. PICK f : f = Sealed(blocks[p].index, blocks[p].prev, blocks[p].prev, Forgery(p),
                          blocks[p].stamp)
    OBVIOUS
<1>3. /\ f.index = p - 1 /\ f.prev = blocks[p].prev
      /\ f.hash = <<blocks[p].prev, p - 1, Forgery(p), blocks[p].stamp>>
    BY <1>2 DEF Sealed, ComputeHash, ChainOK, BlockOK
<1>4. PICK g : g = [blocks EXCEPT ![p] = f]
    OBVIOUS
<1>5. Resealed(p) = g
    BY <1>2, <1>4 DEF Resealed
<1>6. /\ IsSeq(g) /\ Len(g) = Len(blocks)
      /\ \A i \in 1 .. Len(blocks) : g[i] = IF i = p THEN f ELSE blocks[i]
    <2>1. /\ IsSeq([blocks EXCEPT ![p] = f]) /\ Len([blocks EXCEPT ![p] = f]) = Len(blocks)
          /\ \A i \in 1 .. Len(blocks) :
                [blocks EXCEPT ![p] = f][i] = IF i = p THEN f ELSE blocks[i]
        BY <1>1, SeqExcept, Zenon
    <2> QED BY <1>4, <2>1
<1>7. DOMAIN g = 1 .. Len(blocks) /\ g # <<>>
    BY <1>1, <1>6, SeqFacts
<1>8. Indexed(blocks)
    BY ChainIndexed
<1>9. Indexed(g)
    <2>1. \A q \in DOMAIN g : g[q].index = q - 1
        BY <1>1, <1>3, <1>6, <1>7, <1>8 DEF Indexed
    <2>2. g[1].prev = ZeroHash
        BY <1>1, <1>3, <1>6, <1>8 DEF Indexed
    <2> QED BY <1>6, <1>7, <2>1, <2>2 DEF Indexed
<1>10. p + 1 \in DOMAIN g /\ p + 1 # 1 /\ p + 1 - 1 = p /\ p + 1 # p
    BY <1>1, <1>7
<1>11. g[p + 1].prev # g[p + 1 - 1].hash
    <2>1. g[p + 1] = blocks[p + 1] /\ g[p + 1 - 1] = f
        BY <1>1, <1>6, <1>7, <1>10
    <2>2. BlockOK(blocks[p + 1], p)
        <3>1. BlockOK(blocks[p + 1], p + 1 - 1)
            BY <1>1, <1>7, <1>10 DEF ChainOK
        <3> QED BY <1>10, <3>1
    <2>3. p # 0
        BY <1>1
    <2>4. blocks[p + 1].prev[3] = GenesisData <=> p = 1
        BY <2>2, <2>3 DEF BlockOK
    <2>5. f.hash[3] = Forgery(p)
        BY <1>3
    <2>6. f.hash[3] = GenesisData <=> p # 1
        BY <1>0, <2>5 DEF Forgery
    <2> QED BY <2>1, <2>4, <2>6
<1>12. p + 1 - 1 \in VerifyChain(g)
    BY <1>9, <1>10, <1>11, VerifyFacts
<1> QED BY <1>5, <1>10, <1>12

(* Chunks at least as large as they are many stay within the chain. *)
LEMMA ChunksInRange ==
    ASSUME NEW total \in Nat, NEW most \in 1 .. total, NEW perChunk \in most .. total
    PROVE  SlicesInRange(total, NumChunks(total, perChunk, most))
<1>1. PICK n : n = NumChunks(total, perChunk, most)
    OBVIOUS
<1>2. PICK w \in Nat : w = total \div perChunk
    OBVIOUS
<1>3. perChunk * w <= total
    BY <1>2
<1>4. n \in Nat \ {0} /\ n <= most /\ (n = 1 \/ n <= w)
    BY <1>1, <1>2 DEF NumChunks
<1>5. CASE n = 1
    BY <1>1, <1>5 DEF SlicesInRange, Sequential
<1>6. CASE n # 1
    <2>1. n <= w /\ n <= perChunk
        BY <1>4, <1>6
    <2>2. n * n <= total
        <3>1. n * n <= perChunk * n
            BY <1>4, <2>1
        <3>2. perChunk * n <= perChunk * w
            BY <1>4, <2>1
        <3> QED BY <1>3, <1>4, <3>1, <3>2
    <2>3. PICK d \in Nat : d = DivCeil(total, n)
        BY <1>4 DEF DivCeil
    <2>4. n * d <= total + n - 1 /\ total + n - 1 < n * d + n
        BY <1>4, <2>3 DEF DivCeil
    <2>5. d >= n
        <3> SUFFICES ASSUME d <= n - 1 PROVE FALSE
            BY <1>4
        <3>1. n * d <= n * (n - 1)
            BY <1>4
        <3>2. n * (n - 1) = n * n - n
            BY <1>4
        <3> QED BY <1>4, <2>2, <2>4, <3>1, <3>2
    <2>6. ASSUME NEW k \in 1 .. n PROVE (k - 1) * d <= total
        <3>1. (k - 1) * d <= (n - 1) * d
            BY <1>4
        <3>2. (n - 1) * d = n * d - d
            BY <1>4
        <3> QED BY <1>4, <2>4, <2>5, <3>1, <3>2
    <2> QED BY <1>1, <2>3, <2>6 DEF SlicesInRange, ChunkStart
<1> QED BY <1>5, <1>6

LEMMA BatchAgrees ==
    ASSUME ChainOK(blocks), \A p \in DOMAIN blocks : VerifySelf(blocks[p]),
           NEW n \in Nat \ {0},
           NEW c \in {blocks} \cup {Forged(p) : p \in DOMAIN blocks}
    PROVE  BatchVerify(c, n) = {} <=> VerifyChain(c) = {}
<1>1. CASE Sequential(Len(c), n)
    BY <1>1 DEF BatchVerify
<1>2. CASE ~Sequential(Len(c), n)
    <2>1. ASSUME NEW p \in DOMAIN blocks, c = Forged(p)
          PROVE BatchVerify(c, n) # {} /\ VerifyChain(c) # {}
        <3>1. /\ Indexed(c) /\ p \in DOMAIN c
              /\ \A over : c[p].hash # HashOver(c[p], over)
            BY <2>1, ForgedFacts
        <3>2. ~VerifySelf(c[p])
            BY <3>1 DEF VerifySelf
        <3> QED BY <1>2, <3>1, <3>2, VerifyFacts, BatchFacts
    <2>2. CASE c = blocks
        <3>1. Indexed(c)
            BY <2>2, ChainIndexed
        <3> DEFINE Before(p) == IF p = 1 THEN ZeroHash ELSE c[p - 1].hash
        <3>2. ASSUME NEW p \in DOMAIN c
              PROVE c[p].hash = HashOver(c[p], Before(p)) <=> c[p].prev = Before(p)
            BY <2>2 DEF VerifySelf, HashOver, ComputeHash
        <3>3. VerifyChain(c) = {} <=> \A p \in DOMAIN c : c[p].prev = Before(p)
            BY <2>2, <3>1, VerifyFacts DEF Indexed
        <3>4. /\ BatchVerify(c, n) = {} =>
                    \A p \in DOMAIN c : c[p].hash = HashOver(c[p], Before(p))
              /\ (\A p \in DOMAIN c : /\ c[p].hash = HashOver(c[p], Before(p))
                                      /\ c[p].prev = Before(p))
                    => BatchVerify(c, n) = {}
            BY <1>2, <3>1, BatchFacts
        <3> QED BY <3>2, <3>3, <3>4
    <2> QED BY <2>1, <2>2
<1> QED BY <1>1, <1>2

(* Whatever chain the server holds: changed data is found at its block, or *)
(* at the next when the block was sealed anew; proofs of single blocks     *)
(* agree with verify_chain, and so does the batch verifier, on any number  *)
(* of chunks that stay within the chain, as those of                       *)
(* parallel_verify_chain do.                                               *)
THEOREM TamperingIsDetected == Spec => []TamperingDetected
<1>1. StoreInv => TamperingDetected
    <2> SUFFICES ASSUME StoreInv PROVE TamperingDetected
        OBVIOUS
    <2>1. ChainOK(blocks) /\ Indexed(blocks)
        BY ChainIndexed DEF StoreInv
    <2>2. Len(blocks) \in Nat
        BY SeqFacts DEF StoreInv, ChainOK
    <2>3. ASSUME NEW p \in DOMAIN blocks
          PROVE /\ blocks[p].index \in VerifyChain(Forged(p))
                /\ p < Len(blocks) => p \in VerifyChain(Resealed(p))
                /\ \A c \in {blocks, Forged(p)} :
                      VerifyPosition(ProofForBlock(c, p - 1)) <=> p - 1 \notin VerifyChain(c)
        <3>1. PICK c : c = Forged(p)
            OBVIOUS
        <3>2. /\ Indexed(c) /\ p \in DOMAIN c
              /\ \A over : c[p].hash # HashOver(c[p], over)
            BY <2>1, <3>1, ForgedFacts
        <3>3. ~VerifySelf(c[p])
            BY <3>2 DEF VerifySelf
        <3>4. p - 1 \in VerifyChain(c)
            BY <3>2, <3>3, VerifyFacts
        <3>5. blocks[p].index = p - 1
            BY <2>1 DEF Indexed
        <3>6. p < Len(blocks) => p \in VerifyChain(Resealed(p))
            BY <2>1, ResealedFacts
        <3>7. /\ VerifyPosition(ProofForBlock(c, p - 1)) <=> p - 1 \notin VerifyChain(c)
              /\ VerifyPosition(ProofForBlock(blocks, p - 1)) <=> p - 1 \notin VerifyChain(blocks)
            BY <2>1, <3>2, ProofFacts
        <3> QED BY <3>1, <3>4, <3>5, <3>6, <3>7
    <2>4. ASSUME \A p \in DOMAIN blocks : VerifySelf(blocks[p]),
                 NEW n \in 1 .. Len(blocks),
                 NEW c \in {blocks} \cup {Forged(p) : p \in DOMAIN blocks}
          PROVE BatchVerify(c, n) = {} <=> VerifyChain(c) = {}
        <3>1. n \in Nat \ {0}
            BY <2>2
        <3> QED BY <2>1, <2>4, <3>1, BatchAgrees
    <2>5. ASSUME NEW most \in 1 .. Len(blocks), NEW perChunk \in most .. Len(blocks)
          PROVE SlicesInRange(Len(blocks), NumChunks(Len(blocks), perChunk, most))
        BY <2>2, ChunksInRange
    <2> QED BY <2>3, <2>4, <2>5 DEF TamperingDetected
<1> QED BY <1>1, PersistenceType, PTL

-----------------------------------------------------------------------------
(* Links. *)

LEMMA KeptFacts ==
    ASSUME NEW b
    PROVE  b \in Kept <=>
               \/ \E i \in DOMAIN blockRows : i # 0 /\ b = blockRows[i]
               \/ \E k \in DOMAIN tasks : \E q \in DOMAIN tasks[k].blocks :
                      b.index # 0 /\ b = tasks[k].blocks[q]
BY DEF Kept

(* A write or a failure adds nothing to what is kept. *)
LEMMA KeptAfter ==
    ASSUME TypeOK, StoreInv, NEW k \in DOMAIN tasks, TaskWrites(k) \/ TaskFails(k)
    PROVE  Kept' \subseteq Kept
<1>1. PICK bs : bs = tasks[k].blocks
    OBVIOUS
<1>2. IsSeq(bs) /\ bs # <<>> /\ RestOK(bs, DOMAIN blockRows) /\ 1 \in DOMAIN bs
      /\ DOMAIN bs = 1 .. Len(bs) /\ Len(bs) \in Nat
    BY <1>1, SeqFacts DEF TypeOK, StoreInv
<1>3. ASSUME NEW i \in DOMAIN blockRows', i # 0 PROVE blockRows'[i] \in Kept
    <2>1. CASE blockRows' = blockRows
        BY <1>3, <2>1, KeptFacts
    <2>2. CASE blockRows' # blockRows
        <3>1. blockRows' = Upsert(blockRows, Head(bs).index, Head(bs))
            BY <1>1, <2>2 DEF TaskWrites, TaskFails, rows
        <3>2. Head(bs) = bs[1]
            BY <1>2, SeqTail
        <3>3. \/ i = bs[1].index /\ blockRows'[i] = bs[1]
              \/ i \in DOMAIN blockRows /\ blockRows'[i] = blockRows[i]
            BY <3>1, <3>2 DEF Upsert
        <3> QED BY <1>1, <1>2, <1>3, <3>3, KeptFacts
    <2> QED BY <2>1, <2>2
<1>4. ASSUME NEW j \in DOMAIN tasks', NEW q \in DOMAIN tasks'[j].blocks, tasks'[j].blocks[q].index # 0
      PROVE tasks'[j].blocks[q] \in Kept
    <2>1. CASE \E i \in DOMAIN tasks : tasks'[j].blocks = tasks[i].blocks
        BY <1>4, <2>1, KeptFacts
    <2>2. CASE tasks'[j].blocks = Tail(tasks[k].blocks)
        <3>1. q \in 1 .. Len(bs) - 1 /\ Tail(bs)[q] = bs[q + 1] /\ q + 1 \in DOMAIN bs
            BY <1>1, <1>2, <2>2, SeqTail, SeqFacts
        <3>2. tasks'[j].blocks[q] = tasks[k].blocks[q + 1] /\ q + 1 \in DOMAIN tasks[k].blocks
            BY <1>1, <2>2, <3>1
        <3> QED BY <1>4, <3>2, KeptFacts
    <2> QED BY <2>1, <2>2, TasksAfter
<1> QED BY <1>3, <1>4 DEF Kept

(* LinkInv lasts while the chain in memory stays and what is kept does not *)
(* grow.                                                                   *)
LEMMA LinkSame ==
    ASSUME LinkInv, Kept' \subseteq Kept, UNCHANGED <<blocks, lock, starts, chainLost>>
    PROVE  LinkInv'
BY DEF LinkInv

LEMMA LinkGrows ==
    ASSUME TypeOK, StoreInv, LinkInv, Grows
    PROVE  LinkInv'
<1>0. GenesisData # Note /\ GenesisData \notin Ids
    BY PersistenceAssumption
<1>1. PICK data \in Ids \cup {Note} : blocks' = AppendBlock(blocks, data, starts)
    BY DEF Grows
<1>2. IsSeq(blocks) /\ Len(blocks) \in Nat /\ Len(blocks) # 0 /\ DOMAIN blocks = 1 .. Len(blocks)
    BY SeqFacts DEF StoreInv, ChainOK
<1>3. PICK c : c = NextLink(blocks[Len(blocks)], data, starts)
    OBVIOUS
<1>4. /\ ChainOK(blocks') /\ Len(blocks') = Len(blocks) + 1
      /\ \A p \in 1 .. Len(blocks) : blocks'[p] = blocks[p]
      /\ blocks'[Len(blocks) + 1] = c
    BY <1>0, <1>1, <1>2, <1>3, AppendOK DEF StoreInv
<1>5. DOMAIN blocks' = 1 .. Len(blocks) + 1
    BY <1>4, SeqFacts DEF ChainOK
<1>6. VerifySelf(c) /\ c.prev = blocks[Len(blocks)].hash
    BY <1>3 DEF NextLink, Sealed, VerifySelf, HashOver
<1>7. UNCHANGED <<lock, tasks, blockRows, starts, chainLost>> /\ lock = NoThread
    BY DEF Grows, others
<1>8. Kept' = Kept
    BY <1>7 DEF Kept
<1> SUFFICES ASSUME ~chainLost PROVE LinkInv'
    BY <1>7 DEF LinkInv
<1>9. \A p \in 1 .. Len(blocks) : VerifySelf(blocks[p])
    BY <1>2, <1>7 DEF LinkInv
<1>10. ASSUME NEW p \in 2 .. Len(blocks'), p > 2 \/ starts = 1
       PROVE VerifySelf(blocks'[p]) /\ blocks'[p].prev = blocks'[p - 1].hash
    <2>1. CASE p = Len(blocks) + 1
        <3>1. blocks'[p - 1] = blocks[Len(blocks)] /\ blocks'[p] = c
            BY <1>2, <1>4, <2>1
        <3> QED BY <1>6, <3>1
    <2>2. CASE p # Len(blocks) + 1
        <3>1. p \in 2 .. Len(blocks) /\ blocks'[p] = blocks[p] /\ blocks'[p - 1] = blocks[p - 1]
            BY <1>2, <1>4, <2>2
        <3> QED BY <1>10, <3>1 DEF LinkInv
    <2> QED BY <2>1, <2>2
<1>11. \A p \in DOMAIN blocks' : VerifySelf(blocks'[p])
    <2>1. ASSUME NEW p \in DOMAIN blocks' PROVE VerifySelf(blocks'[p])
        <3>1. p \in 1 .. Len(blocks) \/ p = Len(blocks) + 1
            BY <1>2, <1>5
        <3> QED BY <1>4, <1>6, <1>9, <3>1
    <2> QED BY <2>1
<1>12. \A b \in Kept : b.index + 1 \in DOMAIN blocks' /\ b = blocks'[b.index + 1]
    <2>1. ASSUME NEW b \in Kept PROVE b.index + 1 \in DOMAIN blocks' /\ b = blocks'[b.index + 1]
        <3>1. b.index + 1 \in DOMAIN blocks /\ b = blocks[b.index + 1]
            BY <1>7 DEF LinkInv
        <3>2. b.index + 1 \in 1 .. Len(blocks) /\ b.index + 1 \in DOMAIN blocks'
            BY <1>2, <1>5, <3>1
        <3> QED BY <1>4, <3>1, <3>2
    <2> QED BY <2>1
<1> QED BY <1>7, <1>8, <1>10, <1>11, <1>12 DEF LinkInv

LEMMA LinkRedacts ==
    ASSUME TypeOK, StoreInv, LinkInv, Redacts
    PROVE  LinkInv'
<1>1. PICK index \in Nat \ {0} : index < Len(blocks) /\ blocks' = Redact(blocks, index)
    BY DEF Redacts
<1>2. IsSeq(blocks) /\ Len(blocks) \in Nat /\ Len(blocks) # 0 /\ DOMAIN blocks = 1 .. Len(blocks)
    BY SeqFacts DEF StoreInv, ChainOK
<1>3. IsRedaction(blocks', blocks, Len(blocks), index)
    BY <1>1, <1>2, RedactSolves
<1>4. PICK g : g = blocks'
    OBVIOUS
<1>5. PICK N \in Nat : N = Len(blocks)
    BY <1>2
<1>6. IsRedaction(g, blocks, N, index)
    BY <1>3, <1>4, <1>5
<1>7. /\ \A p \in 1 .. N : p <= index => g[p] = blocks[p]
      /\ \A p \in 1 .. N : p > index => g[p] = Rehash(blocks, index, p, g[p - 1].hash)
    BY <1>6 DEF IsRedaction
<1>8. Len(g) = N
    <2>1. g = [p \in 1 .. N |-> g[p]]
        BY <1>6 DEF IsRedaction
    <2> QED BY <2>1, SeqMade
<1>9. lock' # NoThread /\ UNCHANGED <<tasks, blockRows, starts, chainLost>> /\ Kept' = Kept
    BY PersistenceAssumption DEF Redacts, others, Kept
<1> SUFFICES ASSUME ~chainLost PROVE LinkInv'
    BY <1>9 DEF LinkInv
<1>10. ASSUME NEW p \in 2 .. N, p > 2 \/ starts = 1
       PROVE VerifySelf(g[p]) /\ g[p].prev = g[p - 1].hash
    <2>0. p \in 1 .. N /\ p - 1 \in 1 .. N
        OBVIOUS
    <2>1. VerifySelf(blocks[p]) /\ blocks[p].prev = blocks[p - 1].hash
        BY <1>5, <1>10 DEF LinkInv
    <2>2. CASE p <= index
        <3>1. g[p] = blocks[p] /\ g[p - 1] = blocks[p - 1]
            BY <1>7, <2>0, <2>2
        <3> QED BY <2>1, <3>1
    <2>3. CASE p = index + 1
        <3>1. g[p] = Rehash(blocks, index, p, g[p - 1].hash) /\ g[p - 1] = blocks[p - 1]
            BY <1>7, <2>0, <2>3
        <3>2. g[p] = Sealed(blocks[p].index, blocks[p].prev, blocks[p].prev, Redacted, blocks[p].stamp)
            BY <2>1, <2>3, <3>1 DEF Rehash
        <3> QED BY <2>1, <3>1, <3>2 DEF Sealed, VerifySelf, HashOver
    <2>4. CASE p > index + 1
        <3>1. g[p] = Rehash(blocks, index, p, g[p - 1].hash)
            BY <1>7, <2>0, <2>4
        <3>2. PICK h : h = g[p - 1].hash
            OBVIOUS
        <3>3. g[p] = Sealed(blocks[p].index, h, h, blocks[p].data, blocks[p].stamp)
            BY <2>4, <3>1, <3>2 DEF Rehash
        <3> QED BY <3>2, <3>3 DEF Sealed, VerifySelf, HashOver
    <2> QED BY <2>2, <2>3, <2>4
<1>11. \A p \in 2 .. Len(blocks') : p > 2 \/ starts' = 1 =>
           VerifySelf(blocks'[p]) /\ blocks'[p].prev = blocks'[p - 1].hash
    BY <1>4, <1>8, <1>9, <1>10
<1> QED BY <1>9, <1>11 DEF LinkInv

(* What a task is given is what memory holds, and everything kept is part  *)
(* of it.                                                                  *)
LEMMA LinkHands ==
    ASSUME TypeOK, StoreInv, LinkInv, Hands
    PROVE  LinkInv'
<1>1. PICK task : tasks' = Append(tasks, task) /\ task.blocks = blocks
    BY DEF Hands
<1>2. UNCHANGED <<blocks, lock, blockRows, starts, chainLost>> /\ lock = NoThread
    BY DEF Hands, others
<1>3. IsSeq(blocks) /\ Len(blocks) \in Nat /\ Len(blocks) # 0 /\ DOMAIN blocks = 1 .. Len(blocks)
    BY SeqFacts DEF StoreInv, ChainOK
<1>4. /\ DOMAIN tasks' = 1 .. Len(tasks) + 1 /\ Len(tasks) \in Nat
      /\ DOMAIN tasks = 1 .. Len(tasks)
      /\ \A i \in 1 .. Len(tasks) : tasks'[i] = tasks[i]
      /\ tasks'[Len(tasks) + 1] = task
    BY <1>1, SeqAppend, SeqFacts DEF TypeOK
<1> SUFFICES ASSUME ~chainLost PROVE LinkInv'
    BY <1>2 DEF LinkInv
<1>5. ASSUME NEW b \in Kept'
      PROVE b.index + 1 \in DOMAIN blocks /\ b = blocks[b.index + 1] /\ b.index # 0
            /\ b.index \in Nat
    <2>1. CASE b \in Kept
        <3>1. b.index + 1 \in DOMAIN blocks /\ b = blocks[b.index + 1]
            BY <1>2, <2>1 DEF LinkInv
        <3>2. b.index # 0 /\ b.index \in Nat
            <4>1. CASE \E i \in DOMAIN blockRows : i # 0 /\ b = blockRows[i]
                BY <4>1 DEF StoreInv, BlockOK
            <4>2. CASE \E k \in DOMAIN tasks : \E q \in DOMAIN tasks[k].blocks :
                          b.index # 0 /\ b = tasks[k].blocks[q]
                <5>1. PICK k \in DOMAIN tasks : \E q \in DOMAIN tasks[k].blocks :
                          b.index # 0 /\ b = tasks[k].blocks[q]
                    BY <4>2
                <5>2. PICK bs : bs = tasks[k].blocks
                    OBVIOUS
                <5>3. PICK q \in DOMAIN bs : b.index # 0 /\ b = bs[q]
                    BY <5>1, <5>2
                <5>4. RestOK(bs, DOMAIN blockRows) /\ DOMAIN bs = 1 .. Len(bs) /\ Len(bs) \in Nat
                    BY <5>2, SeqFacts DEF StoreInv, TypeOK
                <5>5. bs[1].index \in Nat /\ q \in Nat \ {0} /\ b.index = bs[1].index + q - 1
                    BY <5>3, <5>4 DEF RestOK, BlockOK
                <5> QED BY <5>3, <5>5
            <4> QED BY <2>1, <4>1, <4>2, KeptFacts
        <3> QED BY <3>1, <3>2
    <2>2. CASE b \notin Kept
        <3>1. PICK k \in DOMAIN tasks' : \E q \in DOMAIN tasks'[k].blocks :
                  b.index # 0 /\ b = tasks'[k].blocks[q]
            BY <1>2, <2>2 DEF Kept
        <3>2. k \notin DOMAIN tasks
            <4> SUFFICES ASSUME k \in DOMAIN tasks PROVE FALSE
                OBVIOUS
            <4>1. tasks'[k] = tasks[k]
                BY <1>4
            <4> QED BY <2>2, <3>1, <4>1, KeptFacts
        <3>3. tasks'[k] = task
            BY <1>4, <3>2
        <3>4. PICK q \in DOMAIN blocks : b.index # 0 /\ b = blocks[q]
            BY <1>1, <3>1, <3>3
        <3>5. b.index = q - 1 /\ q \in Nat \ {0}
            BY <1>3, <3>4 DEF StoreInv, ChainOK, BlockOK
        <3> QED BY <3>4, <3>5
    <2> QED BY <2>1, <2>2
<1>6. \A b \in Kept' : VerifySelf(b)
    BY <1>2, <1>5 DEF LinkInv
<1>7. \A b, c \in Kept' : c.index = b.index => c = b
    BY <1>5
<1>8. ASSUME NEW b \in Kept', NEW c \in Kept', c.index = b.index + 1 PROVE c.prev = b.hash
    <2>1. PICK p \in Nat : p = c.index + 1
        BY <1>5
    <2>2. p \in 2 .. Len(blocks) /\ p > 2 /\ c = blocks[p] /\ b = blocks[p - 1]
        BY <1>3, <1>5, <1>8, <2>1
    <2> QED BY <2>2 DEF LinkInv
<1> HIDE DEF Kept
<1> QED BY <1>2, <1>5, <1>6, <1>7, <1>8 DEF LinkInv

LEMMA LinkRestart ==
    ASSUME TypeOK, StoreInv, LinkInv, NEW a \in BOOLEAN, NEW l \in BOOLEAN, Restart(a, l)
    PROVE  LinkInv'
<1>1. /\ lock' = NoThread /\ tasks' = <<>> /\ UNCHANGED blockRows
      /\ starts' = starts + 1 /\ starts' # 1
      /\ chainLost' = (chainLost \/ ~l)
      /\ blocks' = IF l THEN LoadChain(starts + 1) ELSE NewChain(starts + 1)
    BY DEF Restart, rows, TypeOK
<1> SUFFICES ASSUME ~chainLost' PROVE LinkInv'
    BY DEF LinkInv
<1>2. ~chainLost /\ blocks' = LoadChain(starts + 1)
    BY <1>1
<1>3. PICK n \in Nat : DOMAIN blockRows = 0 .. n - 1
    BY DEF StoreInv
<1>4. PICK c : c = blocks'
    OBVIOUS
<1>5. /\ IsSeq(c) /\ DOMAIN c = 1 .. (IF n = 0 THEN 1 ELSE n)
      /\ c[1] = Genesis(starts + 1) /\ \A p \in 2 .. n : c[p] = blockRows[p - 1]
    BY <1>2, <1>3, <1>4, LoadFacts
<1>6. Len(c) = IF n = 0 THEN 1 ELSE n
    <2>1. DOMAIN c = 1 .. Len(c) /\ Len(c) \in Nat
        BY <1>5, SeqFacts
    <2> QED BY <1>5, <2>1
<1>7. ASSUME NEW b \in Kept' PROVE \E i \in DOMAIN blockRows : i # 0 /\ b = blockRows[i]
    BY <1>1 DEF Kept
<1>8. Kept' \subseteq Kept
    BY <1>7, KeptFacts
<1>9. ASSUME NEW p \in 2 .. n
      PROVE c[p] \in Kept /\ c[p].index = p - 1
    <2>1. p - 1 \in DOMAIN blockRows /\ p - 1 # 0 /\ c[p] = blockRows[p - 1]
        BY <1>3, <1>5
    <2>2. BlockOK(blockRows[p - 1], p - 1)
        BY <2>1 DEF StoreInv
    <2> QED BY <2>1, <2>2, KeptFacts DEF BlockOK
<1>10. ASSUME NEW p \in 2 .. Len(c), p > 2
       PROVE VerifySelf(c[p]) /\ c[p].prev = c[p - 1].hash
    <2>1. p \in 2 .. n /\ p - 1 \in 2 .. n
        BY <1>6, <1>10
    <2>2. c[p] \in Kept /\ c[p - 1] \in Kept /\ c[p].index = c[p - 1].index + 1
        BY <1>9, <2>1
    <2> QED BY <1>2, <2>2 DEF LinkInv
<1>11. ASSUME NEW p \in DOMAIN c PROVE VerifySelf(c[p])
    <2>1. CASE p = 1
        BY <1>5, <2>1 DEF Genesis, Sealed, VerifySelf, HashOver
    <2>2. CASE p # 1
        <3>1. p \in 2 .. n
            BY <1>5, <2>2
        <3> QED BY <1>2, <1>9, <3>1 DEF LinkInv
    <2> QED BY <2>1, <2>2
<1>12. ASSUME NEW b \in Kept' PROVE b.index + 1 \in DOMAIN c /\ b = c[b.index + 1]
    <2>1. PICK i \in DOMAIN blockRows : i # 0 /\ b = blockRows[i]
        BY <1>7
    <2>2. b.index = i
        BY <2>1 DEF StoreInv, BlockOK
    <2>3. i + 1 \in 2 .. n /\ i + 1 - 1 = i /\ n # 0 /\ i \in Nat
        BY <1>3, <2>1
    <2>4. c[i + 1] = b
        BY <1>5, <2>1, <2>3
    <2>5. i + 1 \in DOMAIN c
        BY <1>5, <2>3
    <2> QED BY <2>2, <2>4, <2>5
<1>13. /\ \A b, d \in Kept' : d.index = b.index + 1 => d.prev = b.hash
       /\ \A b, d \in Kept' : d.index = b.index => d = b
       /\ \A b \in Kept' : VerifySelf(b)
    BY <1>2, <1>8 DEF LinkInv
<1> HIDE DEF Kept
<1> QED BY <1>1, <1>4, <1>10, <1>11, <1>12, <1>13 DEF LinkInv

LEMMA LinkStep == ASSUME TypeOK, StoreInv, LinkInv, [Next]_vars PROVE LinkInv'
<1>1. CASE ChainSame
    <2>1. Kept' = Kept
        BY <1>1 DEF ChainSame, others, Kept
    <2> QED BY <1>1, <2>1, LinkSame DEF ChainSame, others
<1>2. ASSUME NEW k \in DOMAIN tasks, TaskWrites(k) \/ TaskFails(k) PROVE LinkInv'
    <2>1. UNCHANGED <<blocks, lock, starts, chainLost>>
        BY <1>2 DEF TaskWrites, TaskFails, memory, bound, history
    <2> QED BY <1>2, <2>1, KeptAfter, LinkSame
<1> QED BY <1>1, <1>2, LinkGrows, LinkRedacts, LinkHands, LinkRestart, ChainCases

LEMMA LinkInit == Init => LinkInv
<1> SUFFICES ASSUME Init PROVE LinkInv
    OBVIOUS
<1>1. blocks = <<Genesis(1)>> /\ DOMAIN tasks = {} /\ DOMAIN blockRows = {}
    BY DEF Init, NewChain, Empty
<1>2. Kept = {}
    BY <1>1 DEF Kept
<1>3. Len(blocks) = 1 /\ DOMAIN blocks = {1} /\ VerifySelf(blocks[1])
    BY <1>1 DEF Genesis, Sealed, VerifySelf, HashOver
<1> QED BY <1>2, <1>3 DEF LinkInv

(* As long as no start-up lost the chain, verify_chain reports at most     *)
(* block 1, and that only after a restart: neither redactions, nor writes  *)
(* that failed, nor crashes between writes raise an alarm.                 *)
THEOREM AlarmsAreExplained == Spec => []AlarmsExplained
<1>1. TypeOK /\ StoreInv /\ LinkInv => AlarmsExplained
    <2> SUFFICES ASSUME TypeOK, StoreInv, LinkInv, ~chainLost, NEW x \in VerifyChain(blocks)
                 PROVE  starts > 1 /\ x = 1
        BY DEF AlarmsExplained
    <2>1. ChainOK(blocks) /\ Indexed(blocks)
        BY ChainIndexed DEF StoreInv
    <2>2. DOMAIN blocks = 1 .. Len(blocks) /\ Len(blocks) \in Nat /\ starts \in Nat \ {0}
        BY <2>1, SeqFacts DEF ChainOK, TypeOK
    <2>3. PICK p \in DOMAIN blocks : x = p - 1
        BY <2>1, <2>2 DEF VerifyChain, Indexed
    <2>4. ~VerifySelf(blocks[p]) \/ (p # 1 /\ blocks[p].prev # blocks[p - 1].hash)
        BY <2>1, <2>3, VerifyFacts
    <2>5. p # 1
        <3> SUFFICES ASSUME p = 1 PROVE FALSE
            OBVIOUS
        <3>1. BlockOK(blocks[1], 1 - 1)
            BY <2>1 DEF ChainOK
        <3> QED BY <2>4, <3>1 DEF BlockOK
    <2>6. p \in 2 .. Len(blocks) /\ ~(p > 2 \/ starts = 1)
        BY <2>2, <2>4, <2>5 DEF LinkInv
    <2> QED BY <2>2, <2>3, <2>6
<1>2. Init => TypeOK /\ StoreInv /\ LinkInv
    BY TypeInit, StoreInit, LinkInit
<1>3. (TypeOK /\ StoreInv /\ LinkInv) /\ [Next]_vars => (TypeOK /\ StoreInv /\ LinkInv)'
    BY TypeStep, StoreStep, LinkStep
<1> QED BY <1>1, <1>2, <1>3, PTL DEF Spec

-----------------------------------------------------------------------------
(* Saves. *)

SameBalances ==
    /\ DOMAIN accounts' = DOMAIN accounts
    /\ \A id \in DOMAIN accounts : accounts'[id].balance = accounts[id].balance

(* A step that neither begins nor continues a save and leaves the balances *)
(* alone, or leads a transfer to its credit.                               *)
LEMMA SaveQuiet ==
    ASSUME SaveInv, UNCHANGED <<copy, tasks, accountRows, orderly>>,
           \A u \in Threads : pc'[u] # pc[u] =>
               pc[u] \notin Saving \cup {"credit"} /\ pc'[u] \notin Saving,
           SameBalances \/ \E u \in Threads : pc'[u] = "credit"
    PROVE  SaveInv'
<1> SUFFICES ASSUME orderly PROVE SaveInv'
    BY DEF SaveInv
<1>0. Lone /\ (Midway \/ \A id \in DOMAIN accounts : Safe(id))
    BY DEF SaveInv
<1>1. \A u \in Threads : /\ pc'[u] \in Saving <=> pc[u] \in Saving
                         /\ pc'[u] \in Saving => pc'[u] = pc[u]
    OBVIOUS
<1>2. Lone'
    BY <1>0, <1>1 DEF Lone
<1>3. CASE Midway
    BY <1>2, <1>3 DEF Midway, SaveInv
<1>4. CASE \E u \in Threads : pc'[u] = "credit"
    BY <1>2, <1>4 DEF Midway, SaveInv
<1>5. CASE SameBalances /\ \A id \in DOMAIN accounts : Safe(id)
    <2>1. ASSUME NEW id \in DOMAIN accounts PROVE Safe(id)'
        <3>1. Safe(id) /\ accounts'[id].balance = accounts[id].balance
            BY <1>5 DEF SameBalances
        <3>2. Clean(id)' <=> Clean(id)
            BY <3>1 DEF Clean
        <3>3. /\ \A u \in Threads : pc'[u] \in Saving =>
                    /\ Current(copy'[u].accounts, id, accounts'[id].balance)
                    /\ pc'[u] = "accounts" \/ Holds(copy'[u].accounts, id)
              /\ \A k \in DOMAIN tasks' :
                    /\ Current(tasks'[k].accounts, id, accounts'[id].balance)
                    /\ Holds(tasks'[k].accounts, id) \/ Clean(id)'
              /\ tasks' = <<>> /\ (\A u \in Threads : pc'[u] \notin Saving) => Clean(id)'
            BY <1>1, <3>1, <3>2 DEF Safe
        <3> QED BY <3>3 DEF Safe
    <2> QED BY <1>2, <1>5, <2>1 DEF SameBalances, SaveInv
<1> QED BY <1>0, <1>3, <1>4, <1>5

(* A save that begins while no other runs has everything before it. *)
LEMMA SaveBegins ==
    ASSUME TypeOK, SaveInv, NEW t \in Threads, SaveFrom(t), pc[t] \notin Saving, UNCHANGED tasks
    PROVE  SaveInv'
<1> SUFFICES ASSUME orderly' PROVE SaveInv'
    BY DEF SaveInv
<1>1. /\ orderly /\ tasks = <<>> /\ \A u \in Threads \ {t} : pc[u] \notin Saving
      /\ pc' = [pc EXCEPT ![t] = "accounts"] /\ UNCHANGED copy
    BY DEF SaveFrom, GoTo
<1>2. /\ pc'[t] = "accounts" /\ \A u \in Threads : pc'[u] \in Saving <=> u = t
      /\ copy'[t].accounts = <<>>
    BY <1>1 DEF TypeOK, Saving
<1>3. DOMAIN tasks' = {} /\ tasks' = <<>>
    BY <1>1
<1>4. Lone'
    BY <1>2, <1>3 DEF Lone
<1>5. ASSUME NEW id \in DOMAIN accounts' PROVE Safe(id)'
    <2>1. DOMAIN copy'[t].accounts = {}
        BY <1>2
    <2>2. Current(copy'[t].accounts, id, accounts'[id].balance)
        BY <2>1 DEF Current
    <2> QED BY <1>2, <1>3, <2>2 DEF Safe
<1> QED BY <1>4, <1>5 DEF SaveInv

LEMMA SaveCopies ==
    ASSUME TypeOK, SaveInv, NEW t \in Threads, NEW id \in Ids, CopyAccount(t, id)
    PROVE  SaveInv'
<1> SUFFICES ASSUME orderly PROVE SaveInv'
    BY DEF CopyAccount, history, SaveInv
<1>1. /\ UNCHANGED <<accounts, pc, tasks, accountRows, orderly>> /\ pc[t] = "accounts"
      /\ id \in DOMAIN accounts
    BY DEF CopyAccount, memory, rows, history
<1>2. PICK w : w = [key |-> id, value |-> accounts[id]]
    OBVIOUS
<1>3. PICK ws : ws = Append(copy[t].accounts, w)
    OBVIOUS
<1>4. copy'[t].accounts = ws /\ \A u \in Threads : u # t => copy'[u] = copy[u]
    BY <1>2, <1>3 DEF CopyAccount, TypeOK
<1>5. /\ IsSeq(ws) /\ DOMAIN ws = 1 .. Len(copy[t].accounts) + 1 /\ Len(copy[t].accounts) \in Nat
      /\ DOMAIN copy[t].accounts = 1 .. Len(copy[t].accounts)
      /\ \A i \in 1 .. Len(copy[t].accounts) : ws[i] = copy[t].accounts[i]
      /\ ws[Len(copy[t].accounts) + 1] = w
    BY <1>3, SeqAppend, SeqFacts DEF TypeOK
<1>6. Lone /\ (Midway \/ \A x \in DOMAIN accounts : Safe(x))
    BY DEF SaveInv
<1>7. Lone' /\ (Midway => Midway')
    BY <1>1, <1>6 DEF Lone, Midway
<1>8. ASSUME NEW x \in DOMAIN accounts, Safe(x) PROVE Safe(x)'
    <2>1. Current(ws, x, accounts[x].balance)
        <3>1. Current(copy[t].accounts, x, accounts[x].balance)
            BY <1>1, <1>8 DEF Safe, Saving
        <3>2. ASSUME NEW i \in DOMAIN ws, ws[i].key = x PROVE ws[i].value.balance = accounts[x].balance
            <4>1. CASE i \in DOMAIN copy[t].accounts
                BY <1>5, <3>1, <3>2, <4>1 DEF Current
            <4>2. CASE i = Len(copy[t].accounts) + 1
                BY <1>2, <1>5, <3>2, <4>2
            <4> QED BY <1>5, <4>1, <4>2
        <3> QED BY <3>2 DEF Current
    <2>2. Clean(x)' <=> Clean(x)
        BY <1>1 DEF Clean
    <2>3. \A u \in Threads : pc'[u] \in Saving =>
              /\ Current(copy'[u].accounts, x, accounts'[x].balance)
              /\ pc'[u] = "accounts" \/ Holds(copy'[u].accounts, x)
        BY <1>1, <1>4, <1>8, <2>1 DEF Safe
    <2>4. /\ \A k \in DOMAIN tasks' :
                /\ Current(tasks'[k].accounts, x, accounts'[x].balance)
                /\ Holds(tasks'[k].accounts, x) \/ Clean(x)'
          /\ tasks' = <<>> /\ (\A u \in Threads : pc'[u] \notin Saving) => Clean(x)'
        BY <1>1, <1>8, <2>2 DEF Safe
    <2> QED BY <2>3, <2>4 DEF Safe
<1> QED BY <1>1, <1>6, <1>7, <1>8 DEF SaveInv

(* The accounts are copied when each is in the copy. *)
LEMMA SaveGoesOn ==
    ASSUME TypeOK, SaveInv, NEW t \in Threads, AccountsCopied(t) \/ CopyJournal(t)
    PROVE  SaveInv'
<1> SUFFICES ASSUME orderly PROVE SaveInv'
    BY DEF AccountsCopied, CopyJournal, history, SaveInv
<1>1. /\ UNCHANGED <<accounts, tasks, accountRows, orderly>> /\ pc[t] \in Saving
      /\ \A u \in Threads : u # t => pc'[u] = pc[u]
      /\ pc'[t] \in {"entries", "blocks"}
      /\ \A u \in Threads : copy'[u].accounts = copy[u].accounts
    <2>1. CASE AccountsCopied(t)
        BY <2>1 DEF AccountsCopied, GoTo, memory, rows, history, TypeOK, Saving
    <2>2. CASE CopyJournal(t)
        <3>1. PICK c : c = [accounts |-> copy[t].accounts, journal |-> LastEntries(journal)]
            OBVIOUS
        <3>2. c.accounts = copy[t].accounts /\ copy' = [copy EXCEPT ![t] = c]
            BY <2>2, <3>1 DEF CopyJournal
        <3> HIDE <3>1
        <3>3. \A u \in Threads : copy'[u].accounts = copy[u].accounts
            BY <3>2 DEF TypeOK
        <3> QED BY <2>2, <3>3 DEF CopyJournal, memory, rows, history, TypeOK, Saving
    <2> QED BY <2>1, <2>2
<1>2. \A u \in Threads : /\ pc'[u] \in Saving <=> pc[u] \in Saving
                         /\ pc'[u] = "credit" <=> pc[u] = "credit"
    BY <1>1 DEF Saving
<1>3. Lone /\ (Midway \/ \A x \in DOMAIN accounts : Safe(x))
    BY DEF SaveInv
<1>4. Lone' /\ (Midway => Midway')
    BY <1>1, <1>2, <1>3 DEF Lone, Midway
<1>5. ASSUME NEW x \in DOMAIN accounts, Safe(x) PROVE Safe(x)'
    <2>1. Holds(copy[t].accounts, x)
        <3>1. CASE AccountsCopied(t)
            BY <3>1 DEF AccountsCopied, Copied, Holds
        <3>2. CASE CopyJournal(t)
            BY <1>5, <3>2 DEF CopyJournal, Safe, Saving
        <3> QED BY <3>1, <3>2
    <2>2. Clean(x)' <=> Clean(x)
        BY <1>1 DEF Clean
    <2>3. ASSUME NEW u \in Threads, pc'[u] \in Saving
          PROVE /\ Current(copy'[u].accounts, x, accounts'[x].balance)
                /\ pc'[u] = "accounts" \/ Holds(copy'[u].accounts, x)
        <3>1. Current(copy[u].accounts, x, accounts[x].balance)
            BY <1>2, <1>5, <2>3 DEF Safe
        <3>2. pc'[u] = "accounts" \/ Holds(copy[u].accounts, x)
            BY <1>1, <1>2, <1>5, <2>1, <2>3 DEF Safe
        <3> QED BY <1>1, <3>1, <3>2
    <2>4. /\ \A k \in DOMAIN tasks' :
                /\ Current(tasks'[k].accounts, x, accounts'[x].balance)
                /\ Holds(tasks'[k].accounts, x) \/ Clean(x)'
          /\ tasks' = <<>> /\ (\A u \in Threads : pc'[u] \notin Saving) => Clean(x)'
        BY <1>1, <1>2, <1>5, <2>2 DEF Safe
    <2> QED BY <2>3, <2>4 DEF Safe
<1> QED BY <1>1, <1>3, <1>4, <1>5 DEF SaveInv

(* The task that is spawned has every account to write. *)
LEMMA SaveSpawns ==
    ASSUME TypeOK, SaveInv, NEW t \in Threads, CopyChain(t)
    PROVE  SaveInv'
<1> SUFFICES ASSUME orderly PROVE SaveInv'
    BY DEF CopyChain, history, SaveInv
<1>1. Lone /\ (Midway \/ \A x \in DOMAIN accounts : Safe(x))
    BY DEF SaveInv
<1>2. PICK task : task = [accounts |-> copy[t].accounts, blocks |-> blocks,
                          entries |-> Reverse(copy[t].journal)]
    OBVIOUS
<1>3. /\ UNCHANGED <<accounts, accountRows, orderly>> /\ pc[t] = "blocks" /\ pc'[t] = "idle"
      /\ \A u \in Threads : u # t => pc'[u] = pc[u]
      /\ tasks' = Append(tasks, task) /\ task.accounts = copy[t].accounts
    BY <1>2 DEF CopyChain, memory, rows, history, TypeOK
<1>4. tasks = <<>> /\ \A u \in Threads : pc[u] \in Saving => u = t
    BY <1>1, <1>3 DEF Lone, Saving
<1>5. \A u \in Threads : pc'[u] \notin Saving
    BY <1>3, <1>4 DEF Saving
<1>6. tasks' # <<>> /\ DOMAIN tasks' = {1} /\ tasks'[1] = task
    <2>1. tasks' = <<task>>
        BY <1>3, <1>4
    <2> QED BY <2>1
<1>7. Lone' /\ (Midway => Midway')
    BY <1>3, <1>5, <1>6 DEF Lone, Midway
<1>8. ASSUME NEW x \in DOMAIN accounts, Safe(x) PROVE Safe(x)'
    <2>1. Current(task.accounts, x, accounts'[x].balance) /\ Holds(task.accounts, x)
        BY <1>3, <1>8 DEF Safe, Saving
    <2> QED BY <1>5, <1>6, <2>1 DEF Safe
<1> QED BY <1>1, <1>3, <1>7, <1>8 DEF SaveInv

(* The one task writes the accounts before it is done. *)
LEMMA SaveWrites ==
    ASSUME TypeOK, SaveInv, NEW k \in DOMAIN tasks, TaskWrites(k)
    PROVE  SaveInv'
<1> SUFFICES ASSUME orderly PROVE SaveInv'
    BY DEF TaskWrites, history, SaveInv
<1>1. Lone /\ (Midway \/ \A x \in DOMAIN accounts : Safe(x))
    BY DEF SaveInv
<1>2. UNCHANGED <<accounts, pc, copy, orderly>>
    BY DEF TaskWrites, memory, locals, history
<1>3. PICK old : old = tasks[k]
    OBVIOUS
<1>4. PICK task : task = Without(old, Part(old))
    OBVIOUS
<1>5. /\ IsSeq(tasks) /\ IsSeq(old.accounts) /\ IsSeq(old.blocks) /\ old.blocks # <<>>
      /\ k = 1 /\ DOMAIN tasks = {1} /\ Len(tasks) = 1
    <2>1. IsSeq(tasks) /\ IsSeq(old.accounts) /\ IsSeq(old.blocks) /\ old.blocks # <<>>
        BY <1>3 DEF TypeOK
    <2>2. k = 1 /\ DOMAIN tasks = {1}
        BY <1>1 DEF Lone
    <2>3. DOMAIN tasks = 1 .. Len(tasks) /\ Len(tasks) \in Nat
        BY <2>1, SeqFacts
    <2>4. Len(tasks) = 1
        <3>1. Len(tasks) \in 1 .. Len(tasks) \/ Len(tasks) = 0
            BY <2>3
        <3> QED BY <2>2, <2>3, <3>1
    <2> QED BY <2>1, <2>2, <2>4
<1>6. \A u \in Threads : pc[u] \notin Saving
    <2>1. Len(tasks) # 0
        BY <1>5
    <2>2. tasks # <<>>
        BY <1>5, <2>1, SeqFacts
    <2> QED BY <1>1, <2>2 DEF Lone
<1>7. /\ Part(old) = "accounts" => old.accounts # <<>> /\ task.accounts = Tail(old.accounts)
      /\ Part(old) # "accounts" => old.accounts = <<>> /\ task.accounts = <<>>
      /\ Part(old) # "blocks" => task.blocks = old.blocks
    BY <1>4, <1>5, WithoutFacts
<1>8. \/ task.blocks = <<>> /\ tasks' = <<>> /\ DOMAIN tasks' = {}
      \/ task.blocks # <<>> /\ tasks' # <<>> /\ DOMAIN tasks' = {1} /\ tasks'[1] = task
    <2>1. tasks' = Left(k, task)
        BY <1>3, <1>4 DEF TaskWrites
    <2>2. CASE task.blocks = <<>>
        <3>1. tasks' = RemoveAt(tasks, k)
            BY <2>1, <2>2 DEF Left
        <3>2. IsSeq(tasks') /\ Len(tasks') = 0
            BY <1>5, <3>1, SeqRemove
        <3>3. tasks' = <<>>
            BY <3>2, SeqFacts
        <3> QED BY <2>2, <3>3
    <2>3. CASE task.blocks # <<>>
        <3>1. tasks' = [tasks EXCEPT ![k] = task]
            BY <2>1, <2>3 DEF Left
        <3>2. DOMAIN tasks' = {1} /\ tasks'[1] = task
            BY <1>5, <3>1
        <3> QED BY <2>3, <3>2
    <2> QED BY <2>2, <2>3
<1>9. Lone' /\ (Midway => Midway')
    BY <1>2, <1>6, <1>8 DEF Lone, Midway
<1>10. ASSUME NEW x \in DOMAIN accounts, Safe(x) PROVE Safe(x)'
    <2>1. Current(old.accounts, x, accounts[x].balance) /\ (Holds(old.accounts, x) \/ Clean(x))
        BY <1>3, <1>10 DEF Safe
    <2>2. CASE Part(old) # "accounts"
        <3>1. old.accounts = <<>> /\ DOMAIN old.accounts = {}
            BY <1>7, <2>2
        <3>2. Clean(x)
            BY <2>1, <3>1 DEF Holds
        <3>3. accountRows' = accountRows
            BY <1>3, <2>2 DEF TaskWrites
        <3>4. Clean(x)'
            BY <1>2, <3>2, <3>3 DEF Clean
        <3>5. Current(task.accounts, x, accounts'[x].balance)
            BY <1>7, <2>2 DEF Current
        <3> QED BY <1>2, <1>6, <1>8, <3>4, <3>5 DEF Safe
    <2>3. CASE Part(old) = "accounts"
        <3>1. PICK ws : ws = old.accounts
            OBVIOUS
        <3>2. /\ ws # <<>> /\ task.accounts = Tail(ws) /\ IsSeq(ws)
              /\ DOMAIN ws = 1 .. Len(ws) /\ Len(ws) \in Nat \ {0}
              /\ DOMAIN Tail(ws) = 1 .. Len(ws) - 1
              /\ \A i \in 1 .. Len(ws) - 1 : Tail(ws)[i] = ws[i + 1]
              /\ Head(ws) = ws[1]
            BY <1>5, <1>7, <2>3, <3>1, SeqTail, SeqFacts
        <3>3. accountRows' = [id \in DOMAIN accountRows \cup {ws[1].key} |->
                                 IF id = ws[1].key THEN ws[1].value ELSE accountRows[id]]
            BY <1>3, <2>3, <3>1, <3>2 DEF TaskWrites, Upsert
        <3>4. task.blocks # <<>>
            BY <1>5, <1>7, <2>3
        <3>5. Current(Tail(ws), x, accounts'[x].balance)
            <4>1. ASSUME NEW i \in DOMAIN Tail(ws), Tail(ws)[i].key = x
                  PROVE Tail(ws)[i].value.balance = accounts[x].balance
                <5>1. i + 1 \in DOMAIN ws /\ Tail(ws)[i] = ws[i + 1]
                    BY <3>2
                <5> QED BY <2>1, <3>1, <4>1, <5>1 DEF Current
            <4> QED BY <1>2, <4>1 DEF Current
        <3>6. Holds(Tail(ws), x) \/ Clean(x)'
            <4>1. CASE ws[1].key = x
                <5>1. ws[1].value.balance = accounts[x].balance
                    BY <2>1, <3>1, <3>2, <4>1 DEF Current
                <5> QED BY <1>2, <3>3, <4>1, <5>1 DEF Clean
            <4>2. CASE ws[1].key # x /\ Clean(x)
                BY <1>2, <3>3, <4>2 DEF Clean
            <4>3. CASE ws[1].key # x /\ Holds(ws, x)
                <5>1. PICK i \in DOMAIN ws : ws[i].key = x
                    BY <4>3 DEF Holds
                <5>2. i - 1 \in DOMAIN Tail(ws) /\ Tail(ws)[i - 1] = ws[i]
                    BY <3>2, <4>3, <5>1
                <5> QED BY <5>1, <5>2 DEF Holds
            <4> QED BY <2>1, <3>1, <4>1, <4>2, <4>3
        <3> QED BY <1>2, <1>6, <1>8, <3>2, <3>4, <3>5, <3>6 DEF Safe
    <2> QED BY <2>2, <2>3
<1> QED BY <1>1, <1>2, <1>9, <1>10 DEF SaveInv

(* A restart between saves finds the balances it left. *)
LEMMA SaveRestart ==
    ASSUME NEW a \in BOOLEAN, NEW l \in BOOLEAN, Restart(a, l)
    PROVE  SaveInv'
<1> SUFFICES ASSUME orderly' PROVE SaveInv'
    BY DEF SaveInv
<1>1. /\ accounts' = [id \in DOMAIN accountRows |-> NewAccount(accountRows[id].balance)]
      /\ UNCHANGED accountRows
      /\ pc' = [t \in Threads |-> "idle"] /\ tasks' = <<>> /\ DOMAIN tasks' = {}
    BY DEF Restart, LoadAccounts, rows
<1>2. \A t \in Threads : pc'[t] \notin Saving
    BY <1>1 DEF Saving
<1>3. Lone'
    BY <1>1, <1>2 DEF Lone
<1>4. ASSUME NEW id \in DOMAIN accounts' PROVE Safe(id)'
    <2>1. Clean(id)'
        BY <1>1 DEF Clean, NewAccount
    <2> QED BY <1>1, <1>2, <2>1 DEF Safe
<1> QED BY <1>3, <1>4 DEF SaveInv

LEMMA SaveStep == ASSUME TypeOK, SaveInv, [Next]_vars PROVE SaveInv'
<1> USE DEF memory, rows, bound, history, locals
<1>1. CASE UNCHANGED vars
    BY <1>1, SaveQuiet DEF vars, SameBalances
<1>2. ASSUME NEW t \in Threads, NEW id \in Ids,
             \/ CreateAccount(t, id) \/ DebitAccount(t, id) \/ CreditAccount(t, id)
             \/ \E new \in {"Open", "Frozen", "Closed"} : SetAccountStatus(t, id, new)
      PROVE SaveInv'
    BY <1>2, SaveBegins DEF CreateAccount, DebitAccount, CreditAccount, SetAccountStatus,
        Request, Saving
<1>3. ASSUME NEW t \in Threads, NEW index, RedactBlock(t, index) \/ CoaDeactivateChain(t)
      PROVE SaveInv'
    BY <1>3, SaveBegins DEF RedactBlock, CoaDeactivateChain, Request, Saving
<1>4. ASSUME NEW t \in Threads, NEW id \in Ids,
             PlaceHold(t, id) \/ ReleaseHold(t, id) \/ CoaDeactivate(t, id)
      PROVE SaveInv'
    <2>1. PICK new : /\ new.balance = accounts[id].balance
                     /\ accounts' = [accounts EXCEPT ![id] = new]
        BY <1>4 DEF PlaceHold, ReleaseHold, CoaDeactivate, Held, Marked
    <2>2. SameBalances
        BY <2>1 DEF SameBalances
    <2>3. UNCHANGED <<copy, tasks, accountRows, orderly>>
        BY <1>4 DEF PlaceHold, ReleaseHold, CoaDeactivate, GoTo
    <2>4. \A u \in Threads : pc'[u] # pc[u] =>
              pc[u] \notin Saving \cup {"credit"} /\ pc'[u] \notin Saving
        BY <1>4 DEF PlaceHold, ReleaseHold, CoaDeactivate, GoTo, Request, Saving, TypeOK
    <2> QED BY <2>2, <2>3, <2>4, SaveQuiet
<1>5. ASSUME NEW t \in Threads, CommitTransaction(t) PROVE SaveInv'
    BY <1>5, SaveQuiet DEF CommitTransaction, SameBalances
<1>6. ASSUME NEW t \in Threads,
             \/ \E id, id2 \in Ids : TransferStart(t, id, id2)
             \/ TransferChain(t) \/ TransferJournal(t)
      PROVE SaveInv'
    <2>1. UNCHANGED <<accounts, copy, tasks, accountRows, orderly>>
        BY <1>6 DEF TransferStart, TransferChain, TransferJournal, GoTo
    <2>2. \A u \in Threads : pc'[u] # pc[u] =>
              pc[u] \notin Saving \cup {"credit"} /\ pc'[u] \notin Saving
        BY <1>6 DEF TransferStart, TransferChain, TransferJournal, GoTo, Request, Saving, TypeOK
    <2> QED BY <2>1, <2>2, SaveQuiet DEF SameBalances
<1>7. ASSUME NEW t \in Threads, TransferDebit(t) PROVE SaveInv'
    <2>1. /\ UNCHANGED <<copy, tasks, accountRows, orderly>> /\ pc[t] = "debit"
          /\ GoTo(t, "credit") \/ (Return(t) /\ UNCHANGED accounts)
        BY <1>7 DEF TransferDebit, GoTo, Return
    <2>2. \A u \in Threads : pc'[u] # pc[u] =>
              pc[u] \notin Saving \cup {"credit"} /\ pc'[u] \notin Saving
        BY <2>1 DEF GoTo, Return, Saving, TypeOK
    <2>3. SameBalances \/ pc'[t] = "credit"
        BY <2>1 DEF GoTo, SameBalances, TypeOK
    <2> QED BY <2>1, <2>2, <2>3, SaveQuiet
<1>8. ASSUME NEW t \in Threads, TransferCredit(t) PROVE SaveInv'
    <2>1. CASE SaveFrom(t)
        BY <1>8, <2>1, SaveBegins DEF TransferCredit, Saving
    <2>2. CASE orderly' = FALSE
        BY <2>2 DEF SaveInv
    <2> QED BY <1>8, <2>1, <2>2 DEF TransferCredit
<1>9. ASSUME NEW k \in DOMAIN tasks, TaskFails(k) PROVE SaveInv'
    BY <1>9 DEF TaskFails, SaveInv
<1> QED BY <1>1, <1>2, <1>3, <1>4, <1>5, <1>6, <1>7, <1>8, <1>9, SaveCopies, SaveGoesOn,
    SaveSpawns, SaveWrites, SaveRestart DEF Next, Step

LEMMA SaveInit == Init => SaveInv
<1> SUFFICES ASSUME Init PROVE SaveInv
    OBVIOUS
<1>1. DOMAIN tasks = {} /\ DOMAIN accounts = {}
    BY DEF Init, Empty
<1>2. \A t \in Threads : pc[t] \notin Saving
    BY DEF Init, Saving
<1> QED BY <1>1, <1>2 DEF SaveInv, Lone

(* Once requests and tasks have come to rest, a restart would bring back   *)
(* every balance, as long as no save began during another, no write failed *)
(* and no transfer was rolled back.                                        *)
THEOREM StoreCatchesUpHolds == Spec => []StoreCatchesUp
<1>1. SaveInv => StoreCatchesUp
    <2> SUFFICES ASSUME SaveInv, orderly, Settled, NEW id \in DOMAIN accounts
                 PROVE  Clean(id)
        BY DEF StoreCatchesUp, Clean
    <2>1. ~Midway /\ \A t \in Threads : pc[t] \notin Saving
        BY DEF Settled, Midway, Saving
    <2> QED BY <2>1 DEF SaveInv, Safe, Settled
<1>2. Init => TypeOK /\ StoreInv /\ SaveInv
    BY TypeInit, StoreInit, SaveInit
<1>3. (TypeOK /\ StoreInv /\ SaveInv) /\ [Next]_vars => (TypeOK /\ StoreInv /\ SaveInv)'
    BY TypeStep, StoreStep, SaveStep
<1> QED BY <1>1, <1>2, <1>3, PTL DEF Spec

-----------------------------------------------------------------------------
(* The event log. *)

Els(q) == {q[i] : i \in DOMAIN q}

(* The entries that went out or will, in order. *)
Queue == lines \o unwritten

(* An entry for an event of this run or an earlier one; while a handler    *)
(* runs, for one that was taken from its list.                             *)
Past(x, now, busy, n) ==
    /\ x.event.run \in Nat /\ x.event.at \in Nat /\ x.event.amount \in Int
    /\ x.event.run <= now
    /\ busy => x.event.run < now \/ x.event.at <= n

(* No event is in two entries. *)
Once(q) ==
    \A i, j \in DOMAIN q :
        q[i] # Junk /\ q[j] # Junk /\ q[i].event = q[j].event => i = j

LogType ==
    /\ runs \in Nat /\ torn \in Nat /\ tail \in {"clean", "half", "torn"}
    /\ IsSeq(lines) /\ IsSeq(unwritten) /\ IsSeq(store) /\ IsSeq(projected)
    /\ cursor \in Nat /\ IsSeq(run.todo) /\ IsSeq(run.done)
    /\ \A i \in DOMAIN run.todo :
          /\ run.todo[i].run = runs /\ run.todo[i].at = Len(run.done) + i
          /\ run.todo[i].command \notin commands /\ run.todo[i].amount \in Int
    /\ \A i \in DOMAIN run.done :
          /\ run.done[i].run = runs
          /\ run.done[i].command \notin commands /\ run.done[i].amount \in Int
    /\ \A i \in DOMAIN store : store[i].command \in commands /\ store[i].amount \in Int
    /\ \A i \in DOMAIN projected : projected[i].amount \in Int
    /\ \A x \in Els(Queue) : x # Junk => Past(x, runs, run.todo # <<>>, Len(run.done))
    /\ Once(Queue)

LossInv ==
    /\ IsFiniteSet(acked)
    /\ Cardinality(acked \ Replayed) + (IF tail = "torn" THEN 1 ELSE 0) <= torn

LEMMA JunkIsNone == ASSUME NEW n, NEW e PROVE [sequence |-> n, event |-> e] # Junk
<1>1. DOMAIN [sequence |-> n, event |-> e] = {"sequence", "event"}
    OBVIOUS
<1>2. DOMAIN Junk = {"junk"}
    BY DEF Junk
<1> QED BY <1>1, <1>2

LEMMA SeqSub ==
    ASSUME NEW q, IsSeq(q), NEW m \in Nat \ {0}, NEW n \in Nat, n <= Len(q), m <= n + 1
    PROVE  /\ IsSeq(SubSeq(q, m, n)) /\ Len(SubSeq(q, m, n)) = n - m + 1
           /\ \A i \in 1 .. n - m + 1 : SubSeq(q, m, n)[i] = q[m + i - 1]
<1>1. PICK S : q \in Seq(S)
    BY DEF IsSeq
<1>2. \A i \in m .. n : q[i] \in S
    BY <1>1, ElementOfSeq
<1> QED BY <1>2, SubSeqProperties DEF IsSeq

(* What is written goes behind what is there; a torn end costs the first   *)
(* line.                                                                   *)
LEMMA WrittenFacts ==
    ASSUME IsSeq(lines), NEW ls, IsSeq(ls)
    PROVE  /\ IsSeq(Written(ls)) /\ Len(Written(ls)) = Len(lines) + Len(ls)
           /\ \A i \in 1 .. Len(lines) : Written(ls)[i] = lines[i]
           /\ \A j \in 1 .. Len(ls) : Written(ls)[Len(lines) + j] =
                 IF tail = "torn" /\ j = 1 THEN Junk ELSE ls[j]
<1>0. Len(lines) \in Nat /\ Len(ls) \in Nat /\ (ls = <<>> <=> Len(ls) = 0)
    BY SeqFacts
<1>1. CASE ls = <<>>
    BY <1>0, <1>1 DEF Written
<1>2. ASSUME NEW r, IsSeq(r), Len(r) = Len(ls), Written(ls) = lines \o r,
             \A j \in 1 .. Len(ls) : r[j] = IF tail = "torn" /\ j = 1 THEN Junk ELSE ls[j]
      PROVE  /\ IsSeq(Written(ls)) /\ Len(Written(ls)) = Len(lines) + Len(ls)
             /\ \A i \in 1 .. Len(lines) : Written(ls)[i] = lines[i]
             /\ \A j \in 1 .. Len(ls) : Written(ls)[Len(lines) + j] =
                   IF tail = "torn" /\ j = 1 THEN Junk ELSE ls[j]
    <2>1. PICK w : w = lines \o r
        OBVIOUS
    <2>2. /\ IsSeq(lines \o r) /\ Len(lines \o r) = Len(lines) + Len(r)
          /\ \A i \in 1 .. Len(lines) + Len(r) :
                (lines \o r)[i] = IF i <= Len(lines) THEN lines[i] ELSE r[i - Len(lines)]
        BY <1>2, SeqConcat
    <2>3. /\ IsSeq(w) /\ Len(w) = Len(lines) + Len(ls)
          /\ \A i \in 1 .. Len(lines) + Len(ls) :
                w[i] = IF i <= Len(lines) THEN lines[i] ELSE r[i - Len(lines)]
        BY <1>2, <2>1, <2>2
    <2>4. \A i \in 1 .. Len(lines) : w[i] = lines[i]
        BY <1>0, <2>3
    <2>5. ASSUME NEW j \in 1 .. Len(ls) PROVE w[Len(lines) + j] = r[j]
        <3>1. Len(lines) + j \in 1 .. Len(lines) + Len(ls) /\ ~(Len(lines) + j <= Len(lines))
              /\ Len(lines) + j - Len(lines) = j
            BY <1>0
        <3> QED BY <2>3, <3>1
    <2> QED BY <1>2, <2>1, <2>3, <2>4, <2>5
<1>3. CASE ls # <<>> /\ tail = "torn"
    <2>1. PICK r : r = <<Junk>> \o Tail(ls)
        OBVIOUS
    <2>2. PICK g : g = <<Junk>>
        OBVIOUS
    <2>3. IsSeq(g) /\ Len(g) = 1 /\ g[1] = Junk
        <3>1. g \in Seq({Junk})
            BY <2>2
        <3> QED BY <2>2, <3>1 DEF IsSeq
    <2>4. /\ IsSeq(Tail(ls)) /\ Len(Tail(ls)) = Len(ls) - 1
          /\ \A i \in 1 .. Len(ls) - 1 : Tail(ls)[i] = ls[i + 1]
        BY <1>3, SeqTail
    <2>5. PICK u : u = Tail(ls)
        OBVIOUS
    <2>6. /\ IsSeq(g \o u) /\ Len(g \o u) = Len(g) + Len(u)
          /\ \A i \in 1 .. Len(g) + Len(u) : (g \o u)[i] = IF i <= Len(g) THEN g[i] ELSE u[i - Len(g)]
        BY <2>3, <2>4, <2>5, SeqConcat
    <2>7. /\ IsSeq(r) /\ Len(r) = Len(ls)
          /\ \A i \in 1 .. Len(ls) : r[i] = IF i <= 1 THEN Junk ELSE u[i - 1]
        BY <1>0, <2>1, <2>2, <2>3, <2>4, <2>5, <2>6
    <2>8. \A j \in 1 .. Len(ls) : r[j] = IF j = 1 THEN Junk ELSE ls[j]
        BY <1>0, <2>4, <2>5, <2>7
    <2>9. Written(ls) = lines \o r
        BY <1>3, <2>1 DEF Written
    <2> QED BY <1>2, <1>3, <2>7, <2>8, <2>9
<1>4. CASE ls # <<>> /\ tail # "torn"
    <2>1. Written(ls) = lines \o ls
        BY <1>4 DEF Written
    <2> QED BY <1>2, <1>4, <2>1
<1> QED BY <1>1, <1>3, <1>4

-----------------------------------------------------------------------------
(* Replay. *)

IsReplay(h, ls, n) ==
    h = [i \in 0 .. n |->
            IF i = 0 THEN <<>>
            ELSE IF ls[i] = Junk THEN h[i - 1] ELSE Append(h[i - 1], ls[i])]

LEMMA ReplayExists == ASSUME NEW ls, NEW n \in Nat PROVE \E h : IsReplay(h, ls, n)
<1> DEFINE Body(h, i) == IF i = 0 THEN <<>>
                         ELSE IF ls[i] = Junk THEN h[i - 1] ELSE Append(h[i - 1], ls[i])
           S == {k \in Nat : \E h : h = [i \in 0 .. k |-> Body(h, i)]}
<1>1. 0 \in S
    <2>1. PICK h : h = [i \in 0 .. 0 |-> <<>>]
        OBVIOUS
    <2>2. h = [i \in 0 .. 0 |-> Body(h, i)]
        BY <2>1
    <2> QED BY <2>2
<1>2. ASSUME NEW k \in Nat, k \in S PROVE k + 1 \in S
    <2>1. PICK h : h = [i \in 0 .. k |-> Body(h, i)]
        BY <1>2
    <2>2. PICK g : g = [i \in 0 .. k + 1 |-> Body(h, i)]
        OBVIOUS
    <2>3. ASSUME NEW i \in 0 .. k + 1 PROVE Body(h, i) = Body(g, i)
        <3>1. CASE i = 0
            BY <3>1
        <3>2. CASE i # 0
            <4>1. i - 1 \in 0 .. k /\ i - 1 \in 0 .. k + 1
                BY <3>2
            <4>2. g[i - 1] = Body(h, i - 1) /\ h[i - 1] = Body(h, i - 1)
                BY <2>1, <2>2, <4>1
            <4>3. g[i - 1] = h[i - 1]
                BY <4>2
            <4> QED BY <3>2, <4>3
        <3> QED BY <3>1, <3>2
    <2>4. g = [i \in 0 .. k + 1 |-> Body(g, i)]
        BY <2>2, <2>3
    <2> QED BY <2>4, SMTT(30)
<1>3. S = Nat
    <2> HIDE DEF S
    <2>1. S \in SUBSET Nat
        BY DEF S
    <2> QED BY <1>1, <1>2, <2>1, Induct
<1> QED BY <1>3 DEF IsReplay

(* Replay returns the lines that parse, none twice if no event is.         *)
LEMMA ReplayFacts ==
    ASSUME NEW ls, IsSeq(ls)
    PROVE  /\ IsSeq(Replay(ls)) /\ Els(Replay(ls)) = Els(ls) \ {Junk}
           /\ Once(ls) => \A i, j \in DOMAIN Replay(ls) :
                             Replay(ls)[i].event = Replay(ls)[j].event => i = j
<1>0. Len(ls) \in Nat /\ DOMAIN ls = 1 .. Len(ls)
    BY SeqFacts, SMTT(30)
<1>1. PICK N \in Nat : N = Len(ls)
    BY <1>0
<1>2. PICK h : IsReplay(h, ls, N) /\ Replay(ls) = h[N]
    <2>1. \E h : IsReplay(h, ls, N)
        BY ReplayExists
    <2> QED BY <1>1, <2>1 DEF Replay, IsReplay
<1>3. /\ h[0] = <<>>
      /\ \A k \in 0 .. N - 1 :
            h[k + 1] = IF ls[k + 1] = Junk THEN h[k] ELSE Append(h[k], ls[k + 1])
    <2>1. h[0] = <<>>
        BY <1>2 DEF IsReplay
    <2>2. ASSUME NEW k \in 0 .. N - 1
          PROVE  h[k + 1] = IF ls[k + 1] = Junk THEN h[k] ELSE Append(h[k], ls[k + 1])
        <3>1. k \in Nat /\ k + 1 \in 0 .. N /\ k + 1 # 0 /\ k + 1 - 1 = k
            BY <2>2
        <3>2. \A m \in 0 .. N :
                 h[m] = IF m = 0 THEN <<>>
                        ELSE IF ls[m] = Junk THEN h[m - 1] ELSE Append(h[m - 1], ls[m])
            BY <1>2 DEF IsReplay
        <3>3. h[k + 1] = IF ls[k + 1] = Junk THEN h[k + 1 - 1]
                         ELSE Append(h[k + 1 - 1], ls[k + 1])
            BY <3>1, <3>2
        <3> QED BY <3>1, <3>3
    <2> QED BY <2>1, <2>2
<1> DEFINE Good(k) ==
             /\ IsSeq(h[k]) /\ Els(h[k]) = {ls[i] : i \in 1 .. k} \ {Junk}
             /\ Once(ls) => \A i, j \in DOMAIN h[k] : h[k][i].event = h[k][j].event => i = j
           S == {k \in Nat : k <= N => Good(k)}
<1>4. 0 \in S
    <2>1. DOMAIN h[0] = {}
        BY <1>3
    <2>2. IsSeq(h[0])
        BY <1>3, SeqEmpty
    <2>3. Els(h[0]) = {} /\ {ls[i] : i \in 1 .. 0} = {}
        BY <2>1 DEF Els
    <2> QED BY <2>1, <2>2, <2>3
<1>5. ASSUME NEW k \in Nat, k \in S PROVE k + 1 \in S
    <2> SUFFICES ASSUME k + 1 <= N PROVE Good(k + 1)
        OBVIOUS
    <2>1. k \in 0 .. N - 1 /\ k <= N /\ Good(k)
        BY <1>5
    <2>2. {ls[i] : i \in 1 .. k + 1} = {ls[i] : i \in 1 .. k} \cup {ls[k + 1]}
        <3>1. 1 .. k + 1 = (1 .. k) \cup {k + 1}
            OBVIOUS
        <3> QED BY <3>1
    <2>3. CASE ls[k + 1] = Junk
        <3>1. h[k + 1] = h[k]
            BY <1>3, <2>1, <2>3
        <3> QED BY <2>1, <2>2, <2>3, <3>1
    <2>4. CASE ls[k + 1] # Junk
        <3>1. h[k + 1] = Append(h[k], ls[k + 1])
            BY <1>3, <2>1, <2>4
        <3>2. PICK q : q = h[k]
            OBVIOUS
        <3>3. PICK e : e = ls[k + 1]
            OBVIOUS
        <3>4. PICK r : r = Append(q, e)
            OBVIOUS
        <3>5. IsSeq(q) /\ Len(q) \in Nat /\ DOMAIN q = 1 .. Len(q)
            BY <2>1, <3>2, SeqFacts
        <3>6. /\ IsSeq(r) /\ Len(r) = Len(q) + 1
              /\ \A i \in 1 .. Len(q) : r[i] = q[i]
              /\ r[Len(q) + 1] = e
            BY <3>4, <3>5, SeqAppend
        <3>7. DOMAIN r = 1 .. Len(q) + 1
            BY <3>6, SeqFacts
        <3>8. Els(r) = Els(q) \cup {e}
            <4>1. 1 .. Len(q) + 1 = (1 .. Len(q)) \cup {Len(q) + 1}
                BY <3>5
            <4> QED BY <3>5, <3>6, <3>7, <4>1 DEF Els
        <3>9. Els(r) = {ls[i] : i \in 1 .. k + 1} \ {Junk}
            BY <2>1, <2>2, <2>4, <3>2, <3>3, <3>8
        <3>10. ASSUME Once(ls), NEW i \in DOMAIN r, NEW j \in DOMAIN r,
                      r[i].event = r[j].event
               PROVE  i = j
            <4>1. ASSUME NEW m \in 1 .. Len(q), q[m].event = e.event PROVE FALSE
                <5>1. q[m] \in Els(q)
                    BY <3>5, <4>1 DEF Els
                <5>2. PICK p \in 1 .. k : ls[p] = q[m] /\ q[m] # Junk
                    BY <2>1, <3>2, <5>1
                <5>3. p \in DOMAIN ls /\ k + 1 \in DOMAIN ls /\ p # k + 1
                    BY <1>0, <1>1, <2>1
                <5> QED BY <2>4, <3>3, <3>10, <4>1, <5>2, <5>3 DEF Once
            <4>2. CASE i \in 1 .. Len(q) /\ j \in 1 .. Len(q)
                BY <2>1, <3>2, <3>5, <3>6, <3>10, <4>2
            <4>3. CASE i = Len(q) + 1 /\ j \in 1 .. Len(q)
                BY <3>6, <3>10, <4>1, <4>3
            <4>4. CASE j = Len(q) + 1 /\ i \in 1 .. Len(q)
                BY <3>6, <3>10, <4>1, <4>4
            <4> QED BY <3>5, <3>7, <4>2, <4>3, <4>4
        <3> QED BY <3>1, <3>2, <3>3, <3>4, <3>6, <3>9, <3>10
    <2> QED BY <2>3, <2>4
<1>6. S = Nat
    <2> HIDE DEF S
    <2>1. S \in SUBSET Nat
        BY DEF S
    <2> QED BY <1>4, <1>5, <2>1, Induct
<1>7. Good(N)
    BY <1>6
<1>8. Els(ls) = {ls[i] : i \in 1 .. N}
    BY <1>0, <1>1 DEF Els
<1>9. h[N] = Replay(ls)
    BY <1>2
<1> HIDE DEF S
<1> QED BY <1>7, <1>8, <1>9

-----------------------------------------------------------------------------
(* Steps of the log. *)

(* Of the new queue q, w was written and u stays; the old one, o, was ls   *)
(* and the buffer, which is b but for the new entry.  The queue is as it   *)
(* was and the new entry, but for the lines that were torn.                *)
LEMMA QueueGrows ==
    ASSUME NEW L \in Nat, NEW U \in Nat, NEW P \in Nat, NEW R \in Nat, P + R = U + 1,
           NEW ls, NEW uw, NEW o, NEW b, NEW w, NEW u, NEW q,
           \A i \in 1 .. L + U : o[i] = IF i <= L THEN ls[i] ELSE uw[i - L],
           \A j \in 1 .. U : b[j] = uw[j],
           \A i \in 1 .. L : w[i] = ls[i],
           \A j \in 1 .. P : w[L + j] \in {b[j], Junk},
           \A j \in 1 .. R : u[j] = b[P + j],
           \A i \in 1 .. L + P + R : q[i] = IF i <= L + P THEN w[i] ELSE u[i - (L + P)]
    PROVE  /\ \A i \in 1 .. L + U : q[i] \in {o[i], Junk}
           /\ q[L + U + 1] \in {b[U + 1], Junk}
<1>1. ASSUME NEW j \in 1 .. U + 1 PROVE q[L + j] \in {b[j], Junk}
    <2>1. CASE j <= P
        <3>1. j \in 1 .. P /\ L + j \in 1 .. L + P + R /\ L + j <= L + P
            BY <2>1
        <3>2. q[L + j] = w[L + j]
            BY <3>1
        <3> QED BY <3>1, <3>2
    <2>2. CASE j > P
        <3>1. PICK k : k = L + j
            OBVIOUS
        <3>2. k \in 1 .. L + P + R /\ ~(k <= L + P) /\ k - (L + P) = j - P
            BY <2>2, <3>1
        <3>3. j - P \in 1 .. R /\ P + (j - P) = j
            BY <2>2
        <3>4. q[k] = u[j - P]
            BY <3>2
        <3>5. u[j - P] = b[j]
            BY <3>3
        <3> QED BY <3>1, <3>4, <3>5
    <2> QED BY <2>1, <2>2
<1>2. ASSUME NEW i \in 1 .. L + U PROVE q[i] \in {o[i], Junk}
    <2>1. CASE i <= L
        <3>1. i \in 1 .. L /\ i \in 1 .. L + P + R /\ i <= L + P
            BY <2>1
        <3>2. q[i] = w[i]
            BY <3>1
        <3>3. o[i] = ls[i]
            BY <2>1
        <3> QED BY <3>1, <3>2, <3>3
    <2>2. CASE i > L
        <3>1. PICK j : j = i - L
            OBVIOUS
        <3>2. j \in 1 .. U /\ i = L + j /\ j \in 1 .. U + 1 /\ ~(i <= L)
            BY <2>2, <3>1
        <3>3. o[i] = uw[j]
            BY <3>1, <3>2
        <3>4. b[j] = uw[j]
            BY <3>2
        <3>5. q[L + j] \in {b[j], Junk}
            BY <1>1, <3>2
        <3> QED BY <3>2, <3>3, <3>4, <3>5
    <2> QED BY <2>1, <2>2
<1>3. q[L + U + 1] \in {b[U + 1], Junk}
    <2>1. U + 1 \in 1 .. U + 1 /\ L + (U + 1) = L + U + 1
        OBVIOUS
    <2> QED BY <1>1, <2>1
<1> QED BY <1>2, <1>3

(* What LogEvent and LogEventFails do to the file and the queue. *)
LEMMA WalStep ==
    ASSUME LogType,
           LogEvent \/ \E n \in 0 .. Len(unwritten), part \in BOOLEAN : LogEventFails(n, part)
    PROVE  /\ run.todo # <<>>
           /\ IsSeq(lines') /\ IsSeq(unwritten') /\ tail' \in {"clean", "half", "torn"}
           /\ Els(lines) \subseteq Els(lines')
           /\ IsSeq(Queue') /\ Len(Queue') = Len(Queue) + 1
           /\ \A i \in 1 .. Len(Queue) : Queue'[i] \in {Queue[i], Junk}
           /\ Queue'[Len(Queue) + 1] \in {Entry, Junk}
<1>0. /\ IsSeq(lines) /\ IsSeq(unwritten) /\ tail \in {"clean", "half", "torn"}
      /\ Len(lines) \in Nat /\ Len(unwritten) \in Nat
    BY SeqFacts DEF LogType
<1>1. PICK b : b = Append(unwritten, Entry)
    OBVIOUS
<1>2. /\ IsSeq(b) /\ Len(b) = Len(unwritten) + 1
      /\ \A k \in 1 .. Len(unwritten) : b[k] = unwritten[k]
      /\ b[Len(unwritten) + 1] = Entry
    BY <1>0, <1>1, SeqAppend
<1>3. ASSUME NEW p, IsSeq(p), NEW u, IsSeq(u), Len(p) + Len(u) = Len(unwritten) + 1,
             \A j \in 1 .. Len(p) : p[j] = b[j],
             \A j \in 1 .. Len(u) : u[j] = b[Len(p) + j],
             lines' = Written(p), unwritten' = u
      PROVE  /\ IsSeq(lines') /\ IsSeq(unwritten')
             /\ Els(lines) \subseteq Els(lines')
             /\ IsSeq(Queue') /\ Len(Queue') = Len(Queue) + 1
             /\ \A i \in 1 .. Len(Queue) : Queue'[i] \in {Queue[i], Junk}
             /\ Queue'[Len(Queue) + 1] \in {Entry, Junk}
    <2>1. PICK w : w = Written(p)
        OBVIOUS
    <2>2. /\ IsSeq(w) /\ Len(w) = Len(lines) + Len(p)
          /\ \A i \in 1 .. Len(lines) : w[i] = lines[i]
          /\ \A k \in 1 .. Len(p) : w[Len(lines) + k] =
                IF tail = "torn" /\ k = 1 THEN Junk ELSE p[k]
        BY <1>0, <1>3, <2>1, WrittenFacts
    <2>3. \A k \in 1 .. Len(p) : w[Len(lines) + k] \in {b[k], Junk}
        BY <1>3, <2>2
    <2>4. DOMAIN lines = 1 .. Len(lines) /\ DOMAIN w = 1 .. Len(w)
          /\ Len(p) \in Nat /\ Len(u) \in Nat
        BY <1>0, <1>3, <2>2, SeqFacts
    <2>5. Els(lines) \subseteq Els(w)
        <3>1. \A i \in DOMAIN lines : i \in DOMAIN w /\ w[i] = lines[i]
            BY <1>0, <2>2, <2>4
        <3> QED BY <3>1 DEF Els
    <2>6. /\ IsSeq(w \o u) /\ Len(w \o u) = Len(w) + Len(u)
          /\ \A i \in 1 .. Len(w) + Len(u) :
                (w \o u)[i] = IF i <= Len(w) THEN w[i] ELSE u[i - Len(w)]
        <3>1. IsSeq(w) /\ IsSeq(u)
            BY <1>3, <2>2
        <3> QED BY <3>1, SeqConcat, Zenon
    <2>7. PICK q : q = w \o u
        OBVIOUS
    <2>8. /\ IsSeq(q) /\ Len(q) = Len(lines) + Len(p) + Len(u)
          /\ \A i \in 1 .. Len(lines) + Len(p) + Len(u) :
                q[i] = IF i <= Len(lines) + Len(p) THEN w[i] ELSE u[i - (Len(lines) + Len(p))]
        BY <2>2, <2>6, <2>7
    <2>9. PICK o : o = Queue
        OBVIOUS
    <2>10. /\ Len(o) = Len(lines) + Len(unwritten)
           /\ \A i \in 1 .. Len(lines) + Len(unwritten) :
                 o[i] = IF i <= Len(lines) THEN lines[i] ELSE unwritten[i - Len(lines)]
        BY <1>0, <2>9, SeqConcat DEF Queue
    <2>11. /\ \A i \in 1 .. Len(lines) + Len(unwritten) : q[i] \in {o[i], Junk}
           /\ q[Len(lines) + Len(unwritten) + 1] \in {b[Len(unwritten) + 1], Junk}
        <3>1. PICK L \in Nat, U \in Nat, P \in Nat, R \in Nat :
                  L = Len(lines) /\ U = Len(unwritten) /\ P = Len(p) /\ R = Len(u)
            BY <1>0, <2>4
        <3>2. /\ P + R = U + 1
              /\ \A i \in 1 .. L + U : o[i] = IF i <= L THEN lines[i] ELSE unwritten[i - L]
              /\ \A k \in 1 .. U : b[k] = unwritten[k]
              /\ \A i \in 1 .. L : w[i] = lines[i]
              /\ \A k \in 1 .. P : w[L + k] \in {b[k], Junk}
              /\ \A k \in 1 .. R : u[k] = b[P + k]
              /\ \A i \in 1 .. L + P + R : q[i] = IF i <= L + P THEN w[i] ELSE u[i - (L + P)]
            BY <1>2, <1>3, <2>2, <2>3, <2>8, <2>10, <3>1
        <3> HIDE <1>3
        <3>3. /\ \A i \in 1 .. L + U : q[i] \in {o[i], Junk}
              /\ q[L + U + 1] \in {b[U + 1], Junk}
            BY <3>2, QueueGrows
        <3> QED BY <3>1, <3>3
    <2>12. Len(q) = Len(o) + 1
        <3>1. PICK L \in Nat, U \in Nat, P \in Nat, R \in Nat :
                  L = Len(lines) /\ U = Len(unwritten) /\ P = Len(p) /\ R = Len(u)
            BY <1>0, <2>4
        <3>2. P + R = U + 1 /\ Len(q) = L + P + R /\ Len(o) = L + U
            BY <1>3, <2>8, <2>10, <3>1
        <3>3. L + P + R = L + U + 1
            BY <3>2
        <3> QED BY <3>2, <3>3
    <2>13. Queue' = q
        BY <1>3, <2>1, <2>7 DEF Queue
    <2>14. /\ IsSeq(lines') /\ IsSeq(unwritten') /\ Els(lines) \subseteq Els(lines')
        BY <1>3, <2>1, <2>2, <2>5
    <2> QED BY <1>2, <2>8, <2>9, <2>10, <2>11, <2>12, <2>13, <2>14
<1>4. CASE LogEvent
    <2>1. run.todo # <<>> /\ lines' = Written(b) /\ tail' = "clean" /\ unwritten' = <<>>
        BY <1>1, <1>4 DEF LogEvent
    <2>2. PICK u : u = <<>>
        OBVIOUS
    <2>3. IsSeq(u) /\ Len(u) = 0
        BY <2>2, SeqEmpty
    <2>4. /\ Len(b) + Len(u) = Len(unwritten) + 1
          /\ \A j \in 1 .. Len(u) : u[j] = b[Len(b) + j]
        BY <1>0, <1>2, <2>3
    <2> QED BY <1>2, <1>3, <2>1, <2>2, <2>3, <2>4
<1>5. ASSUME NEW n \in 0 .. Len(unwritten), NEW part \in BOOLEAN, LogEventFails(n, part)
      PROVE  /\ run.todo # <<>>
             /\ IsSeq(lines') /\ IsSeq(unwritten') /\ tail' \in {"clean", "half", "torn"}
             /\ Els(lines) \subseteq Els(lines')
             /\ IsSeq(Queue') /\ Len(Queue') = Len(Queue) + 1
             /\ \A i \in 1 .. Len(Queue) : Queue'[i] \in {Queue[i], Junk}
             /\ Queue'[Len(Queue) + 1] \in {Entry, Junk}
    <2>1. /\ run.todo # <<>> /\ lines' = Written(SubSeq(b, 1, n))
          /\ unwritten' = SubSeq(b, n + 1, Len(b))
          /\ tail' \in {"clean", "half", "torn"}
        BY <1>0, <1>1, <1>5 DEF LogEventFails
    <2>2. PICK p : p = SubSeq(b, 1, n)
        OBVIOUS
    <2>3. PICK u : u = SubSeq(b, n + 1, Len(b))
        OBVIOUS
    <2>4. n \in Nat /\ n <= Len(b) /\ Len(b) \in Nat /\ n + 1 \in Nat \ {0} /\ n + 1 <= Len(b) + 1
        BY <1>0, <1>2
    <2>5. /\ IsSeq(SubSeq(b, 1, n)) /\ Len(SubSeq(b, 1, n)) = n - 1 + 1
          /\ \A i \in 1 .. n - 1 + 1 : SubSeq(b, 1, n)[i] = b[1 + i - 1]
        <3>1. 1 \in Nat \ {0} /\ 1 <= n + 1
            BY <2>4
        <3> QED BY <1>2, <2>4, <3>1, SeqSub
    <2>6. IsSeq(p) /\ Len(p) = n /\ \A i \in 1 .. Len(p) : p[i] = b[i]
        BY <2>2, <2>4, <2>5
    <2>7. /\ IsSeq(SubSeq(b, n + 1, Len(b))) /\ Len(SubSeq(b, n + 1, Len(b))) = Len(b) - (n + 1) + 1
          /\ \A i \in 1 .. Len(b) - (n + 1) + 1 :
                SubSeq(b, n + 1, Len(b))[i] = b[n + 1 + i - 1]
        BY <1>2, <2>4, SeqSub
    <2>8. IsSeq(u) /\ Len(u) = Len(b) - n /\ \A i \in 1 .. Len(u) : u[i] = b[Len(p) + i]
        BY <2>3, <2>4, <2>6, <2>7
    <2>9. Len(p) + Len(u) = Len(unwritten) + 1
        BY <1>0, <1>2, <2>4, <2>6, <2>8
    <2> QED BY <1>3, <2>1, <2>2, <2>3, <2>6, <2>8, <2>9
<1> QED BY <1>4, <1>5

(* The event that is logged is new to the queue. *)
LEMMA QueueOnce ==
    ASSUME LogType,
           LogEvent \/ \E n \in 0 .. Len(unwritten), part \in BOOLEAN : LogEventFails(n, part)
    PROVE  /\ \A x \in Els(Queue') : x # Junk => Past(x, runs, TRUE, Len(run.done) + 1)
           /\ Once(Queue')
<1>0. /\ run.todo # <<>> /\ IsSeq(Queue') /\ Len(Queue') = Len(Queue) + 1
      /\ \A i \in 1 .. Len(Queue) : Queue'[i] \in {Queue[i], Junk}
      /\ Queue'[Len(Queue) + 1] \in {Entry, Junk}
    BY WalStep
<1>1. PICK q : q = Queue'
    OBVIOUS
<1>2. PICK o : o = Queue
    OBVIOUS
<1>3. IsSeq(o)
    <2>1. IsSeq(lines \o unwritten)
        BY SeqConcat DEF LogType
    <2> QED BY <1>2, <2>1 DEF Queue
<1>4. Len(o) \in Nat /\ DOMAIN o = 1 .. Len(o) /\ DOMAIN q = 1 .. Len(o) + 1
    BY <1>0, <1>1, <1>2, <1>3, SeqFacts, SMTT(30)
<1>5. PICK L \in Nat : L = Len(o)
    BY <1>4
<1>6. PICK D \in Nat : D = Len(run.done)
    BY SeqFacts DEF LogType
<1>7. PICK x : x = Entry
    OBVIOUS
<1>8. /\ x # Junk /\ x.event.run = runs /\ x.event.at = D + 1 /\ x.event.amount \in Int
      /\ runs \in Nat
    <2>1. 1 \in DOMAIN run.todo /\ Head(run.todo) = run.todo[1]
        <3>1. IsSeq(run.todo)
            BY DEF LogType
        <3>2. Len(run.todo) \in Nat /\ DOMAIN run.todo = 1 .. Len(run.todo) /\ Len(run.todo) # 0
            BY <1>0, <3>1, SeqFacts
        <3> QED BY <1>0, <3>1, <3>2, SeqTail
    <2>2. x = [sequence |-> sequence, event |-> run.todo[1]]
        BY <1>7, <2>1 DEF Entry
    <2>3. x # Junk
        BY <2>2, JunkIsNone
    <2>4. x.event = run.todo[1]
        BY <2>2
    <2> QED BY <1>6, <2>1, <2>3, <2>4 DEF LogType
<1>9. ASSUME NEW i \in 1 .. L, o[i] # Junk
      PROVE  Past(o[i], runs, TRUE, D)
    <2>1. o[i] \in Els(Queue)
        BY <1>2, <1>4, <1>5, <1>9 DEF Els
    <2> QED BY <1>0, <1>6, <1>9, <2>1 DEF LogType
<1>10. /\ \A i \in 1 .. L : q[i] \in {o[i], Junk}
       /\ q[L + 1] \in {x, Junk} /\ DOMAIN q = 1 .. L + 1
    BY <1>0, <1>1, <1>2, <1>4, <1>5, <1>7
<1>11. ASSUME NEW i \in DOMAIN q, q[i] # Junk PROVE Past(q[i], runs, TRUE, D + 1)
    <2>1. CASE i \in 1 .. L
        <3>1. q[i] = o[i] /\ o[i] # Junk
            BY <1>10, <1>11, <2>1
        <3>2. Past(o[i], runs, TRUE, D)
            BY <1>9, <2>1, <3>1
        <3> QED BY <3>1, <3>2 DEF Past
    <2>2. CASE i = L + 1
        <3>1. q[i] = x
            BY <1>10, <1>11, <2>2
        <3>2. runs <= runs /\ D + 1 <= D + 1 /\ D + 1 \in Nat
            BY <1>8
        <3>3. Past(x, runs, TRUE, D + 1)
            BY <1>8, <3>2 DEF Past
        <3> QED BY <3>1, <3>3
    <2>3. i \in 1 .. L \/ i = L + 1
        BY <1>10, <1>11
    <2> QED BY <2>1, <2>2, <2>3
<1>12. ASSUME NEW i \in 1 .. L, q[i] # Junk PROVE q[i].event # x.event
    <2>1. q[i] = o[i] /\ o[i] # Junk
        BY <1>10, <1>12
    <2>2. Past(o[i], runs, TRUE, D)
        BY <1>9, <2>1
    <2> QED BY <1>8, <2>1, <2>2 DEF Past
<1>13. ASSUME NEW i \in DOMAIN q, NEW j \in DOMAIN q, q[i] # Junk, q[j] # Junk,
              q[i].event = q[j].event
       PROVE  i = j
    <2>1. CASE i \in 1 .. L /\ j \in 1 .. L
        <3>1. q[i] = o[i] /\ q[j] = o[j]
            BY <1>10, <1>13, <2>1
        <3>2. Once(o) /\ i \in DOMAIN o /\ j \in DOMAIN o
            BY <1>2, <1>4, <1>5, <2>1 DEF LogType
        <3> QED BY <1>13, <3>1, <3>2 DEF Once
    <2>2. CASE i \in 1 .. L /\ j = L + 1
        BY <1>10, <1>12, <1>13, <2>2
    <2>3. CASE j \in 1 .. L /\ i = L + 1
        BY <1>10, <1>12, <1>13, <2>3
    <2> QED BY <1>10, <2>1, <2>2, <2>3
<1>14. Once(q)
    BY <1>13 DEF Once
<1> QED BY <1>1, <1>6, <1>11, <1>14 DEF Els

LEMMA NothingFacts ==
    /\ Nothing.todo = <<>> /\ Nothing.done = <<>>
    /\ IsSeq(Nothing.todo) /\ IsSeq(Nothing.done) /\ DOMAIN <<>> = {} /\ Len(<<>>) = 0
BY SeqEmpty DEF Nothing

LEMMA StampedFacts ==
    ASSUME NEW c \in Commands
    PROVE  /\ IsSeq(Stamped(c))
           /\ \A i \in DOMAIN Stamped(c) :
                 /\ Stamped(c)[i].run = runs + 1 /\ Stamped(c)[i].at = i
                 /\ Stamped(c)[i].command = c /\ Stamped(c)[i].amount \in Int
                 /\ i \in Nat
<1>1. PICK p : p = Produces[c]
    OBVIOUS
<1>2. p \in Seq(Events)
    BY <1>1, EventLogAssumption
<1>3. PICK N \in Nat : N = Len(p) /\ DOMAIN p = 1 .. N
    BY <1>2
<1>4. \A i \in 1 .. N : p[i].amount \in Int
    <2>1. \A i \in 1 .. N : p[i] \in Events
        BY <1>2, <1>3, ElementOfSeq
    <2> QED BY <2>1 DEF Events
<1>5. PICK s : s = Stamped(c)
    OBVIOUS
<1>6. s = [i \in 1 .. N |->
             [type |-> p[i].type, account |-> p[i].account, amount |-> p[i].amount,
              command |-> c, boot |-> boots, run |-> runs + 1, at |-> i]]
    BY <1>1, <1>3, <1>5 DEF Stamped
<1>7. s = [i \in 1 .. N |-> s[i]] /\ DOMAIN s = 1 .. N
    BY <1>6
<1>8. IsSeq(s)
    BY <1>7, SeqMade
<1>9. ASSUME NEW i \in DOMAIN s
      PROVE  /\ s[i].run = runs + 1 /\ s[i].at = i
             /\ s[i].command = c /\ s[i].amount \in Int
             /\ i \in Nat
    BY <1>4, <1>6, <1>7
<1> QED BY <1>5, <1>8, <1>9

LEMMA LogTypeProcess ==
    ASSUME LogType, NEW c \in Commands, Process(c)
    PROVE  LogType'
<1>1. /\ run = Nothing /\ runs' = runs + 1 /\ runs \in Nat
      /\ UNCHANGED <<lines, tail, unwritten, store, commands, projected, cursor, torn>>
    BY DEF Process, walVars, LogType
<1>2. Queue' = Queue
    BY <1>1 DEF Queue
<1>3. ASSUME NEW x \in Els(Queue), x # Junk, NEW n, NEW b \in BOOLEAN
      PROVE  Past(x, runs + 1, b, n)
    <2>1. x.event.run \in Nat /\ x.event.at \in Nat /\ x.event.amount \in Int /\ x.event.run <= runs
        BY <1>3 DEF LogType, Past
    <2>2. x.event.run <= runs + 1 /\ x.event.run < runs + 1
        BY <1>1, <2>1
    <2> QED BY <2>1, <2>2 DEF Past
<1>4. PICK b \in BOOLEAN : b = (run'.todo # <<>>)
    OBVIOUS
<1>5. \A x \in Els(Queue') : x # Junk => Past(x, runs', run'.todo # <<>>, Len(run'.done))
    BY <1>1, <1>2, <1>3, <1>4
<1>6. CASE c \in commands
    <2>1. run' = Nothing
        BY <1>1, <1>6 DEF Process
    <2>2. /\ DOMAIN run'.todo = {} /\ DOMAIN run'.done = {} /\ IsSeq(run'.todo) /\ IsSeq(run'.done)
        BY <2>1, NothingFacts
    <2> QED BY <1>1, <1>2, <1>5, <2>2 DEF LogType
<1>7. CASE c \notin commands
    <2>1. run' = [todo |-> Stamped(c), done |-> <<>>]
        BY <1>7 DEF Process
    <2>2. run'.todo = Stamped(c) /\ run'.done = <<>>
        BY <2>1
    <2>3. /\ DOMAIN run'.done = {} /\ IsSeq(run'.done) /\ Len(run'.done) = 0
        BY <2>2, NothingFacts
    <2>4. /\ IsSeq(run'.todo)
          /\ \A i \in DOMAIN run'.todo :
                /\ run'.todo[i].run = runs' /\ run'.todo[i].at = Len(run'.done) + i
                /\ run'.todo[i].command \notin commands' /\ run'.todo[i].amount \in Int
        <3>1. PICK s : s = Stamped(c)
            OBVIOUS
        <3>2. /\ IsSeq(s)
              /\ \A i \in DOMAIN s : /\ s[i].run = runs + 1 /\ s[i].at = i
                                     /\ s[i].command = c /\ s[i].amount \in Int
                                     /\ i \in Nat
            BY <3>1, StampedFacts
        <3>3. \A i \in Nat : 0 + i = i
            OBVIOUS
        <3> QED BY <1>1, <1>7, <2>2, <2>3, <3>1, <3>2, <3>3
    <2> QED BY <1>1, <1>2, <1>5, <2>3, <2>4 DEF LogType
<1> QED BY <1>6, <1>7

LEMMA LogTypeWrite ==
    ASSUME LogType,
           LogEvent \/ \E n \in 0 .. Len(unwritten), part \in BOOLEAN : LogEventFails(n, part)
    PROVE  LogType'
<1>1. /\ run.todo # <<>> /\ IsSeq(lines') /\ IsSeq(unwritten')
      /\ tail' \in {"clean", "half", "torn"}
    BY WalStep
<1>2. /\ \A x \in Els(Queue') : x # Junk => Past(x, runs, TRUE, Len(run.done) + 1)
      /\ Once(Queue')
    BY QueueOnce
<1>3. UNCHANGED <<store, commands, projected, cursor, runs, torn>>
    BY DEF LogEvent, LogEventFails
<1>4. IsSeq(run.done) /\ IsSeq(run.todo) /\ Len(run.done) \in Nat /\ Len(run.todo) \in Nat
      /\ DOMAIN run.todo = 1 .. Len(run.todo) /\ DOMAIN run.done = 1 .. Len(run.done)
      /\ Len(run.todo) # 0
    BY <1>1, SeqFacts DEF LogType
<1>5. CASE LogEvent
    <2>1. PICK T : T = Tail(run.todo)
        OBVIOUS
    <2>2. PICK e : e = Head(run.todo)
        OBVIOUS
    <2>3. PICK D : D = Append(run.done, e)
        OBVIOUS
    <2>4. run' = [todo |-> T, done |-> D]
        BY <1>5, <2>1, <2>2, <2>3 DEF LogEvent
    <2>5. run'.todo = T /\ run'.done = D
        BY <2>4
    <2>6. /\ IsSeq(T) /\ Len(T) = Len(run.todo) - 1
          /\ \A i \in 1 .. Len(run.todo) - 1 : T[i] = run.todo[i + 1]
          /\ e = run.todo[1]
        BY <1>1, <1>4, <2>1, <2>2, SeqTail
    <2>7. /\ IsSeq(D) /\ Len(D) = Len(run.done) + 1
          /\ \A i \in 1 .. Len(run.done) : D[i] = run.done[i]
          /\ D[Len(run.done) + 1] = e
        BY <1>4, <2>3, SeqAppend
    <2>8. DOMAIN T = 1 .. Len(run.todo) - 1 /\ DOMAIN D = 1 .. Len(run.done) + 1
        BY <2>6, <2>7, SeqFacts
    <2>9. ASSUME NEW i \in DOMAIN T
          PROVE  /\ T[i].run = runs /\ T[i].at = Len(D) + i
                 /\ T[i].command \notin commands /\ T[i].amount \in Int
        <3>1. i \in Nat /\ i + 1 \in DOMAIN run.todo /\ T[i] = run.todo[i + 1]
            BY <1>4, <2>6, <2>8
        <3>2. \A d, k \in Nat : d + (k + 1) = (d + 1) + k
            OBVIOUS
        <3>3. Len(run.done) + (i + 1) = Len(D) + i
            BY <1>4, <2>7, <3>1, <3>2
        <3> QED BY <3>1, <3>3 DEF LogType
    <2>10. ASSUME NEW i \in DOMAIN D
           PROVE  D[i].run = runs /\ D[i].command \notin commands /\ D[i].amount \in Int
        <3>1. 1 \in DOMAIN run.todo
            BY <1>4
        <3>2. CASE i \in 1 .. Len(run.done)
            BY <1>4, <2>7, <3>2 DEF LogType
        <3>3. CASE i = Len(run.done) + 1
            BY <2>6, <2>7, <3>1, <3>3 DEF LogType
        <3> QED BY <1>4, <2>8, <3>2, <3>3
    <2>11. \A x \in Els(Queue') : x # Junk => Past(x, runs, T # <<>>, Len(D))
        BY <1>2, <2>7 DEF Past
    <2> QED BY <1>1, <1>2, <1>3, <2>5, <2>6, <2>7, <2>9, <2>10, <2>11 DEF LogType
<1>6. CASE \E n \in 0 .. Len(unwritten), part \in BOOLEAN : LogEventFails(n, part)
    <2>1. run' = [todo |-> <<>>, done |-> run.done]
        BY <1>6 DEF LogEventFails
    <2>2. run'.todo = <<>> /\ run'.done = run.done
        BY <2>1
    <2>3. DOMAIN <<>> = {} /\ IsSeq(<<>>)
        BY SeqEmpty
    <2>4. \A x \in Els(Queue') : x # Junk => Past(x, runs, FALSE, Len(run.done))
        BY <1>2 DEF Past
    <2> QED BY <1>1, <1>2, <1>3, <2>2, <2>3, <2>4 DEF LogType
<1> QED BY <1>5, <1>6

LEMMA LogTypeFinish ==
    ASSUME LogType, Finish
    PROVE  LogType'
<1>1. /\ run.todo = <<>> /\ store' = store \o run.done /\ run' = Nothing
      /\ UNCHANGED <<lines, tail, unwritten, projected, cursor, runs, torn>>
      /\ commands' = commands \cup {e.command : e \in {run.done[i] : i \in DOMAIN run.done}}
    BY DEF Finish, walVars
<1>2. /\ DOMAIN run'.todo = {} /\ DOMAIN run'.done = {} /\ IsSeq(run'.todo) /\ IsSeq(run'.done)
      /\ run'.todo = <<>>
    BY <1>1, NothingFacts
<1>3. Queue' = Queue
    BY <1>1 DEF Queue
<1>4. \A x \in Els(Queue') : x # Junk => Past(x, runs, FALSE, Len(run'.done))
    BY <1>1, <1>3 DEF LogType, Past
<1>5. PICK s : s = store
    OBVIOUS
<1>6. PICK d : d = run.done
    OBVIOUS
<1>7. PICK q : q = s \o d
    OBVIOUS
<1>8. IsSeq(s) /\ IsSeq(d) /\ Len(s) \in Nat /\ Len(d) \in Nat
      /\ DOMAIN s = 1 .. Len(s) /\ DOMAIN d = 1 .. Len(d)
    BY <1>5, <1>6, SeqFacts DEF LogType
<1>9. /\ IsSeq(q) /\ Len(q) = Len(s) + Len(d)
      /\ \A i \in 1 .. Len(s) + Len(d) : q[i] = IF i <= Len(s) THEN s[i] ELSE d[i - Len(s)]
    BY <1>7, <1>8, SeqConcat
<1>10. DOMAIN q = 1 .. Len(s) + Len(d)
    BY <1>9, SeqFacts
<1>11. ASSUME NEW i \in DOMAIN q PROVE q[i].command \in commands' /\ q[i].amount \in Int
    <2>1. CASE i <= Len(s)
        <3>1. i \in DOMAIN s /\ q[i] = s[i]
            BY <1>8, <1>9, <1>10, <2>1
        <3> QED BY <1>1, <1>5, <3>1 DEF LogType
    <2>2. CASE i > Len(s)
        <3>1. i - Len(s) \in DOMAIN d /\ q[i] = d[i - Len(s)]
            BY <1>8, <1>9, <1>10, <2>2
        <3>2. PICK j \in DOMAIN d : q[i] = d[j]
            BY <3>1
        <3> QED BY <1>1, <1>6, <3>2 DEF LogType
    <2> QED BY <1>8, <1>10, <2>1, <2>2
<1>12. /\ IsSeq(store') /\ \A i \in DOMAIN store' : store'[i].command \in commands' /\ store'[i].amount \in Int
    BY <1>1, <1>5, <1>6, <1>7, <1>9, <1>11
<1> QED BY <1>1, <1>2, <1>3, <1>4, <1>12 DEF LogType

(* The projection takes an event of the store. *)
LEMMA ProjectFacts ==
    ASSUME LogType, Project
    PROVE  /\ IsSeq(projected') /\ Len(projected') = Len(projected) + 1
           /\ Len(projected) \in Nat
           /\ \A i \in 1 .. Len(projected) : projected'[i] = projected[i]
           /\ projected'[Len(projected) + 1].amount \in Int
           /\ model' = Apply(model, projected'[Len(projected) + 1])
<1>1. PICK e : e = store[cursor']
    OBVIOUS
<1>2. IsSeq(projected) /\ IsSeq(store)
    BY DEF LogType
<1>3. Len(projected) \in Nat /\ Len(store) \in Nat /\ DOMAIN store = 1 .. Len(store)
    BY <1>2, SeqFacts
<1>4. e.amount \in Int
    <2>1. cursor' = cursor + 1 /\ cursor < Len(store) /\ cursor \in Nat
        BY DEF Project, LogType
    <2>2. cursor' \in DOMAIN store
        BY <1>3, <2>1
    <2> QED BY <1>1, <2>2 DEF LogType
<1>5. projected' = Append(projected, e) /\ model' = Apply(model, e)
    BY <1>1 DEF Project
<1>6. /\ IsSeq(Append(projected, e)) /\ Len(Append(projected, e)) = Len(projected) + 1
      /\ \A i \in 1 .. Len(projected) : Append(projected, e)[i] = projected[i]
      /\ Append(projected, e)[Len(projected) + 1] = e
    BY <1>2, SeqAppend
<1> QED BY <1>3, <1>4, <1>5, <1>6

LEMMA LogTypeProject ==
    ASSUME LogType, Project
    PROVE  LogType'
<1>1. /\ UNCHANGED <<lines, tail, unwritten, store, commands, run, runs, torn>>
      /\ cursor' \in Nat
    BY DEF Project, walVars, LogType
<1>2. Queue' = Queue
    BY <1>1 DEF Queue
<1>3. PICK q : q = projected'
    OBVIOUS
<1>4. /\ IsSeq(q) /\ Len(q) = Len(projected) + 1 /\ Len(projected) \in Nat
      /\ \A i \in 1 .. Len(projected) : q[i] = projected[i]
      /\ q[Len(projected) + 1].amount \in Int
    BY <1>3, ProjectFacts
<1>5. DOMAIN q = 1 .. Len(projected) + 1 /\ DOMAIN projected = 1 .. Len(projected)
    BY <1>4, SeqFacts DEF LogType
<1>6. \A i \in DOMAIN projected : projected[i].amount \in Int
    BY DEF LogType
<1>7. ASSUME NEW i \in DOMAIN q PROVE q[i].amount \in Int
    BY <1>4, <1>5, <1>6
<1> QED BY <1>1, <1>2, <1>3, <1>4, <1>7 DEF LogType

LEMMA LogTypeRestart ==
    ASSUME LogType, LogRestart
    PROVE  LogType'
<1>1. /\ unwritten' = <<>> /\ projected' = EventsOf(Replay(lines)) /\ store' = <<>>
      /\ run' = Nothing /\ cursor' = 0 /\ UNCHANGED <<lines, runs>>
      /\ tail' \in {"clean", "half", "torn"} /\ torn' \in Nat
    BY DEF LogRestart, LogType
<1>2. /\ DOMAIN run'.todo = {} /\ DOMAIN run'.done = {} /\ IsSeq(run'.todo) /\ IsSeq(run'.done)
      /\ run'.todo = <<>> /\ IsSeq(unwritten') /\ IsSeq(store') /\ DOMAIN store' = {}
    BY <1>1, NothingFacts, SeqEmpty
<1>3. Queue' = lines /\ IsSeq(lines) /\ Len(lines) \in Nat /\ DOMAIN lines = 1 .. Len(lines)
    <2>1. IsSeq(lines)
        BY DEF LogType
    <2>2. PICK S : lines \in Seq(S)
        BY <2>1 DEF IsSeq
    <2>3. lines \o <<>> = lines
        BY <2>2, ConcatEmptySeq
    <2> QED BY <1>1, <2>1, <2>3, SeqFacts DEF Queue
<1>4. PICK o : o = Queue
    OBVIOUS
<1>5. /\ DOMAIN lines \subseteq DOMAIN o
      /\ \A i \in DOMAIN lines : o[i] = lines[i]
    <2>1. IsSeq(unwritten) /\ Len(unwritten) \in Nat
        BY SeqFacts DEF LogType
    <2>2. PICK u : u = unwritten
        OBVIOUS
    <2>3. /\ IsSeq(lines \o u) /\ Len(lines \o u) = Len(lines) + Len(u)
          /\ \A i \in 1 .. Len(lines) + Len(u) :
                (lines \o u)[i] = IF i <= Len(lines) THEN lines[i] ELSE u[i - Len(lines)]
        BY <1>3, <2>1, <2>2, SeqConcat
    <2>4. o = lines \o u
        BY <1>4, <2>2 DEF Queue
    <2>5. DOMAIN o = 1 .. Len(lines) + Len(u)
        BY <2>3, <2>4, SeqFacts
    <2> QED BY <1>3, <2>1, <2>2, <2>3, <2>4, <2>5
<1>6. \A x \in Els(lines) : x # Junk => Past(x, runs, FALSE, Len(run'.done))
    <2>1. Els(lines) \subseteq Els(Queue)
        BY <1>4, <1>5 DEF Els
    <2> QED BY <2>1 DEF LogType, Past
<1>7. Once(lines)
    BY <1>4, <1>5 DEF LogType, Once
<1>8. PICK r : r = Replay(lines)
    OBVIOUS
<1>9. IsSeq(r) /\ Els(r) = Els(lines) \ {Junk} /\ Len(r) \in Nat /\ DOMAIN r = 1 .. Len(r)
    BY <1>3, <1>8, ReplayFacts, SeqFacts
<1>10. PICK b : b = EventsOf(r)
    OBVIOUS
<1>11. b = [i \in 1 .. Len(r) |-> r[i].event]
    BY <1>9, <1>10 DEF EventsOf
<1>12. b = [i \in 1 .. Len(r) |-> b[i]] /\ DOMAIN b = 1 .. Len(r)
    BY <1>11
<1>13. IsSeq(b)
    BY <1>9, <1>12, SeqMade
<1>14. \A i \in DOMAIN b : b[i].amount \in Int
    BY <1>6, <1>9, <1>11, <1>12 DEF Els, Past
<1>15. runs \in Nat
    BY DEF LogType
<1> QED BY <1>1, <1>2, <1>3, <1>6, <1>7, <1>8, <1>10, <1>13, <1>14, <1>15 DEF LogType

LEMMA LogTypeInit == LogInit => LogType
<1> SUFFICES ASSUME LogInit PROVE LogType
    OBVIOUS
<1>1. /\ DOMAIN run.todo = {} /\ DOMAIN run.done = {} /\ IsSeq(run.todo) /\ IsSeq(run.done)
    BY NothingFacts DEF LogInit
<1>2. IsSeq(lines) /\ IsSeq(unwritten) /\ IsSeq(store) /\ IsSeq(projected)
      /\ DOMAIN store = {} /\ DOMAIN projected = {}
    BY SeqEmpty DEF LogInit
<1>3. DOMAIN Queue = {}
    <2>1. <<>> \o <<>> = <<>>
        OBVIOUS
    <2> QED BY <2>1 DEF LogInit, Queue
<1> QED BY <1>1, <1>2, <1>3 DEF LogInit, LogType, Els, Once

LEMMA LogTypeStep == LogType /\ [LogNext]_logVars => LogType'
<1> SUFFICES ASSUME LogType, [LogNext]_logVars PROVE LogType'
    OBVIOUS
<1>1. CASE UNCHANGED logVars
    <2>1. /\ UNCHANGED <<lines, tail, unwritten, store, commands, projected, cursor, run, runs,
                       torn>>
        BY <1>1 DEF logVars
    <2>2. Queue' = Queue
        BY <2>1 DEF Queue
    <2> QED BY <2>1, <2>2 DEF LogType
<1>2. CASE LogNext
    BY <1>2, LogTypeProcess, LogTypeWrite, LogTypeFinish, LogTypeProject, LogTypeRestart
       DEF LogNext
<1> QED BY <1>1, <1>2

(* What replay brings back are the events of the lines that parse.         *)
Recalled(ls) == {x.event : x \in Els(ls) \ {Junk}}

LEMMA RecalledFacts ==
    ASSUME NEW ls, IsSeq(ls)
    PROVE  /\ Recalled(ls) = {e.event : e \in {Replay(ls)[i] : i \in DOMAIN Replay(ls)}}
           /\ Once(ls) => Cardinality(Recalled(ls)) = Len(Replay(ls))
<1>1. PICK r : r = Replay(ls)
    OBVIOUS
<1>2. /\ IsSeq(r) /\ Els(r) = Els(ls) \ {Junk}
      /\ Once(ls) => \A i, j \in DOMAIN r : r[i].event = r[j].event => i = j
    BY <1>1, ReplayFacts
<1>3. /\ Recalled(ls) = {x.event : x \in Els(r)}
      /\ Els(r) = {Replay(ls)[i] : i \in DOMAIN Replay(ls)}
    BY <1>1, <1>2 DEF Recalled, Els
<1>4. Len(r) \in Nat /\ DOMAIN r = 1 .. Len(r)
    BY <1>2, SeqFacts
<1>5. ASSUME Once(ls) PROVE Cardinality(Recalled(ls)) = Len(r)
    <2>1. PICK N \in Nat : N = Len(r)
        BY <1>4
    <2>2. PICK R : R = Recalled(ls)
        OBVIOUS
    <2>3. PICK f : f = [i \in 1 .. N |-> r[i].event]
        OBVIOUS
    <2>4. R = {r[i].event : i \in 1 .. N}
        BY <1>3, <1>4, <2>1, <2>2 DEF Els
    <2>5. \A i, j \in 1 .. N : f[i] = f[j] => i = j
        BY <1>2, <1>4, <1>5, <2>1, <2>3
    <2>6. f \in Bijection(1 .. N, R)
        <3>1. f \in Injection(1 .. N, R)
            BY <2>3, <2>4, <2>5 DEF Injection, IsInjective
        <3>2. f \in Surjection(1 .. N, R)
            BY <2>3, <2>4 DEF Surjection
        <3> QED BY <3>1, <3>2 DEF Bijection
    <2>7. IsFiniteSet(1 .. N) /\ Cardinality(1 .. N) = N
        <3>1. 1 \in Int /\ N \in Int /\ N - 1 + 1 = N
            OBVIOUS
        <3> QED BY <3>1, FS_Interval
    <2>8. Cardinality(R) = Cardinality(1 .. N)
        <3>1. PICK D : D = 1 .. N
            OBVIOUS
        <3>2. ExistsBijection(D, R) /\ IsFiniteSet(D)
            BY <2>6, <2>7, <3>1 DEF ExistsBijection
        <3>3. Cardinality(R) = Cardinality(D)
            BY <3>2, FS_Bijection
        <3> QED BY <3>1, <3>3
    <2> QED BY <2>1, <2>2, <2>7, <2>8, SMTT(30)
<1> QED BY <1>1, <1>2, <1>3, <1>5

LEMMA LossInit == LogInit => LossInv
<1> SUFFICES ASSUME LogInit PROVE LossInv
    OBVIOUS
<1>1. acked = {} /\ acked \ Replayed = {} /\ torn = 0 /\ tail = "clean"
    BY DEF LogInit
<1>2. IsFiniteSet({}) /\ Cardinality({}) = 0
    BY FS_EmptySet
<1> QED BY <1>1, <1>2 DEF LossInv

(* A step that appends to the file and acknowledges at most what is in it, *)
(* or one event when the end was torn and no longer is.                    *)
LEMMA LossCount ==
    ASSUME NEW A, NEW R, NEW B, NEW S, IsFiniteSet(A), R \subseteq S,
           NEW e, B \subseteq A \cup {e}, NEW k \in {0, 1}, k = 0 => B \subseteq A \cup S
    PROVE  /\ IsFiniteSet(B) /\ Cardinality(A \ R) \in Nat
           /\ Cardinality(B \ S) \in Nat /\ Cardinality(B \ S) <= Cardinality(A \ R) + k
<1>1. IsFiniteSet(A \ R) /\ IsFiniteSet(A \cup {e})
    BY FS_Difference, FS_AddElement
<1>2. IsFiniteSet(B)
    BY <1>1, FS_Subset
<1>3. IsFiniteSet(B \ S)
    BY <1>2, FS_Difference
<1>4. Cardinality(A \ R) \in Nat /\ Cardinality(B \ S) \in Nat
    BY <1>1, <1>3, FS_CardinalityType
<1>5. CASE k = 0
    <2>1. B \ S \subseteq A \ R
        BY <1>5
    <2>2. Cardinality(B \ S) <= Cardinality(A \ R)
        BY <1>1, <2>1, FS_Subset
    <2> QED BY <1>2, <1>4, <1>5, <2>2
<1>6. CASE k = 1
    <2>1. PICK X : X = A \ R
        OBVIOUS
    <2>2. B \ S \subseteq X \cup {e}
        BY <2>1
    <2>3. /\ IsFiniteSet(X \cup {e})
          /\ Cardinality(X \cup {e}) = Cardinality(X) \/ Cardinality(X \cup {e}) = Cardinality(X) + 1
        BY <1>1, <2>1, FS_AddElement
    <2>4. Cardinality(B \ S) <= Cardinality(X \cup {e})
        BY <2>2, <2>3, FS_Subset
    <2>5. Cardinality(X \cup {e}) \in Nat
        BY <2>3, FS_CardinalityType
    <2> QED BY <1>2, <1>4, <1>6, <2>1, <2>3, <2>4, <2>5
<1> QED BY <1>5, <1>6

(* What LogEvent writes last is its entry, but behind a torn end.          *)
LEMMA LoggedIsThere ==
    ASSUME LogType, LogEvent, tail # "torn"
    PROVE  Head(run.todo) \in Replayed'
<1>1. PICK b : b = Append(unwritten, Entry)
    OBVIOUS
<1>2. IsSeq(lines) /\ IsSeq(unwritten) /\ Len(lines) \in Nat /\ Len(unwritten) \in Nat
    BY SeqFacts DEF LogType
<1>3. IsSeq(b) /\ Len(b) = Len(unwritten) + 1 /\ b[Len(unwritten) + 1] = Entry
    BY <1>1, <1>2, SeqAppend
<1>4. PICK w : w = Written(b)
    OBVIOUS
<1>5. /\ IsSeq(w) /\ Len(w) = Len(lines) + Len(b)
      /\ \A j \in 1 .. Len(b) : w[Len(lines) + j] =
            IF tail = "torn" /\ j = 1 THEN Junk ELSE b[j]
    BY <1>2, <1>3, <1>4, WrittenFacts
<1>6. DOMAIN w = 1 .. Len(lines) + Len(b) /\ Len(b) \in 1 .. Len(b)
      /\ Len(lines) + Len(b) \in 1 .. Len(lines) + Len(b)
    BY <1>2, <1>3, <1>5, SeqFacts
<1>7. Entry \in Els(w)
    <2>1. w[Len(lines) + Len(b)] = b[Len(b)]
        BY <1>5, <1>6
    <2>2. w[Len(lines) + Len(b)] = Entry
        BY <1>3, <2>1
    <2> QED BY <1>6, <2>2 DEF Els
<1>8. Entry # Junk /\ Entry.event = Head(run.todo)
    BY JunkIsNone DEF Entry
<1>9. lines' = w
    BY <1>1, <1>4 DEF LogEvent
<1>10. IsSeq(lines')
    BY <1>5, <1>9
<1>11. Replayed' = Recalled(lines')
    BY <1>10, RecalledFacts DEF Replayed
<1> QED BY <1>7, <1>8, <1>9, <1>11 DEF Recalled

LEMMA LossStep == LogType /\ LossInv /\ [LogNext]_logVars => LossInv'
<1> SUFFICES ASSUME LogType, LossInv, [LogNext]_logVars PROVE LossInv'
    OBVIOUS
<1>0. IsSeq(lines) /\ torn \in Nat /\ IsFiniteSet(acked)
      /\ Cardinality(acked \ Replayed) + (IF tail = "torn" THEN 1 ELSE 0) <= torn
    BY DEF LogType, LossInv
<1>1. ASSUME UNCHANGED <<lines, acked, torn, tail>> PROVE LossInv'
    <2>1. Replayed' = Replayed
        BY <1>1 DEF Replayed
    <2> QED BY <1>0, <1>1, <2>1 DEF LossInv
<1>2. ASSUME LogEvent \/ \E n \in 0 .. Len(unwritten), part \in BOOLEAN : LogEventFails(n, part)
      PROVE  LossInv'
    <2>1. IsSeq(lines') /\ Els(lines) \subseteq Els(lines')
        BY <1>2, WalStep
    <2>2. Replayed \subseteq Replayed'
        <3>1. Replayed = Recalled(lines)
            BY <1>0, RecalledFacts DEF Replayed
        <3>2. Replayed' = Recalled(lines')
            BY <2>1, RecalledFacts DEF Replayed
        <3> QED BY <2>1, <3>1, <3>2 DEF Recalled
    <2>3. PICK R : R = Replayed
        OBVIOUS
    <2>4. PICK S : S = Replayed'
        OBVIOUS
    <2>5. PICK A : A = acked
        OBVIOUS
    <2>6. PICK B : B = acked'
        OBVIOUS
    <2>7. PICK k \in {0, 1} : k = IF tail = "torn" THEN 1 ELSE 0
        OBVIOUS
    <2>8. IsFiniteSet(A) /\ R \subseteq S /\ Cardinality(A \ R) + k <= torn
        BY <1>0, <2>2, <2>3, <2>4, <2>5, <2>7
    <2>9. CASE LogEvent
        <3>1. PICK e : e = Head(run.todo)
            OBVIOUS
        <3>2. B = A \cup {e} /\ tail' = "clean" /\ torn' = torn
            BY <2>5, <2>6, <2>9, <3>1 DEF LogEvent
        <3>3. k = 0 => e \in S
            BY <2>4, <2>7, <2>9, <3>1, LoggedIsThere
        <3>4. B \subseteq A \cup {e} /\ (k = 0 => B \subseteq A \cup S)
            BY <3>2, <3>3
        <3>5. /\ IsFiniteSet(B) /\ Cardinality(A \ R) \in Nat
              /\ Cardinality(B \ S) \in Nat /\ Cardinality(B \ S) <= Cardinality(A \ R) + k
            BY <2>8, <3>4, LossCount
        <3>6. Cardinality(B \ S) + 0 <= torn
            BY <1>0, <2>8, <3>5
        <3> QED BY <2>4, <2>6, <3>2, <3>5, <3>6 DEF LossInv
    <2>10. CASE \E n \in 0 .. Len(unwritten), part \in BOOLEAN : LogEventFails(n, part)
        <3>1. B = A /\ torn' = torn /\ (tail' = "torn" => tail = "torn")
            BY <2>5, <2>6, <2>10 DEF LogEventFails
        <3>2. /\ IsFiniteSet(B) /\ Cardinality(A \ R) \in Nat
              /\ Cardinality(B \ S) \in Nat /\ Cardinality(B \ S) <= Cardinality(A \ R) + 0
            <4>1. B \subseteq A \cup {0} /\ B \subseteq A \cup S /\ 0 \in {0, 1}
                BY <3>1
            <4> QED BY <2>8, <4>1, LossCount
        <3>3. PICK l \in {0, 1} : l = IF tail' = "torn" THEN 1 ELSE 0
            OBVIOUS
        <3>4. l <= k
            BY <2>7, <3>1, <3>3
        <3>5. Cardinality(B \ S) + l <= torn
            BY <1>0, <2>8, <3>2, <3>4
        <3> QED BY <2>4, <2>6, <3>1, <3>2, <3>3, <3>5 DEF LossInv
    <2> QED BY <1>2, <2>9, <2>10
<1>3. CASE LogRestart
    <2>1. /\ UNCHANGED <<lines, acked>>
          /\ torn' = IF tail' = "torn" THEN torn + 1 ELSE torn
        BY <1>3 DEF LogRestart
    <2>2. Replayed' = Replayed
        BY <2>1 DEF Replayed
    <2>3. Cardinality(acked \ Replayed) \in Nat
        BY <1>0, FS_Difference, FS_CardinalityType
    <2>4. PICK n \in Nat : n = Cardinality(acked \ Replayed)
        BY <2>3
    <2>5. n <= torn
        BY <1>0, <2>4
    <2>6. n + (IF tail' = "torn" THEN 1 ELSE 0) <= torn'
        BY <1>0, <2>1, <2>5
    <2>7. Cardinality(acked' \ Replayed') = n
        BY <2>1, <2>2, <2>4
    <2> QED BY <1>0, <2>1, <2>6, <2>7 DEF LossInv
<1>4. CASE UNCHANGED logVars
    BY <1>1, <1>4 DEF logVars
<1>5. ASSUME NEW c \in Commands, Process(c) PROVE LossInv'
    BY <1>1, <1>5 DEF Process, walVars
<1>6. CASE Finish
    BY <1>1, <1>6 DEF Finish, walVars
<1>7. CASE Project
    BY <1>1, <1>7 DEF Project, walVars
<1> QED BY <1>2, <1>3, <1>4, <1>5, <1>6, <1>7 DEF LogNext

LEMMA OneRunStep ==
    LogType /\ OneRunPerCommand /\ [LogNext]_logVars => OneRunPerCommand'
<1> SUFFICES ASSUME LogType, OneRunPerCommand, [LogNext]_logVars PROVE OneRunPerCommand'
    OBVIOUS
<1>1. CASE UNCHANGED store
    BY <1>1 DEF OneRunPerCommand
<1>2. CASE store' = <<>>
    <2>1. DOMAIN store' = {}
        BY <1>2
    <2> QED BY <2>1 DEF OneRunPerCommand
<1>3. CASE Finish
    <2>1. PICK s : s = store
        OBVIOUS
    <2>2. PICK d : d = run.done
        OBVIOUS
    <2>3. PICK q : q = s \o d
        OBVIOUS
    <2>4. IsSeq(s) /\ IsSeq(d) /\ Len(s) \in Nat /\ Len(d) \in Nat
          /\ DOMAIN s = 1 .. Len(s) /\ DOMAIN d = 1 .. Len(d)
        BY <2>1, <2>2, SeqFacts DEF LogType
    <2>5. /\ IsSeq(q) /\ Len(q) = Len(s) + Len(d)
          /\ \A i \in 1 .. Len(s) + Len(d) : q[i] = IF i <= Len(s) THEN s[i] ELSE d[i - Len(s)]
        BY <2>3, <2>4, SeqConcat
    <2>6. DOMAIN q = 1 .. Len(s) + Len(d)
        BY <2>5, SeqFacts
    <2>7. ASSUME NEW i \in DOMAIN q
          PROVE  \/ i \in DOMAIN s /\ q[i] = s[i] /\ q[i].command \in commands
                 \/ q[i].run = runs /\ q[i].command \notin commands
        <3>1. CASE i <= Len(s)
            <4>1. i \in DOMAIN s /\ q[i] = s[i]
                BY <2>4, <2>5, <2>6, <3>1
            <4> QED BY <2>1, <4>1 DEF LogType
        <3>2. CASE i > Len(s)
            <4>1. i - Len(s) \in DOMAIN d /\ q[i] = d[i - Len(s)]
                BY <2>4, <2>5, <2>6, <3>2
            <4>2. PICK j \in DOMAIN d : q[i] = d[j]
                BY <4>1
            <4> QED BY <2>2, <4>2 DEF LogType
        <3> QED BY <2>4, <2>6, <3>1, <3>2
    <2>8. \A i, j \in DOMAIN s : s[i].command = s[j].command => s[i].run = s[j].run
        BY <2>1 DEF OneRunPerCommand
    <2>9. \A i, j \in DOMAIN q : q[i].command = q[j].command => q[i].run = q[j].run
        BY <2>7, <2>8
    <2>10. store' = q
        BY <1>3, <2>1, <2>2, <2>3 DEF Finish
    <2> QED BY <2>9, <2>10 DEF OneRunPerCommand
<1> QED
    BY <1>1, <1>2, <1>3
       DEF LogNext, logVars, Process, LogEvent, LogEventFails, Project, LogRestart

(* Wherever writes stop and the process dies, replay brings back what was  *)
(* acknowledged but for one event for each start that found a torn line,   *)
(* and nothing twice (WriteAheadLog append and replay).                    *)
THEOREM LossIsBounded == LogSpec => []LossBounded
<1>1. LogInit => LogType /\ LossInv
    BY LogTypeInit, LossInit
<1>2. LogType /\ LossInv /\ [LogNext]_logVars => (LogType /\ LossInv)'
    BY LogTypeStep, LossStep
<1>3. LogType /\ LossInv => LossBounded
    <2> SUFFICES ASSUME LogType, LossInv PROVE LossBounded
        OBVIOUS
    <2>1. IsSeq(lines) /\ IsSeq(unwritten) /\ torn \in Nat
        BY DEF LogType
    <2>2. PICK o : o = lines \o unwritten
        OBVIOUS
    <2>3. /\ IsSeq(lines \o unwritten) /\ Len(lines \o unwritten) = Len(lines) + Len(unwritten)
          /\ \A i \in 1 .. Len(lines) + Len(unwritten) : (lines \o unwritten)[i] =
                IF i <= Len(lines) THEN lines[i] ELSE unwritten[i - Len(lines)]
        BY <2>1, SeqConcat
    <2>4. /\ Len(lines) \in Nat /\ Len(unwritten) \in Nat /\ DOMAIN lines = 1 .. Len(lines)
          /\ DOMAIN o = 1 .. Len(lines) + Len(unwritten)
        BY <2>1, <2>2, <2>3, SeqFacts
    <2>5. \A i \in DOMAIN lines : i \in DOMAIN o /\ o[i] = lines[i]
        BY <2>2, <2>3, <2>4
    <2>6. Once(o)
        BY <2>2 DEF LogType, Queue
    <2>7. Once(lines)
        BY <2>5, <2>6 DEF Once
    <2>8. Cardinality(Replayed) = Len(Replay(lines))
        BY <2>1, <2>7, RecalledFacts DEF Replayed
    <2>9. Cardinality(acked \ Replayed) \in Nat
        BY FS_Difference, FS_CardinalityType DEF LossInv
    <2>10. Cardinality(acked \ Replayed) <= torn
        BY <2>1, <2>9 DEF LossInv
    <2> QED BY <2>8, <2>10 DEF LossBounded
<1> QED BY <1>1, <1>2, <1>3, PTL DEF LogSpec

(* Every event of a command in the store was made by one run of its        *)
(* handler, however often the command is sent while the process lives      *)
(* (process_command_idempotent).                                           *)
THEOREM CommandsRunOnce == LogSpec => []OneRunPerCommand
<1>1. LogInit => LogType /\ OneRunPerCommand
    BY LogTypeInit DEF LogInit, OneRunPerCommand
<1>2. LogType /\ OneRunPerCommand /\ [LogNext]_logVars => (LogType /\ OneRunPerCommand)'
    BY LogTypeStep, OneRunStep
<1> QED BY <1>1, <1>2, PTL DEF LogSpec

-----------------------------------------------------------------------------
(* The read model. *)

(* g goes from m through the events of es one by one. *)
IsRun(g, m, es, n) ==
    /\ g[0] = m
    /\ \A k \in 0 .. n - 1 : g[k + 1] = Apply(g[k], es[k + 1])

IsAfter(g, m, es, n) == g = [i \in 0 .. n |-> IF i = 0 THEN m ELSE Apply(g[i - 1], es[i])]

LEMMA RunExists == ASSUME NEW m, NEW es, NEW n \in Nat PROVE \E g : IsAfter(g, m, es, n)
<1> DEFINE Body(h, i) == IF i = 0 THEN m ELSE Apply(h[i - 1], es[i])
           S == {k \in Nat : \E h : h = [i \in 0 .. k |-> Body(h, i)]}
<1>1. 0 \in S
    <2>1. PICK h : h = [i \in 0 .. 0 |-> m]
        OBVIOUS
    <2>2. h = [i \in 0 .. 0 |-> Body(h, i)]
        BY <2>1
    <2> QED BY <2>2
<1>2. ASSUME NEW k \in Nat, k \in S PROVE k + 1 \in S
    <2>1. PICK h : h = [i \in 0 .. k |-> Body(h, i)]
        BY <1>2
    <2>2. PICK g : g = [i \in 0 .. k + 1 |-> Body(h, i)]
        OBVIOUS
    <2>3. ASSUME NEW i \in 0 .. k + 1 PROVE Body(h, i) = Body(g, i)
        <3>1. CASE i = 0
            BY <3>1
        <3>2. CASE i # 0
            <4>1. i - 1 \in 0 .. k /\ i - 1 \in 0 .. k + 1
                BY <3>2
            <4>2. g[i - 1] = Body(h, i - 1) /\ h[i - 1] = Body(h, i - 1)
                BY <2>1, <2>2, <4>1
            <4>3. g[i - 1] = h[i - 1]
                BY <4>2
            <4> QED BY <3>2, <4>3
        <3> QED BY <3>1, <3>2
    <2>4. g = [i \in 0 .. k + 1 |-> Body(g, i)]
        BY <2>2, <2>3
    <2> QED BY <2>4
<1>3. S = Nat
    <2> HIDE DEF S
    <2>1. S \in SUBSET Nat
        BY DEF S
    <2> QED BY <1>1, <1>2, <2>1, Induct
<1> QED BY <1>3 DEF IsAfter

(* ApplyAll ends where such a run ends. *)
LEMMA ApplyAllRun ==
    ASSUME NEW m, NEW es, NEW n \in Nat, Len(es) = n
    PROVE  \E g : IsRun(g, m, es, n) /\ ApplyAll(m, es) = g[n]
<1>1. PICK g : IsAfter(g, m, es, n) /\ ApplyAll(m, es) = g[n]
    <2>1. \E g : IsAfter(g, m, es, n)
        BY RunExists
    <2> QED BY <2>1 DEF ApplyAll, IsAfter
<1>2. g[0] = m
    BY <1>1 DEF IsAfter
<1>3. ASSUME NEW k \in 0 .. n - 1 PROVE g[k + 1] = Apply(g[k], es[k + 1])
    <2>1. k \in Nat /\ k + 1 \in 0 .. n /\ k + 1 # 0 /\ k + 1 - 1 = k
        BY <1>3
    <2>2. g[k + 1] = Apply(g[k + 1 - 1], es[k + 1])
        BY <1>1, <2>1 DEF IsAfter
    <2> QED BY <2>1, <2>2
<1> QED BY <1>1, <1>2, <1>3 DEF IsRun

-----------------------------------------------------------------------------
(* The sums of the read model. *)

Above(f) == [a \in DOMAIN f |-> IF f[a].balance > 0 THEN f[a].balance ELSE 0]
Below(f) == [a \in DOMAIN f |-> IF f[a].balance < 0 THEN -f[a].balance ELSE 0]

LEMMA SumParts ==
    ASSUME NEW f, \A a \in DOMAIN f : f[a].balance \in Int
    PROVE  /\ SumOfBalances(f) = Total(DOMAIN f, Above(f)) - Total(DOMAIN f, Below(f))
           /\ Above(f) \in [DOMAIN f -> Nat] /\ Below(f) \in [DOMAIN f -> Nat]
           /\ \A a \in DOMAIN f : Above(f)[a] - Below(f)[a] = f[a].balance
<1>1. ASSUME NEW a \in DOMAIN f
      PROVE  /\ Above(f)[a] \in Nat /\ Below(f)[a] \in Nat
             /\ Above(f)[a] - Below(f)[a] = f[a].balance
    <2>1. /\ Above(f)[a] = IF f[a].balance > 0 THEN f[a].balance ELSE 0
          /\ Below(f)[a] = IF f[a].balance < 0 THEN -f[a].balance ELSE 0
        BY DEF Above, Below
    <2> QED BY <2>1
<1>2. Above(f) \in [DOMAIN f -> Nat] /\ Below(f) \in [DOMAIN f -> Nat]
    BY <1>1 DEF Above, Below
<1>3. SumOfBalances(f) = Total(DOMAIN f, Above(f)) - Total(DOMAIN f, Below(f))
    BY DEF SumOfBalances, Above, Below
<1> QED BY <1>1, <1>2, <1>3

LEMMA SumEmpty == SumOfBalances(<<>>) = 0
<1>1. \A f : Total({}, f) = 0
    <2> TAKE f
    <2>1. UNION {Tokens(s, f[s]) : s \in {}} = {}
        OBVIOUS
    <2> QED BY <2>1, FS_EmptySet DEF Total
<1>2. DOMAIN <<>> = {}
    OBVIOUS
<1> QED BY <1>1, <1>2 DEF SumOfBalances

(* One projection takes another value, or is added with the value 0. *)
LEMMA SumWith ==
    ASSUME NEW f, IsFiniteSet(DOMAIN f), \A a \in DOMAIN f : f[a].balance \in Int,
           NEW x, NEW v, v.balance \in Int, x \notin DOMAIN f => v.balance = 0
    PROVE  /\ SumOfBalances(f) \in Int
           /\ SumOfBalances(With(f, x, v)) =
                 SumOfBalances(f) + (IF x \in DOMAIN f THEN v.balance - f[x].balance ELSE 0)
<1>1. PICK D : D = DOMAIN f
    OBVIOUS
<1>2. PICK g : g = With(f, x, v)
    OBVIOUS
<1>3. /\ DOMAIN g = D \cup {x} /\ g[x] = v /\ \A a \in D : a # x => g[a] = f[a]
      /\ \A a \in DOMAIN g : g[a].balance \in Int
    BY <1>1, <1>2 DEF With
<1>4. PICK fa, fb : fa = Above(f) /\ fb = Below(f)
    OBVIOUS
<1>5. PICK ga, gb : ga = Above(g) /\ gb = Below(g)
    OBVIOUS
<1>6. /\ SumOfBalances(f) = Total(D, fa) - Total(D, fb)
      /\ fa \in [D -> Nat] /\ fb \in [D -> Nat]
      /\ \A a \in D : fa[a] - fb[a] = f[a].balance
    BY <1>1, <1>4, SumParts
<1>7. /\ SumOfBalances(g) = Total(D \cup {x}, ga) - Total(D \cup {x}, gb)
      /\ ga \in [D \cup {x} -> Nat] /\ gb \in [D \cup {x} -> Nat]
      /\ \A a \in D \cup {x} : ga[a] - gb[a] = g[a].balance
    <2>1. /\ SumOfBalances(g) = Total(DOMAIN g, Above(g)) - Total(DOMAIN g, Below(g))
          /\ Above(g) \in [DOMAIN g -> Nat] /\ Below(g) \in [DOMAIN g -> Nat]
          /\ \A a \in DOMAIN g : Above(g)[a] - Below(g)[a] = g[a].balance
        BY <1>3, SumParts
    <2> QED BY <1>3, <1>5, <2>1
<1>8. \A a \in D : a # x => ga[a] = fa[a] /\ gb[a] = fb[a]
    BY <1>1, <1>3, <1>4, <1>5 DEF Above, Below
<1>9. Total(D, fa) \in Nat /\ Total(D, fb) \in Nat /\ SumOfBalances(f) \in Int
    BY <1>1, <1>6, TotalType
<1>10. ga[x] \in Nat /\ gb[x] \in Nat /\ ga[x] - gb[x] = v.balance
    BY <1>3, <1>7
<1>11. CASE x \in D
    <2>1. D \cup {x} = D
        BY <1>11
    <2>2. ga \in [D -> Nat] /\ gb \in [D -> Nat]
        BY <1>7, <2>1
    <2>3. Total(D, ga) = Total(D, fa) - fa[x] + ga[x]
        BY <1>1, <1>6, <1>8, <1>11, <2>2, TotalChange
    <2>4. Total(D, gb) = Total(D, fb) - fb[x] + gb[x]
        BY <1>1, <1>6, <1>8, <1>11, <2>2, TotalChange
    <2>5. fa[x] \in Nat /\ fb[x] \in Nat /\ fa[x] - fb[x] = f[x].balance
        BY <1>6, <1>11
    <2>6. SumOfBalances(g) = Total(D, ga) - Total(D, gb)
        BY <1>7, <2>1
    <2>7. \A A, B, p, q, r, s \in Nat :
             (A - p + q) - (B - r + s) = (A - B) + ((q - s) - (p - r))
        OBVIOUS
    <2>8. SumOfBalances(g) = SumOfBalances(f) + ((ga[x] - gb[x]) - (fa[x] - fb[x]))
        BY <1>6, <1>9, <1>10, <2>3, <2>4, <2>5, <2>6, <2>7
    <2> QED BY <1>1, <1>2, <1>9, <1>10, <1>11, <2>5, <2>8
<1>12. CASE x \notin D
    <2>1. \A a \in D : ga[a] = fa[a] /\ gb[a] = fb[a]
        BY <1>8, <1>12
    <2>2. Total(D \cup {x}, ga) = Total(D, fa) + ga[x]
        BY <1>1, <1>6, <1>7, <1>12, <2>1, TotalExtend
    <2>3. Total(D \cup {x}, gb) = Total(D, fb) + gb[x]
        BY <1>1, <1>6, <1>7, <1>12, <2>1, TotalExtend
    <2>4. ga[x] = gb[x]
        BY <1>1, <1>10, <1>12
    <2>5. SumOfBalances(g) = SumOfBalances(f)
        BY <1>6, <1>7, <1>9, <1>10, <2>2, <2>3, <2>4
    <2>6. SumOfBalances(f) + 0 = SumOfBalances(f)
        BY <1>9
    <2> QED BY <1>1, <1>2, <1>9, <1>12, <2>5, <2>6
<1> QED BY <1>11, <1>12

ProjectionOK(p) ==
    /\ p.balance \in Int /\ p.credits \in Nat /\ p.debits \in Nat
    /\ p.credits <= MaxCents /\ p.debits <= MaxCents
    /\ p.balance = p.credits - p.debits \/ MaxCents \in {p.credits, p.debits}

CreatedTwice(es, k) ==
    \E i, j \in 1 .. k :
        /\ i # j /\ es[i].account = es[j].account
        /\ es[i].type = "AccountCreated" /\ es[j].type = "AccountCreated"

(* What the first k events of es make of the read model. *)
AddsUp(m, es, k) ==
    /\ m.total \in Int /\ IsFiniteSet(DOMAIN m.accounts)
    /\ \A a \in DOMAIN m.accounts :
          /\ ProjectionOK(m.accounts[a])
          /\ \E i \in 1 .. k : es[i].account = a /\ es[i].type = "AccountCreated"
    /\ CreatedTwice(es, k) \/ m.total = SumOfBalances(m.accounts)

LEMMA PostedOK ==
    ASSUME NEW p, ProjectionOK(p), NEW d \in Int
    PROVE  ProjectionOK(Posted(p, d)) /\ Posted(p, d).balance = p.balance + d
<1>1. PICK n : n = Posted(p, d)
    OBVIOUS
<1>2. /\ n.balance = p.balance + d
      /\ n.credits = IF d > 0 THEN SaturatingAdd(p.credits, d) ELSE p.credits
      /\ n.debits = IF d < 0 THEN SaturatingAdd(p.debits, -d) ELSE p.debits
    BY <1>1 DEF Posted
<1>3. PICK c \in Nat, b \in Nat, x \in Int :
          c = p.credits /\ b = p.debits /\ x = p.balance
          /\ c <= MaxCents /\ b <= MaxCents /\ (x = c - b \/ c = MaxCents \/ b = MaxCents)
    BY DEF ProjectionOK
<1>4. MaxCents \in Nat
    BY EventLogAssumption
<1>5. CASE d > 0
    <2>1. n.balance = x + d /\ n.debits = b
          /\ n.credits = IF c + d > MaxCents THEN MaxCents ELSE c + d
        BY <1>2, <1>3, <1>5 DEF SaturatingAdd
    <2> QED BY <1>1, <1>2, <1>3, <1>4, <1>5, <2>1 DEF ProjectionOK
<1>6. CASE d < 0
    <2>1. n.balance = x + d /\ n.credits = c
          /\ n.debits = IF b + (-d) > MaxCents THEN MaxCents ELSE b + (-d)
        BY <1>2, <1>3, <1>6 DEF SaturatingAdd
    <2> QED BY <1>1, <1>2, <1>3, <1>4, <1>6, <2>1 DEF ProjectionOK
<1>7. CASE d = 0
    <2>1. n.balance = x /\ n.credits = c /\ n.debits = b
        BY <1>2, <1>3, <1>7
    <2> QED BY <1>1, <1>2, <1>3, <1>4, <1>7, <2>1 DEF ProjectionOK
<1> QED BY <1>5, <1>6, <1>7

LEMMA ApplyAddsUp ==
    ASSUME NEW m, NEW es, NEW k \in Nat, AddsUp(m, es, k), es[k + 1].amount \in Int
    PROVE  AddsUp(Apply(m, es[k + 1]), es, k + 1)
<1>1. PICK e : e = es[k + 1]
    OBVIOUS
<1>2. PICK f : f = m.accounts
    OBVIOUS
<1>3. PICK x : x = e.account
    OBVIOUS
<1>4. /\ m.total \in Int /\ IsFiniteSet(DOMAIN f)
      /\ \A a \in DOMAIN f :
            /\ ProjectionOK(f[a])
            /\ \E i \in 1 .. k : es[i].account = a /\ es[i].type = "AccountCreated"
      /\ CreatedTwice(es, k) \/ m.total = SumOfBalances(f)
    BY <1>2 DEF AddsUp
<1>5. \A i \in 1 .. k : i \in 1 .. k + 1
    OBVIOUS
<1>6. CreatedTwice(es, k) => CreatedTwice(es, k + 1)
    BY <1>5 DEF CreatedTwice
<1>7. \A a \in DOMAIN f : \E i \in 1 .. k + 1 : es[i].account = a /\ es[i].type = "AccountCreated"
    BY <1>4, <1>5
<1>8. \A a \in DOMAIN f : f[a].balance \in Int
    BY <1>4 DEF ProjectionOK
(* The account gets the projection v, and the total moves by d. *)
<1>9. ASSUME NEW v, ProjectionOK(v), NEW d \in Int,
             Apply(m, e) = [accounts |-> With(f, x, v), total |-> m.total + d],
             x \notin DOMAIN f => v.balance = 0 /\ e.type = "AccountCreated",
             \/ x \in DOMAIN f /\ e.type = "AccountCreated"
             \/ d = IF x \in DOMAIN f THEN v.balance - f[x].balance ELSE 0
      PROVE  AddsUp(Apply(m, e), es, k + 1)
    <2>1. PICK n : n = Apply(m, e)
        OBVIOUS
    <2>2. PICK g : g = With(f, x, v)
        OBVIOUS
    <2>3. n.accounts = g /\ n.total = m.total + d
        BY <1>9, <2>1, <2>2
    <2>4. /\ DOMAIN g = DOMAIN f \cup {x} /\ g[x] = v
          /\ \A a \in DOMAIN f : a # x => g[a] = f[a]
        BY <2>2 DEF With
    <2>5. n.total \in Int /\ IsFiniteSet(DOMAIN g)
        BY <1>4, <2>3, <2>4, FS_AddElement
    <2>6. ASSUME NEW a \in DOMAIN g
          PROVE  /\ ProjectionOK(g[a])
                 /\ \E i \in 1 .. k + 1 : es[i].account = a /\ es[i].type = "AccountCreated"
        <3>1. ProjectionOK(g[a])
            BY <1>4, <1>9, <2>4
        <3>2. CASE a \in DOMAIN f
            BY <1>7, <3>1, <3>2
        <3>3. CASE a \notin DOMAIN f
            <4>1. a = x /\ e.type = "AccountCreated" /\ k + 1 \in 1 .. k + 1
                BY <1>9, <2>4, <3>3
            <4> QED BY <1>1, <1>3, <3>1, <4>1
        <3> QED BY <3>2, <3>3
    <2>7. CreatedTwice(es, k + 1) \/ n.total = SumOfBalances(g)
        <3>1. CASE x \in DOMAIN f /\ e.type = "AccountCreated"
            <4>1. PICK i \in 1 .. k : es[i].account = x /\ es[i].type = "AccountCreated"
                BY <1>4, <3>1
            <4>2. i \in 1 .. k + 1 /\ k + 1 \in 1 .. k + 1 /\ i # k + 1
                OBVIOUS
            <4> QED BY <1>1, <1>3, <3>1, <4>1, <4>2 DEF CreatedTwice
        <3>2. CASE d = IF x \in DOMAIN f THEN v.balance - f[x].balance ELSE 0
            <4>1. v.balance \in Int
                BY <1>9 DEF ProjectionOK
            <4>2. SumOfBalances(g) =
                     SumOfBalances(f) + (IF x \in DOMAIN f THEN v.balance - f[x].balance ELSE 0)
                BY <1>4, <1>8, <1>9, <2>2, <4>1, SumWith
            <4>3. SumOfBalances(g) = SumOfBalances(f) + d
                BY <3>2, <4>2
            <4> QED BY <1>4, <1>6, <2>3, <4>3
        <3> QED BY <1>9, <3>1, <3>2
    <2> QED BY <2>1, <2>3, <2>5, <2>6, <2>7 DEF AddsUp
<1>10. CASE e.type = "AccountCreated"
    <2>1. Apply(m, e) = [accounts |-> With(f, x, NewProjection), total |-> m.total]
        BY <1>2, <1>3, <1>10 DEF Apply, Moves
    <2>2. m.total = m.total + 0
        BY <1>4
    <2>3. ProjectionOK(NewProjection) /\ NewProjection.balance = 0
        BY EventLogAssumption DEF ProjectionOK, NewProjection
    <2>4. Apply(m, e) = [accounts |-> With(f, x, NewProjection), total |-> m.total + 0]
        BY <2>1, <2>2
    <2>5. \/ x \in DOMAIN f /\ e.type = "AccountCreated"
          \/ 0 = IF x \in DOMAIN f THEN NewProjection.balance - f[x].balance ELSE 0
        BY <1>10
    <2> QED BY <1>1, <1>9, <1>10, <2>3, <2>4, <2>5
<1>11. CASE /\ e.type # "AccountCreated" /\ Moves(m, e)
            /\ InRange(f[x].balance + Signed(e)) /\ InRange(m.total + Signed(e))
    <2>1. PICK d \in Int : d = Signed(e)
        <3>1. e.amount \in Int
            BY <1>1
        <3> QED BY <3>1 DEF Signed
    <2>2. x \in DOMAIN f
        BY <1>2, <1>3, <1>11 DEF Moves
    <2>3. PICK v : v = Posted(f[x], d)
        OBVIOUS
    <2>4. ProjectionOK(v) /\ v.balance = f[x].balance + d
        BY <1>4, <2>2, <2>3, PostedOK
    <2>5. Apply(m, e) = [accounts |-> With(f, x, v), total |-> m.total + d]
        BY <1>2, <1>3, <1>11, <2>1, <2>3 DEF Apply
    <2>6. d = v.balance - f[x].balance
        BY <1>8, <2>2, <2>4
    <2> QED BY <1>1, <1>9, <2>2, <2>4, <2>5, <2>6
<1>12. CASE /\ e.type # "AccountCreated"
            /\ ~ /\ Moves(m, e)
                 /\ InRange(f[x].balance + Signed(e)) /\ InRange(m.total + Signed(e))
    <2>1. Apply(m, e) = m
        BY <1>2, <1>3, <1>12 DEF Apply
    <2> QED BY <1>1, <1>2, <1>4, <1>6, <1>7, <2>1 DEF AddsUp
<1> QED BY <1>10, <1>11, <1>12

LEMMA RebuildAddsUp ==
    ASSUME NEW es, IsSeq(es), \A i \in DOMAIN es : es[i].amount \in Int
    PROVE  AddsUp(Rebuild(es), es, Len(es))
<1>1. PICK N \in Nat : N = Len(es) /\ DOMAIN es = 1 .. N
    BY SeqFacts
<1>2. PICK g : IsRun(g, NewModel, es, N) /\ Rebuild(es) = g[N]
    BY <1>1, ApplyAllRun DEF Rebuild
<1> DEFINE S == {k \in Nat : k <= N => AddsUp(g[k], es, k)}
<1>3. 0 \in S
    <2>1. g[0].accounts = <<>> /\ g[0].total = 0
        BY <1>2 DEF IsRun, NewModel
    <2>2. DOMAIN <<>> = {}
        OBVIOUS
    <2>3. IsFiniteSet({})
        BY FS_EmptySet
    <2>4. AddsUp(g[0], es, 0)
        BY <2>1, <2>2, <2>3, SumEmpty DEF AddsUp
    <2> QED BY <2>4
<1>4. ASSUME NEW k \in Nat, k \in S PROVE k + 1 \in S
    <2> SUFFICES ASSUME k + 1 <= N PROVE AddsUp(g[k + 1], es, k + 1)
        OBVIOUS
    <2>1. k \in 0 .. N - 1 /\ k + 1 \in DOMAIN es /\ AddsUp(g[k], es, k)
        BY <1>1, <1>4
    <2>2. g[k + 1] = Apply(g[k], es[k + 1])
        BY <1>2, <2>1 DEF IsRun
    <2>3. AddsUp(Apply(g[k], es[k + 1]), es, k + 1)
        BY <2>1, ApplyAddsUp
    <2> QED BY <2>2, <2>3
<1>5. S = Nat
    <2> HIDE DEF S
    <2>1. S \in SUBSET Nat
        BY DEF S
    <2> QED BY <1>3, <1>4, <2>1, Induct
<1>6. N \in S /\ N <= N
    BY <1>5
<1> QED BY <1>1, <1>2, <1>6

(* AddsUp looks at the first k events only. *)
LEMMA AddsUpSame ==
    ASSUME NEW m, NEW es, NEW fs, NEW k \in Nat, AddsUp(m, es, k),
           \A i \in 1 .. k : fs[i] = es[i]
    PROVE  AddsUp(m, fs, k)
<1>1. \A a : (\E i \in 1 .. k : es[i].account = a /\ es[i].type = "AccountCreated") =>
              \E i \in 1 .. k : fs[i].account = a /\ fs[i].type = "AccountCreated"
    OBVIOUS
<1>2. CreatedTwice(es, k) => CreatedTwice(fs, k)
    BY DEF CreatedTwice
<1> QED BY <1>1, <1>2 DEF AddsUp

ModelInv == AddsUp(model, projected, Len(projected))

LEMMA ModelStep == LogType /\ ModelInv /\ [LogNext]_logVars => ModelInv'
<1> SUFFICES ASSUME LogType, ModelInv, [LogNext]_logVars PROVE ModelInv'
    OBVIOUS
<1>1. CASE UNCHANGED <<model, projected>>
    BY <1>1 DEF ModelInv
<1>2. CASE Project
    <2>1. PICK n \in Nat : n = Len(projected)
        BY <1>2, ProjectFacts
    <2>2. PICK q : q = projected'
        OBVIOUS
    <2>3. /\ Len(q) = n + 1 /\ \A i \in 1 .. n : q[i] = projected[i]
          /\ q[n + 1].amount \in Int /\ model' = Apply(model, q[n + 1])
        BY <1>2, <2>1, <2>2, ProjectFacts
    <2>4. AddsUp(model, q, n)
        BY <2>1, <2>3, AddsUpSame DEF ModelInv
    <2>5. AddsUp(Apply(model, q[n + 1]), q, n + 1)
        BY <2>3, <2>4, ApplyAddsUp
    <2> QED BY <2>2, <2>3, <2>5 DEF ModelInv
<1>3. CASE LogRestart
    <2>1. model' = Rebuild(projected')
        BY <1>3 DEF LogRestart
    <2>2. IsSeq(projected') /\ \A i \in DOMAIN projected' : projected'[i].amount \in Int
        BY <1>3, LogTypeRestart DEF LogType
    <2>3. PICK q : q = projected'
        OBVIOUS
    <2>4. AddsUp(Rebuild(q), q, Len(q))
        BY <2>2, <2>3, RebuildAddsUp
    <2> QED BY <2>1, <2>3, <2>4 DEF ModelInv
<1> QED
    BY <1>1, <1>2, <1>3 DEF LogNext, logVars, Process, LogEvent, LogEventFails, Finish

(* Whatever events come, in whatever order and over restarts: a balance of *)
(* the read model is its credits less its debits until one of the two      *)
(* saturated, and the total is the sum of the balances until an account is *)
(* created again (ReadModel apply).                                        *)
THEOREM ReadModelAddsUp == LogSpec => []ModelAddsUp
<1>1. LogInit => LogType /\ ModelInv
    <2> SUFFICES ASSUME LogInit PROVE ModelInv
        BY LogTypeInit
    <2>1. model.accounts = <<>> /\ model.total = 0 /\ Len(projected) = 0
        BY DEF LogInit, NewModel
    <2>2. DOMAIN <<>> = {}
        OBVIOUS
    <2>3. IsFiniteSet({})
        BY FS_EmptySet
    <2> QED BY <2>1, <2>2, <2>3, SumEmpty DEF ModelInv, AddsUp
<1>2. LogType /\ ModelInv /\ [LogNext]_logVars => (LogType /\ ModelInv)'
    BY LogTypeStep, ModelStep
<1>3. LogType /\ ModelInv => ModelAddsUp
    <2> SUFFICES ASSUME LogType, ModelInv PROVE ModelAddsUp
        OBVIOUS
    <2>1. DOMAIN projected = 1 .. Len(projected)
        BY SeqFacts DEF LogType
    <2>2. CreatedTwice(projected, Len(projected)) => CreatedAgain(projected)
        BY <2>1 DEF CreatedTwice, CreatedAgain
    <2> QED BY <2>2 DEF ModelInv, AddsUp, ProjectionOK, ModelAddsUp
<1> QED BY <1>1, <1>2, <1>3, PTL DEF LogSpec
=============================================================================
