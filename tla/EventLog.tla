------------------------------- MODULE EventLog -------------------------------
(***************************************************************************)
(* src/src/log/event_log.rs: Command, WAL, event store and projection.     *)
(* CommandDispatcher owns the parts but has no method; they are joined     *)
(* here as the file describes them: process_command_idempotent runs a      *)
(* handler that logs each of its events and appends what it returns to the *)
(* store; the read model is "updated asynchronously", an event of the      *)
(* store at a time.  After a restart the read model is rebuilt from the    *)
(* replayed log; the store and its set of commands are new, since a log    *)
(* entry names no command.                                                 *)
(*                                                                         *)
(* The file is a sequence of lines.  A write may stop anywhere: what the   *)
(* BufWriter could not write stays in it and goes out with the next flush, *)
(* or is lost with the process, which leaves a line without its end.       *)
(* An unfinished line never parses.  Power failures (flush is not fsync)   *)
(* and bit rot are left out.                                               *)
(*                                                                         *)
(* History: acked, the events whose append returned Ok; torn, the restarts *)
(* that found an unfinished line; projected, the events the read model was *)
(* given.                                                                  *)
(***************************************************************************)
EXTENDS Integers, Sequences, FiniteSets, FiniteSetsExt, Totals

CONSTANTS
    Commands,
    Produces,           \* what the handler makes of a command: event templates
    Accounts,
    MaxCents,           \* i64::MAX
    MaxRuns,            \* bound on calls of process_command_idempotent
    MaxBoots            \* bound on starts of the process

Events == [type : {"AccountCreated", "FundsDeposited", "FundsWithdrawn", "Other"},
           account : Accounts, amount : Int]

ASSUME EventLogAssumption ==
    /\ \A c \in Commands : Produces[c] \in Seq(Events)
    /\ MaxCents \in Nat /\ MaxRuns \in Nat /\ MaxBoots \in Nat \ {0}

VARIABLES
    lines,              \* of the file; Junk for one that does not parse
    tail,               \* end of the file: "clean", "half" or "torn"
    unwritten,          \* entries the BufWriter still holds
    sequence,
    store, commands,    \* EventStore
    model,              \* ReadModel
    cursor,             \* how far the projection has read the store
    run,                \* the command being processed, or Nothing
    runs, boots,
    acked, torn, projected

walVars == <<lines, tail, unwritten, sequence>>
logVars == <<lines, tail, unwritten, sequence, store, commands, model, cursor,
             run, runs, boots, acked, torn, projected>>

Junk == [junk |-> TRUE]
Nothing == [todo |-> <<>>, done |-> <<>>]

-----------------------------------------------------------------------------
(* ReadModel. *)
NewProjection == [balance |-> 0, credits |-> 0, debits |-> 0, count |-> 0]
NewModel == [accounts |-> <<>>, total |-> 0]

InRange(n) == -MaxCents - 1 <= n /\ n <= MaxCents
SaturatingAdd(a, b) == IF a + b > MaxCents THEN MaxCents ELSE a + b

With(f, x, v) == [y \in DOMAIN f \cup {x} |-> IF y = x THEN v ELSE f[y]]

(* A projection that is credited d, or debited -d. *)
Posted(p, d) ==
    [balance |-> p.balance + d,
     credits |-> IF d > 0 THEN SaturatingAdd(p.credits, d) ELSE p.credits,
     debits |-> IF d < 0 THEN SaturatingAdd(p.debits, -d) ELSE p.debits,
     count |-> p.count + 1]

Signed(e) == IF e.type = "FundsDeposited" THEN e.amount ELSE -e.amount

Moves(m, e) ==
    /\ e.type \in {"FundsDeposited", "FundsWithdrawn"}
    /\ e.amount > 0 /\ e.account \in DOMAIN m.accounts

(* Mutant: a deposit is counted before its range is checked. *)
ApplyTotalFirst(m, e) ==
    LET d == Signed(e)
        a == e.account
        fits == InRange(m.accounts[a].balance + d)
    IN  CASE e.type = "AccountCreated" ->
                [accounts |-> With(m.accounts, a, NewProjection), total |-> m.total]
          [] Moves(m, e) /\ InRange(m.total + d) ->
                [accounts |-> IF fits THEN With(m.accounts, a, Posted(m.accounts[a], d))
                              ELSE m.accounts,
                 total |-> m.total + d]
          [] OTHER -> m

Apply(m, e) ==
    LET d == Signed(e)
        a == e.account
    IN  CASE e.type = "AccountCreated" ->
                [accounts |-> With(m.accounts, a, NewProjection), total |-> m.total]
          [] Moves(m, e) /\ InRange(m.accounts[a].balance + d) /\ InRange(m.total + d) ->
                [accounts |-> With(m.accounts, a, Posted(m.accounts[a], d)),
                 total |-> m.total + d]
          [] OTHER -> m

ApplyAll(m, es) ==
    LET after[i \in 0 .. Len(es)] == IF i = 0 THEN m ELSE Apply(after[i - 1], es[i])
    IN  after[Len(es)]

Rebuild(es) == ApplyAll(NewModel, es)

-----------------------------------------------------------------------------
(* WriteAheadLog. *)

(* Whole lines behind what the file ends with: a torn end swallows the     *)
(* first of them.                                                          *)
Written(ls) ==
    IF ls = <<>> THEN lines
    ELSE lines \o (IF tail = "torn" THEN <<Junk>> \o Tail(ls) ELSE ls)

(* Mutant: replay stops at the first line that does not parse. *)
ReplayUntilJunk(ls) ==
    LET good == {n \in 0 .. Len(ls) : \A i \in 1 .. n : ls[i] # Junk}
    IN  SubSeq(ls, 1, Max(good))

Replay(ls) ==
    LET kept[i \in 0 .. Len(ls)] ==
            IF i = 0 THEN <<>>
            ELSE IF ls[i] = Junk THEN kept[i - 1] ELSE Append(kept[i - 1], ls[i])
    IN  kept[Len(ls)]

EventsOf(ls) == [i \in DOMAIN ls |-> ls[i].event]

Entry == [sequence |-> sequence, event |-> Head(run.todo)]

LogEvent ==
    /\ run.todo # <<>>
    /\ lines' = Written(Append(unwritten, Entry))
    /\ tail' = "clean"
    /\ unwritten' = <<>>
    /\ sequence' = sequence + 1
    /\ run' = [todo |-> Tail(run.todo), done |-> Append(run.done, Head(run.todo))]
    /\ acked' = acked \cup {Head(run.todo)}
    /\ UNCHANGED <<store, commands, model, cursor, runs, boots, torn, projected>>

(* append fails after n whole lines, and perhaps a part of the next, went  *)
(* out; the handler returns what it has.                                   *)
LogEventFails(n, part) ==
    /\ run.todo # <<>>
    /\ LET queue == Append(unwritten, Entry)
       IN  /\ n < Len(queue)
           /\ lines' = Written(SubSeq(queue, 1, n))
           /\ unwritten' = SubSeq(queue, n + 1, Len(queue))
           /\ tail' = IF part THEN IF tail = "torn" /\ n = 0 THEN "torn" ELSE "half"
                      ELSE IF n > 0 THEN "clean" ELSE tail
    /\ run' = [todo |-> <<>>, done |-> run.done]
    /\ UNCHANGED <<sequence, store, commands, model, cursor, runs, boots, acked, torn,
                   projected>>

-----------------------------------------------------------------------------
(* process_command_idempotent. *)
Stamped(c) ==
    [i \in DOMAIN Produces[c] |->
        [type |-> Produces[c][i].type, account |-> Produces[c][i].account,
         amount |-> Produces[c][i].amount,
         command |-> c, boot |-> boots, run |-> runs + 1, at |-> i]]

(* Mutant: the command is not looked up. *)
ProcessAgain(c) ==
    /\ run = Nothing /\ runs < MaxRuns
    /\ runs' = runs + 1
    /\ run' = [todo |-> Stamped(c), done |-> <<>>]
    /\ UNCHANGED <<walVars, store, commands, model, cursor, boots, acked, torn, projected>>

Process(c) ==
    /\ run = Nothing /\ runs < MaxRuns
    /\ runs' = runs + 1
    /\ run' = IF c \in commands THEN run ELSE [todo |-> Stamped(c), done |-> <<>>]
    /\ UNCHANGED <<walVars, store, commands, model, cursor, boots, acked, torn, projected>>

Finish ==
    /\ run.todo = <<>> /\ run.done # <<>>
    /\ store' = store \o run.done
    /\ commands' = commands \cup {e.command : e \in {run.done[i] : i \in DOMAIN run.done}}
    /\ run' = Nothing
    /\ UNCHANGED <<walVars, model, cursor, runs, boots, acked, torn, projected>>

(* The event handler behind the read model takes the next event. *)
Project ==
    /\ cursor < Len(store)
    /\ cursor' = cursor + 1
    /\ model' = Apply(model, store[cursor'])
    /\ projected' = Append(projected, store[cursor'])
    /\ UNCHANGED <<walVars, store, commands, run, runs, boots, acked, torn>>

-----------------------------------------------------------------------------
LogRestart ==
    /\ boots < MaxBoots
    /\ boots' = boots + 1
    /\ tail' = IF tail = "half" THEN "torn" ELSE tail
    /\ torn' = IF tail' = "torn" THEN torn + 1 ELSE torn
    /\ unwritten' = <<>>
    /\ sequence' = 1
    /\ projected' = EventsOf(Replay(lines))
    /\ model' = Rebuild(projected')
    /\ store' = <<>>
    /\ commands' = {}
    /\ cursor' = 0
    /\ run' = Nothing
    /\ UNCHANGED <<lines, runs, acked>>

LogInit ==
    /\ lines = <<>> /\ tail = "clean" /\ unwritten = <<>> /\ sequence = 1
    /\ store = <<>> /\ commands = {} /\ model = NewModel /\ cursor = 0
    /\ run = Nothing /\ runs = 0 /\ boots = 1
    /\ acked = {} /\ torn = 0 /\ projected = <<>>

LogNext ==
    \/ \E c \in Commands : Process(c)
    \/ LogEvent
    \/ \E n \in 0 .. Len(unwritten), part \in BOOLEAN : LogEventFails(n, part)
    \/ Finish
    \/ Project
    \/ LogRestart

LogSpec == LogInit /\ [][LogNext]_logVars

-----------------------------------------------------------------------------
Replayed == {e.event : e \in {Replay(lines)[i] : i \in DOMAIN Replay(lines)}}

(* Replay brings back the events whose append returned, wherever the       *)
(* process died: at most one is lost for each start that found an          *)
(* unfinished line (create appends behind it, so the next entry is part of *)
(* a line that does not parse), and none is brought back twice.            *)
LossBounded ==
    /\ Cardinality(acked \ Replayed) <= torn
    /\ Cardinality(Replayed) = Len(Replay(lines))

(* "Process a command idempotently": while the process lives, the events   *)
(* of a command are those of one run of its handler, also when that run    *)
(* failed half-way and the command was sent again; only a run that logged  *)
(* nothing is repeated.                                                    *)
OneRunPerCommand ==
    \A i, j \in DOMAIN store :
        store[i].command = store[j].command => store[i].run = store[j].run

CreatedAgain(es) ==
    \E i, j \in DOMAIN es :
        i # j /\ es[i].account = es[j].account
              /\ es[i].type = "AccountCreated" /\ es[j].type = "AccountCreated"

(* What is above zero on the accounts less what is below. *)
SumOfBalances(accounts) ==
    Total(DOMAIN accounts, [a \in DOMAIN accounts |->
              IF accounts[a].balance > 0 THEN accounts[a].balance ELSE 0])
    - Total(DOMAIN accounts, [a \in DOMAIN accounts |->
              IF accounts[a].balance < 0 THEN -accounts[a].balance ELSE 0])

(* The read model adds up: a balance is credits less debits until one of   *)
(* the two sums has saturated, and the total of the system is the sum of   *)
(* the balances as long as no account was created twice, which resets its  *)
(* projection and leaves the total.                                        *)
ModelAddsUp ==
    /\ \A a \in DOMAIN model.accounts :
          LET p == model.accounts[a]
          IN  \/ p.balance = p.credits - p.debits
              \/ MaxCents \in {p.credits, p.debits}
    /\ \/ CreatedAgain(projected)
       \/ model.total = SumOfBalances(model.accounts)
=============================================================================
