----------------------------- MODULE LockGraph -----------------------------
(***************************************************************************)
(* DeadlockDetector of src/src/service/advanced.rs, fed by threads that    *)
(* really lock: a thread records wait_for when it finds the resource       *)
(* taken, acquire when it gets it, and release.  acquire does not withdraw *)
(* the wait it ends.                                                       *)
(***************************************************************************)
EXTENDS Integers, Sequences, SequencesExt

CONSTANTS Lockers, Resources, Free

VARIABLES owners,       \* resource -> the thread recorded as holding it, or Free
          waiting,      \* thread -> resources it is recorded as waiting for
          holder,       \* resource -> the thread that really holds it, or Free
          blockedOn     \* thread -> the resource it is really blocked on, or Free

lockVars == <<owners, waiting, holder, blockedOn>>

LockInit ==
    /\ owners = [r \in Resources |-> Free] /\ waiting = [t \in Lockers |-> {}]
    /\ holder = owners /\ blockedOn = [t \in Lockers |-> Free]

---------------------------------------------------------------------------
\* Mutant: a resource got after a wait keeps its former owner.
AcquireStale(t, r) ==
    /\ holder[r] = Free /\ blockedOn[t] \in {Free, r}
    /\ holder' = [holder EXCEPT ![r] = t]
    /\ blockedOn' = [blockedOn EXCEPT ![t] = Free]
    /\ owners' = IF blockedOn[t] = Free THEN [owners EXCEPT ![r] = t] ELSE owners
    /\ UNCHANGED waiting

Acquire(t, r) ==
    /\ holder[r] = Free /\ blockedOn[t] \in {Free, r}
    /\ holder' = [holder EXCEPT ![r] = t]
    /\ blockedOn' = [blockedOn EXCEPT ![t] = Free]
    /\ owners' = [owners EXCEPT ![r] = t]
    /\ UNCHANGED waiting

WaitFor(t, r) ==
    /\ holder[r] # Free /\ blockedOn[t] = Free
    /\ blockedOn' = [blockedOn EXCEPT ![t] = r]
    /\ waiting' = [waiting EXCEPT ![t] = @ \cup {r}]
    /\ UNCHANGED <<owners, holder>>

ReleaseLock(t, r) ==
    /\ holder[r] = t /\ blockedOn[t] = Free
    /\ holder' = [holder EXCEPT ![r] = Free]
    /\ owners' = [owners EXCEPT ![r] = Free]
    /\ waiting' = [waiting EXCEPT ![t] = @ \ {r}]
    /\ UNCHANGED blockedOn

LockNext ==
    \E t \in Lockers, r \in Resources : Acquire(t, r) \/ WaitFor(t, r) \/ ReleaseLock(t, r)

---------------------------------------------------------------------------
\* detect_cycle's graph: t -> u when t waits for something u owns.
Edges == {e \in Lockers \X Lockers : \E r \in waiting[e[1]] : owners[r] = e[2]}

(***************************************************************************)
(* dfs_cycle from a node: the cycle found, or the nodes visited by now.    *)
(* order is the iteration order of the hash maps.                          *)
(***************************************************************************)
RECURSIVE DfsCycle(_, _, _, _)
DfsCycle(node, visited, path, order) ==
    LET here == Append(path, node)
        Look(found, n) ==
            IF found.cycle # <<>> \/ <<node, n>> \notin Edges THEN found
            ELSE IF n \notin found.visited THEN DfsCycle(n, found.visited, here, order)
            ELSE IF Contains(here, n)
                 THEN [found EXCEPT !.cycle =
                          Append(SubSeq(here, SelectInSeq(here, LAMBDA x : x = n), Len(here)), n)]
            ELSE found
    IN FoldLeft(Look, [cycle |-> <<>>, visited |-> visited \cup {node}], order)

\* detect_cycle: a search from every key not visited yet; <<>> for None.
DetectCycle(order) ==
    LET Search(found, n) ==
            IF found.cycle # <<>> \/ n \in found.visited \/ \A u \in Lockers : <<n, u>> \notin Edges
            THEN found ELSE DfsCycle(n, found.visited, <<>>, order)
    IN FoldLeft(Search, [cycle |-> <<>>, visited |-> {}], order).cycle

---------------------------------------------------------------------------
\* Threads blocked on one another for ever.
Deadlocked == \E S \in (SUBSET Lockers) \ {{}} :
                 \A t \in S : blockedOn[t] # Free /\ holder[blockedOn[t]] \in S

(***************************************************************************)
(* Whatever order the hash maps are iterated in, a deadlock is reported,   *)
(* and what is reported is a closed path of recorded waits.  A report with *)
(* nobody deadlocked goes through a thread recorded as waiting for what it *)
(* meanwhile got, the wait acquire did not withdraw.                       *)
(***************************************************************************)
DeadlocksReported ==
    \A order \in SetToSeqs(Lockers) :
        LET cycle == DetectCycle(order)
        IN /\ Deadlocked => cycle # <<>>
           /\ cycle # <<>> =>
                /\ Len(cycle) > 1 /\ cycle[1] = Last(cycle)
                /\ \A i \in 1 .. Len(cycle) - 1 : <<cycle[i], cycle[i + 1]>> \in Edges
                /\ Deadlocked \/ \E i \in DOMAIN cycle : \E r \in waiting[cycle[i]] :
                                    blockedOn[cycle[i]] # r
=============================================================================
