----------------------------- MODULE Standalone -----------------------------
(***************************************************************************)
(* The components that share no state with the rest of the system, nor     *)
(* with each other: every one of them under its own threads.  Since a step *)
(* of one leaves the others alone, an interleaving of several shows no     *)
(* state of one that a behaviour of that one alone does not; a behaviour   *)
(* here therefore exercises the one component `focus` names.               *)
(***************************************************************************)
EXTENDS RingBuffer, Histogram, Waiting, Resilience, LockGraph, Rbac, Identity,
        ChartOfAccounts, Signals

VARIABLE focus

Components == {"ring", "histogram", "condition", "queue", "bulkhead", "bucket",
               "locks", "rbac", "identity", "chart", "signals"}

vars == <<ringVars, histVars, condVars, queueVars, bulkVars, bucketVars, lockVars,
          rbacVars, identityVars, chart, signalVars, focus>>

Init ==
    /\ focus \in Components
    /\ RingInit /\ HistInit /\ CondInit /\ QueueInit /\ BulkInit /\ BucketInit
    /\ LockInit /\ RbacInit /\ IdentityInit /\ ChartInit /\ SignalsInit

Next ==
    /\ UNCHANGED focus
    /\ \/ focus = "ring" /\ RingNext
       \/ focus # "ring" /\ UNCHANGED ringVars
    /\ \/ focus = "histogram" /\ HistNext
       \/ focus # "histogram" /\ UNCHANGED histVars
    /\ \/ focus = "condition" /\ CondNext
       \/ focus # "condition" /\ UNCHANGED condVars
    /\ \/ focus = "queue" /\ QueueNext
       \/ focus # "queue" /\ UNCHANGED queueVars
    /\ \/ focus = "bulkhead" /\ BulkNext
       \/ focus # "bulkhead" /\ UNCHANGED bulkVars
    /\ \/ focus = "bucket" /\ BucketNext
       \/ focus # "bucket" /\ UNCHANGED bucketVars
    /\ \/ focus = "locks" /\ LockNext
       \/ focus # "locks" /\ UNCHANGED lockVars
    /\ \/ focus = "rbac" /\ RbacNext
       \/ focus # "rbac" /\ UNCHANGED rbacVars
    /\ \/ focus = "identity" /\ IdentityNext
       \/ focus # "identity" /\ UNCHANGED identityVars
    /\ \/ focus = "chart" /\ ChartNext
       \/ focus # "chart" /\ UNCHANGED chart
    /\ \/ focus = "signals" /\ SignalsNext
       \/ focus # "signals" /\ UNCHANGED signalVars

Spec == Init /\ [][Next]_vars
=============================================================================
