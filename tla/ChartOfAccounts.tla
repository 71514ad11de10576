-------------------------- MODULE ChartOfAccounts --------------------------
(***************************************************************************)
(* The hierarchy of src/src/domain/coa.rs.  An account names its parent by *)
(* id, and the parent need not be in the chart yet; an id may be added     *)
(* more than once, and lookups see the first.  add_account is that of a    *)
(* debug build, where the assertion refuses an account that                *)
(* validate_no_circular_ref finds circular; a release build adds it.       *)
(* Code, name, category and version only label an account.                 *)
(***************************************************************************)
EXTENDS Integers, Sequences, FiniteSets

CONSTANTS CoaIds,
          Root,         \* the parent of a root-level account: None
          MaxAdds       \* bound on accounts added

ASSUME ChartAssumption ==
    IsFiniteSet(CoaIds) /\ Root \notin CoaIds /\ MaxAdds \in Nat

VARIABLE chart          \* accounts, in the order they were added

CoaAccount(id, parent) == [id |-> id, parent |-> parent, status |-> "Active"]

ChartInit == chart = <<>>

InChart(id) == \E k \in DOMAIN chart : chart[k].id = id
FirstWith(id) == CHOOSE k \in DOMAIN chart :
                     chart[k].id = id /\ \A j \in 1 .. k - 1 : chart[j].id # id

find_by_id(id) == chart[FirstWith(id)]

ParentOf(id) == IF id # Root /\ InChart(id) THEN find_by_id(id).parent ELSE Root

\* The accounts on the way from start to the root, one for each turn.
Walk(start) ==
    LET at[n \in 0 .. Cardinality(CoaIds)] == IF n = 0 THEN start ELSE ParentOf(at[n - 1])
    IN at

\* The loop of validate_no_circular_ref: it comes to the root and has met no
\* account twice before.  A turn visits a new account, so the walk is long enough.
EndsAtRoot(start, visited) ==
    LET at == Walk(start)
    IN \E n \in DOMAIN at :
          /\ at[n] = Root
          /\ \A m \in 0 .. n - 1 : at[m] \notin visited \cup {at[k] : k \in 0 .. m - 1}

\* Mutant: the account itself does not count as visited.
ValidateForgettingSelf(account) == EndsAtRoot(account.parent, {})

validate_no_circular_ref(account) == EndsAtRoot(account.parent, {account.id})

AddAccount(account) ==
    /\ Len(chart) < MaxAdds
    /\ validate_no_circular_ref(account)
    /\ chart' = Append(chart, account)

Deactivate(id) ==
    /\ InChart(id)
    /\ chart' = [chart EXCEPT ![FirstWith(id)].status = "Inactive"]

ChartNext ==
    \E id \in CoaIds : \/ \E parent \in CoaIds \cup {Root} : AddAccount(CoaAccount(id, parent))
                       \/ Deactivate(id)

ChartSpec == ChartInit /\ [][ChartNext]_chart

---------------------------------------------------------------------------
Ancestors(id) == {Walk(id)[n] : n \in 1 .. Cardinality(CoaIds)} \ {Root}

(***************************************************************************)
(* The chart stays a hierarchy in whatever order parents and children are  *)
(* added, repeated and deactivated: no account is its own ancestor.  And   *)
(* the walk of validate_no_circular_ref decides it: it refuses an account  *)
(* exactly when its parent is the account or has it for an ancestor.       *)
(***************************************************************************)
HierarchyEnds ==
    /\ \A id \in CoaIds : id \notin Ancestors(id)
    /\ \A id, parent \in CoaIds :
          validate_no_circular_ref(CoaAccount(id, parent))
             <=> id # parent /\ id \notin Ancestors(parent)
===========================================================================
