------------------------------ MODULE Identity ------------------------------
(***************************************************************************)
(* IdentityService (src/src/service/identity_service.rs) with the versions *)
(* of an identifier (src/src/domain/identifier.rs), and the two handlers   *)
(* of src/src/api/mod.rs that look an identifier up under one lock and     *)
(* replace it under another.  The service keeps parties, identifiers and   *)
(* the index from party to identifiers behind three locks taken one after  *)
(* the other.  Identifiers are numbered in the order they are created.     *)
(***************************************************************************)
EXTENDS Integers, Sequences, SequencesExt

CONSTANTS Clients, Parties, MaxIdentifiers

ASSUME IdentityAssumption == MaxIdentifiers \in Nat

VARIABLES parties,
          identifiers,          \* sequence of [party, status, replaces]
          party_identifiers,    \* party -> identifier numbers, in order
          doing,                \* client -> its place in a call, and what it is about
          stale                 \* identifiers made by replacing one already replaced

identityVars == <<parties, identifiers, party_identifiers, doing, stale>>

NoCall == [pc |-> "idle", party |-> CHOOSE p \in Parties : TRUE, id |-> 0]

IdentityInit ==
    /\ parties = {} /\ identifiers = <<>> /\ stale = {}
    /\ party_identifiers = [p \in Parties |-> <<>>]
    /\ doing = [c \in Clients |-> NoCall]

\* Identifier::new and Identifier::replace_with.
NewIdentifier(p) == [party |-> p, status |-> "PendingVerification", replaces |-> 0]
Successor(old) == [party |-> identifiers[old].party, status |-> "Active", replaces |-> old]

Do(c, pc, p, id) == doing' = [doing EXCEPT ![c] = [pc |-> pc, party |-> p, id |-> id]]
Room == Len(identifiers) < MaxIdentifiers

---------------------------------------------------------------------------
CreateParty(p) ==
    /\ p \notin parties
    /\ parties' = parties \cup {p}
    /\ UNCHANGED <<identifiers, party_identifiers, doing, stale>>

\* add_identifier: the party must exist (no operation makes it inactive).
AddCheck(c, p) ==
    /\ doing[c] = NoCall /\ p \in parties
    /\ Do(c, "insert", p, 0)
    /\ UNCHANGED <<parties, identifiers, party_identifiers, stale>>

AddInsert(c) ==
    /\ doing[c].pc = "insert" /\ Room
    /\ identifiers' = Append(identifiers, NewIdentifier(doing[c].party))
    /\ Do(c, "index", doing[c].party, Len(identifiers) + 1)
    /\ UNCHANGED <<parties, party_identifiers, stale>>

\* The last step of add_identifier and of replace_identifier.
Index(c) ==
    /\ doing[c].pc = "index"
    /\ party_identifiers' = [party_identifiers EXCEPT ![doing[c].party] = Append(@, doing[c].id)]
    /\ doing' = [doing EXCEPT ![c] = NoCall]
    /\ UNCHANGED <<parties, identifiers, stale>>

\* get_active_identifiers: what the index lists and is Active.
ActiveIdentifiers(p) ==
    {i \in ToSet(party_identifiers[p]) : identifiers[i].status = "Active"}

\* verify_identifier and replace_identifier of the API first look for the
\* identifier among the active ones of all parties, then drop the lock.
FindActive(c, i) ==
    /\ doing[c] = NoCall
    /\ \E p \in parties : i \in ActiveIdentifiers(p)
    /\ Do(c, "replace", identifiers[i].party, i)
    /\ UNCHANGED <<parties, identifiers, party_identifiers, stale>>

\* A direct call of replace_identifier: any identifier whose number is known.
ReplaceKnown(c, i) ==
    /\ doing[c] = NoCall
    /\ i \in UNION {ToSet(party_identifiers[p]) : p \in parties}
    /\ Do(c, "replace", identifiers[i].party, i)
    /\ UNCHANGED <<parties, identifiers, party_identifiers, stale>>

\* Mutant: the old identifier is not inactivated.
ReplaceKeepingOld(c) ==
    /\ doing[c].pc = "replace" /\ Room
    /\ LET old == doing[c].id
           new == Len(identifiers) + 1
       IN /\ identifiers' = Append(identifiers, Successor(old))
          /\ stale' = IF identifiers[old].status = "Inactive" THEN stale \cup {new} ELSE stale
          /\ Do(c, "index", identifiers[old].party, new)
    /\ UNCHANGED <<parties, party_identifiers>>

\* replace_with: the old one Inactive whatever it was, its successor Active.
Replace(c) ==
    /\ doing[c].pc = "replace" /\ Room
    /\ LET old == doing[c].id
           new == Len(identifiers) + 1
       IN /\ identifiers' = Append([identifiers EXCEPT ![old].status = "Inactive"],
                                  Successor(old))
          /\ stale' = IF identifiers[old].status = "Inactive" THEN stale \cup {new} ELSE stale
          /\ Do(c, "index", identifiers[old].party, new)
    /\ UNCHANGED <<parties, party_identifiers>>

IdentityNext ==
    \/ \E p \in Parties : CreateParty(p)
    \/ \E c \in Clients :
          \/ \E p \in Parties : AddCheck(c, p)
          \/ AddInsert(c) \/ Index(c) \/ Replace(c)
          \/ \E i \in DOMAIN identifiers : FindActive(c, i) \/ ReplaceKnown(c, i)

IdentitySpec == IdentityInit /\ [][IdentityNext]_identityVars

---------------------------------------------------------------------------
\* The identifiers that go back to i by replacement, i included.
Line(i) ==
    LET older[j \in DOMAIN identifiers] ==
            j = i \/ (identifiers[j].replaces # 0 /\ older[identifiers[j].replaces])
    IN {j \in DOMAIN identifiers : older[j]}

(***************************************************************************)
(* The history of an identity can be followed: an identifier replaces an   *)
(* older, inactive one of the same party, and is in its party's index      *)
(* exactly once, or its own call is about to put it there.  An identity    *)
(* has one active version once verified, and one more for each replacement *)
(* that hit a version another client had already replaced.                 *)
(***************************************************************************)
IdentityTraceable ==
    /\ \A i \in DOMAIN identifiers :
          LET r == identifiers[i].replaces
              listed == {k \in DOMAIN party_identifiers[identifiers[i].party] :
                            party_identifiers[identifiers[i].party][k] = i}
              pending == {c \in Clients : doing[c].pc = "index" /\ doing[c].id = i}
          IN /\ r # 0 => /\ r < i /\ identifiers[r].status = "Inactive"
                         /\ identifiers[r].party = identifiers[i].party
             /\ Cardinality(listed) + Cardinality(pending) = 1
    /\ \A i \in DOMAIN identifiers : identifiers[i].replaces = 0 =>
          Cardinality({j \in Line(i) : identifiers[j].status = "Active"}) =
             IF identifiers[i].status = "Inactive" THEN 1 + Cardinality(stale \cap Line(i)) ELSE 0
=============================================================================
