-------------------------------- MODULE Rbac --------------------------------
(***************************************************************************)
(* The role engine of src/src/rbac.rs and the handlers of                  *)
(* src/src/api/mod.rs that use it.  require_permission checks under a read *)
(* lock and releases it; bind_role takes the write lock afterwards.  A     *)
(* request without a subject header counts as the default admin's.  The    *)
(* engine's own unbind, onboarding and temporary audit have no endpoint    *)
(* and are called by the code that embeds it.                              *)
(***************************************************************************)
EXTENDS Integers, FiniteSets

CONSTANTS Requests,     \* requests in progress at once
          DefaultAdmin, DefaultAuditor,
          Others,       \* the other subjects
          MaxBindings   \* bound on calls that change the bindings

VARIABLES role_bindings,
          binding,      \* request -> what bind_role checked and is about to bind, or NoBinding
          changes,      \* calls that changed the bindings
          appointed     \* subjects made Admin at start-up or by a bind_role
                        \* whose requester was itself appointed

rbacVars == <<role_bindings, binding, changes, appointed>>

Subjects == {DefaultAdmin, DefaultAuditor} \cup Others
NoBinding == [by |-> DefaultAdmin, subject |-> DefaultAdmin, role |-> "none"]

\* The tables of RbacEngine::new.
Reading == {"ReadAnyAccount", "ViewAnyTransaction", "ViewAuditLog", "VerifyChainIntegrity"}
Privacy == {"RedactPii", "ExportUserData", "GenerateSarReport"}
role_permissions ==
    [Admin |-> Reading \cup Privacy \cup
         {"CreateAccount", "UpdateAccountStatus", "CloseAccount", "InitiateTransfer",
          "ExportAuditReport", "ViewTrialBalance", "ManageUsers", "ManageRoles",
          "ConfigureLimits", "ViewSystemMetrics"},
     Auditor |-> Reading \cup {"ExportAuditReport", "ViewTrialBalance"},
     Teller |-> Reading \cup {"CreateAccount", "InitiateTransfer", "ViewTrialBalance"},
     Customer |-> {"ReadOwnAccount", "InitiateOwnTransfer", "ViewOwnTransaction"},
     System |-> {"ReadAnyAccount", "InitiateTransfer", "SagaOrchestrate", "AutoReconcile", "CronJob"},
     Compliance |-> Reading \cup Privacy \cup {"ExportAuditReport"}]

Roles == DOMAIN role_permissions

\* AppState::new seeds one admin and one auditor.
RbacInit ==
    /\ role_bindings = [s \in Subjects |-> IF s = DefaultAdmin THEN {"Admin"}
                                        ELSE IF s = DefaultAuditor THEN {"Auditor"} ELSE {}]
    /\ binding = [q \in Requests |-> NoBinding]
    /\ changes = 0 /\ appointed = {DefaultAdmin}

permissions_for(s) == UNION {role_permissions[r] : r \in role_bindings[s]}
can(s, permission) == \E r \in role_bindings[s] : permission \in role_permissions[r]

\* export_audit: a row per subject; one without roles may be missing.
export_audit == [s \in Subjects |-> [roles |-> role_bindings[s], effective |-> permissions_for(s)]]

---------------------------------------------------------------------------
Count == changes < MaxBindings /\ changes' = changes + 1

\* The subject is DefaultAdmin when the request carries no header.
require_permission(subject, permission) == can(subject, permission)

\* Mutant: the permission of a teller is enough.
BindRoleCheckTeller(q, by, subject, role) ==
    /\ binding[q] = NoBinding
    /\ require_permission(by, "CreateAccount")
    /\ Count
    /\ binding' = [binding EXCEPT ![q] = [by |-> by, subject |-> subject, role |-> role]]
    /\ UNCHANGED <<role_bindings, appointed>>

BindRoleCheck(q, by, subject, role) ==
    /\ binding[q] = NoBinding
    /\ require_permission(by, "ManageRoles")
    /\ Count
    /\ binding' = [binding EXCEPT ![q] = [by |-> by, subject |-> subject, role |-> role]]
    /\ UNCHANGED <<role_bindings, appointed>>

BindRole(q) ==
    /\ binding[q] # NoBinding
    /\ LET b == binding[q] IN
       /\ role_bindings' = [role_bindings EXCEPT ![b.subject] = @ \cup {b.role}]
       /\ appointed' = IF b.role = "Admin" /\ b.by \in appointed
                       THEN appointed \cup {b.subject} ELSE appointed
    /\ binding' = [binding EXCEPT ![q] = NoBinding]
    /\ UNCHANGED changes

Unbind(s, role) ==
    /\ Count
    /\ role_bindings' = [role_bindings EXCEPT ![s] = @ \ {role}]
    /\ UNCHANGED <<binding, appointed>>

OnboardCustomer(s) ==
    /\ Count
    /\ role_bindings' = [role_bindings EXCEPT ![s] = @ \cup {"Customer"}]
    /\ UNCHANGED <<binding, appointed>>

\* The duration is computed and dropped: the grant stays until it is revoked.
GrantTemporaryAudit(s) ==
    /\ Count
    /\ role_bindings' = [role_bindings EXCEPT ![s] = @ \cup {"Auditor"}]
    /\ UNCHANGED <<binding, appointed>>

\* Removes an Auditor binding of any origin.
RevokeTemporaryAudit(s) == Unbind(s, "Auditor")

RbacNext ==
    \/ \E q \in Requests, by, s \in Subjects, r \in Roles : BindRoleCheck(q, by, s, r)
    \/ \E q \in Requests : BindRole(q)
    \/ \E s \in Subjects, r \in Roles : Unbind(s, r)
    \/ \E s \in Subjects : OnboardCustomer(s) \/ GrantTemporaryAudit(s) \/ RevokeTemporaryAudit(s)

RbacSpec == RbacInit /\ [][RbacNext]_rbacVars

---------------------------------------------------------------------------
(***************************************************************************)
(* No sequence of bindings, however they overlap with the removal of       *)
(* roles, lets a subject manage roles unless the default admin appointed   *)
(* it, directly or through subjects it appointed; and the audit export     *)
(* lists exactly what the engine lets a subject do.                        *)
(***************************************************************************)
NoEscalation ==
    /\ \A s \in Subjects : can(s, "ManageRoles") => s \in appointed
    /\ \A s \in Subjects : \A r \in Roles : \A p \in role_permissions[r] :
          p \in export_audit[s].effective <=> can(s, p)
=============================================================================
