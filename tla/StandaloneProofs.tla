-------------------------- MODULE StandaloneProofs --------------------------
(***************************************************************************)
(* Proofs about the components that stand alone: the circuit breaker, the  *)
(* role engine, the bulkhead and the token bucket, the ring buffer, the    *)
(* two monitors, the identity service and the chart of accounts.  Each has *)
(* a specification of its own; no state of one is a state of another.      *)
(***************************************************************************)
EXTENDS CircuitBreaker, Rbac, Resilience, RingBuffer, Waiting, Identity, ChartOfAccounts,
        FiniteSetTheorems, SequenceTheorems, WellFoundedInduction, TLAPS

-----------------------------------------------------------------------------
(* The circuit breaker, for any number of requests and any threshold. *)

(* OpenHasCause is not inductive: a request about to open the circuit must *)
(* have left the time of its failure behind.                               *)
BreakerInv ==
    /\ TypeOK
    /\ OpenHasCause
    /\ \A t \in Threads : pc[t] = "failure_state" => lastFailure # "none"

(* A fresh breaker has no failure and is closed. *)
LEMMA BreakerInvInit == BreakerInit => BreakerInv
  BY ThresholdAssumption DEF BreakerInit, BreakerInv, TypeOK, OpenHasCause

(* No step of allow_request, record_success or record_failure disturbs it. *)
LEMMA BreakerInvStep == BreakerInv /\ [BreakerNext]_breakerVars => BreakerInv'
<1> SUFFICES ASSUME BreakerInv, [BreakerNext]_breakerVars PROVE BreakerInv'
  OBVIOUS
<1> USE ThresholdAssumption DEF BreakerInv, TypeOK, OpenHasCause, GoTo, counts
<1>1. CASE CooldownPasses
  BY <1>1 DEF CooldownPasses
<1>2. ASSUME NEW t \in Threads, AllowRequest(t) PROVE BreakerInv'
  <2>1. CASE AllowClosed(t)
    BY <2>1 DEF AllowClosed
  <2>2. CASE AllowOpen(t)
    BY <2>2 DEF AllowOpen
  <2>3. CASE AllowHalfOpen(t)
    BY <2>3 DEF AllowHalfOpen
  <2> QED
    BY <1>2, <2>1, <2>2, <2>3 DEF AllowRequest
<1>3. ASSUME NEW t \in Threads, Step(t) PROVE BreakerInv'
  <2>1. CASE ReturnEarly(t)
    BY <2>1 DEF ReturnEarly, Finish
  <2>2. CASE SuccessReset(t)
    BY <2>2 DEF SuccessReset
  <2>3. CASE SuccessState(t)
    BY <2>3 DEF SuccessState, Finish
  <2>4. CASE FailureCount(t)
    BY <2>4 DEF FailureCount
  <2>5. CASE FailureTime(t)
    BY <2>5 DEF FailureTime, Finish
  <2>6. CASE FailureState(t)
    BY <2>6 DEF FailureState, Finish
  <2> QED
    BY <1>3, <2>1, <2>2, <2>3, <2>4, <2>5, <2>6 DEF Step
<1>4. CASE UNCHANGED breakerVars
  BY <1>4 DEF breakerVars
<1> QED
  BY <1>1, <1>2, <1>3, <1>4 DEF BreakerNext

(* Type correctness: the counters stay in range. *)
THEOREM BreakerTypeCorrect == BreakerSpec => []TypeOK
<1>1. BreakerInv => TypeOK
  BY DEF BreakerInv
<1> QED
  BY <1>1, BreakerInvInit, BreakerInvStep, PTL DEF BreakerSpec

(* record_failure never opens the circuit without a time to recover from.  *)
THEOREM OpenAlwaysHasCause == BreakerSpec => []OpenHasCause
<1>1. BreakerInv => OpenHasCause
  BY DEF BreakerInv
<1> QED
  BY <1>1, BreakerInvInit, BreakerInvStep, PTL DEF BreakerSpec

-----------------------------------------------------------------------------
(* The role engine. *)

(* Inductive invariant of the role engine: whoever holds Admin, and whoever *)
(* passed the permission check of a bind_role that is still to write, was   *)
(* appointed.                                                               *)
RbacInv ==
    /\ role_bindings \in [Subjects -> SUBSET Roles]
    /\ binding \in [Requests -> [by : Subjects, subject : Subjects, role : Roles \cup {"none"}]]
    /\ appointed \subseteq Subjects
    /\ \A s \in Subjects : "Admin" \in role_bindings[s] => s \in appointed
    /\ \A q \in Requests : binding[q] # NoBinding =>
          binding[q].by \in appointed /\ binding[q].role \in Roles

(* Of the tables of RbacEngine::new only Admin's has ManageRoles. *)
LEMMA OnlyAdminManagesRoles ==
    /\ Roles = {"Admin", "Auditor", "Teller", "Customer", "System", "Compliance"}
    /\ \A r \in Roles : "ManageRoles" \in role_permissions[r] => r = "Admin"
<1>1. Roles = {"Admin", "Auditor", "Teller", "Customer", "System", "Compliance"}
    BY DEF Roles, role_permissions
<1>2. ASSUME NEW r \in Roles, "ManageRoles" \in role_permissions[r] PROVE r = "Admin"
    BY <1>1, <1>2 DEF role_permissions, Reading, Privacy
<1> QED BY <1>1, <1>2

(* RbacEngine::new appoints the default admin and nobody else. *)
LEMMA RbacInvInit == RbacInit => RbacInv
<1> SUFFICES ASSUME RbacInit PROVE RbacInv
    OBVIOUS
<1>1. role_bindings \in [Subjects -> SUBSET Roles]
    BY OnlyAdminManagesRoles DEF RbacInit, Subjects
<1>2. \A s \in Subjects : "Admin" \in role_bindings[s] => s = DefaultAdmin
    BY DEF RbacInit, Subjects
<1>3. binding \in [Requests -> [by : Subjects, subject : Subjects, role : Roles \cup {"none"}]]
    BY DEF RbacInit, NoBinding, Subjects
<1> QED
    BY <1>1, <1>2, <1>3 DEF RbacInit, RbacInv, Subjects

(* Every call of the role engine keeps the invariant: a bind_role writes   *)
(* on the word of a check that may be stale, but the one it checked was    *)
(* appointed, and stays so.                                                *)
LEMMA RbacInvStep == RbacInv /\ [RbacNext]_rbacVars => RbacInv'
<1> SUFFICES ASSUME RbacInv, [RbacNext]_rbacVars PROVE RbacInv'
    OBVIOUS
<1>1. ASSUME NEW q \in Requests, NEW by \in Subjects, NEW s \in Subjects, NEW r \in Roles,
             BindRoleCheck(q, by, s, r)
      PROVE  RbacInv'
    <2>1. by \in appointed
        BY <1>1, OnlyAdminManagesRoles
        DEF BindRoleCheck, require_permission, can, RbacInv
    <2> QED
        BY <1>1, <2>1 DEF BindRoleCheck, RbacInv
<1>2. ASSUME NEW q \in Requests, BindRole(q) PROVE RbacInv'
    <2> DEFINE b == binding[q]
    <2>1. b.by \in appointed /\ b.role \in Roles /\ b.subject \in Subjects
        BY <1>2 DEF BindRole, RbacInv
    <2>2. NoBinding \in [by : Subjects, subject : Subjects, role : Roles \cup {"none"}]
        BY DEF NoBinding, Subjects
    <2>3. /\ role_bindings' = [role_bindings EXCEPT ![b.subject] = @ \cup {b.role}]
          /\ appointed' = IF b.role = "Admin" THEN appointed \cup {b.subject} ELSE appointed
          /\ binding' = [binding EXCEPT ![q] = NoBinding]
        BY <1>2, <2>1 DEF BindRole
    <2> HIDE DEF b
    <2> QED
        BY <2>1, <2>2, <2>3 DEF RbacInv
<1>3. ASSUME NEW s \in Subjects, NEW r \in Roles, Unbind(s, r) PROVE RbacInv'
    BY <1>3 DEF Unbind, RbacInv
<1>4. ASSUME NEW s \in Subjects, OnboardCustomer(s) PROVE RbacInv'
    BY <1>4, OnlyAdminManagesRoles DEF OnboardCustomer, RbacInv
<1>5. ASSUME NEW s \in Subjects, GrantTemporaryAudit(s) PROVE RbacInv'
    BY <1>5, OnlyAdminManagesRoles DEF GrantTemporaryAudit, RbacInv
<1>6. ASSUME NEW s \in Subjects, RevokeTemporaryAudit(s) PROVE RbacInv'
    BY <1>6, <1>3, OnlyAdminManagesRoles DEF RevokeTemporaryAudit
<1>7. CASE UNCHANGED rbacVars
    BY <1>7 DEF rbacVars, RbacInv
<1> QED
    BY <1>1, <1>2, <1>3, <1>4, <1>5, <1>6, <1>7 DEF RbacNext

(* No sequence of bind, unbind, onboarding and audit calls, however their  *)
(* checks and writes overlap, lets a subject manage roles that was not     *)
(* appointed by an appointed one, for any subjects and requests; and       *)
(* export_audit agrees with can.                                           *)
THEOREM NeverEscalates == RbacSpec => []NoEscalation
<1>1. RbacInv => NoEscalation
    <2> SUFFICES ASSUME RbacInv, NEW s \in Subjects
                 PROVE  /\ can(s, "ManageRoles") => s \in appointed
                        /\ \A r \in Roles : \A p \in role_permissions[r] :
                              p \in export_audit[s].effective <=> can(s, p)
        BY DEF NoEscalation
    <2>1. can(s, "ManageRoles") => s \in appointed
        BY OnlyAdminManagesRoles DEF can, RbacInv
    <2>2. export_audit[s].effective = UNION {role_permissions[r] : r \in role_bindings[s]}
        BY DEF export_audit, permissions_for
    <2>3. \A p : p \in export_audit[s].effective <=> can(s, p)
        BY <2>2 DEF can
    <2> QED BY <2>1, <2>3
<1> QED
    BY <1>1, RbacInvInit, RbacInvStep, PTL DEF RbacSpec

-----------------------------------------------------------------------------
(* The bulkhead and the token bucket. *)

Guards == {t \in Callers : bulk[t].pc = "guard"}

(* Inductive invariant of the bulkhead: a caller only swaps a count it     *)
(* loaded below the limit, so a swap that succeeds stays within it.        *)
BulkInv ==
    /\ active \in Nat
    /\ bulk \in [Callers -> [pc : {"idle", "cas", "guard"}, current : Nat]]
    /\ \A t \in Callers : bulk[t].pc = "cas" => bulk[t].current < MaxConcurrent
    /\ active = Cardinality(Guards)
    /\ active <= MaxConcurrent

(* A guard that comes or goes changes the number of guards by one. *)
LEMMA GuardsCounted ==
    ASSUME BulkInv, NEW t \in Callers
    PROVE  /\ IsFiniteSet(Guards) /\ Cardinality(Guards) \in Nat
           /\ t \notin Guards => Cardinality(Guards \cup {t}) = Cardinality(Guards) + 1
           /\ t \in Guards => Cardinality(Guards \ {t}) = Cardinality(Guards) - 1
<1>1. IsFiniteSet(Guards)
    BY FS_Subset, ResilienceAssumption DEF Guards
<1> QED
    BY <1>1, FS_CardinalityType, FS_AddElement, FS_RemoveElement

(* The bulkhead starts empty. *)
LEMMA BulkInvInit == BulkInit => BulkInv
<1> SUFFICES ASSUME BulkInit PROVE BulkInv
    OBVIOUS
<1>1. Guards = {}
    BY DEF BulkInit, Guards
<1> QED
    BY <1>1, FS_EmptySet, ResilienceAssumption DEF BulkInit, BulkInv

(* try_acquire and the drop of a guard keep the count exact and within the *)
(* limit, whichever calls overlap.                                         *)
LEMMA BulkInvStep == BulkInv /\ [BulkNext]_bulkVars => BulkInv'
<1> SUFFICES ASSUME BulkInv, [BulkNext]_bulkVars PROVE BulkInv'
    OBVIOUS
<1> USE ResilienceAssumption
<1>1. ASSUME NEW t \in Callers, AcquireLoad(t) PROVE BulkInv'
    <2>1. Guards' = Guards
        BY <1>1 DEF AcquireLoad, Guards, BulkInv
    <2> QED
        BY <1>1, <2>1 DEF AcquireLoad, BulkInv
<1>2. ASSUME NEW t \in Callers, AcquireCas(t) PROVE BulkInv'
    <2>1. CASE active = bulk[t].current
        <3>1. Guards' = Guards \cup {t} /\ t \notin Guards
            BY <1>2, <2>1 DEF AcquireCas, Guards, BulkInv
        <3>2. Cardinality(Guards') = Cardinality(Guards) + 1
            BY <3>1, GuardsCounted
        <3>3. bulk' \in [Callers -> [pc : {"idle", "cas", "guard"}, current : Nat]]
            BY <1>2, <2>1 DEF AcquireCas, BulkInv
        <3>4. active' = active + 1 /\ active < MaxConcurrent
            BY <1>2, <2>1 DEF AcquireCas, BulkInv
        <3>5. \A u \in Callers : bulk'[u].pc = "cas" => bulk'[u].current < MaxConcurrent
            BY <1>2, <2>1 DEF AcquireCas, BulkInv
        <3> QED
            BY <3>2, <3>3, <3>4, <3>5 DEF BulkInv
    <2>2. CASE active # bulk[t].current
        <3>1. Guards' = Guards
            BY <1>2, <2>2 DEF AcquireCas, Guards, BulkInv
        <3> QED
            BY <1>2, <2>2, <3>1 DEF AcquireCas, BulkInv
    <2> QED BY <2>1, <2>2
<1>3. ASSUME NEW t \in Callers, Release(t) PROVE BulkInv'
    <2>1. Guards' = Guards \ {t} /\ t \in Guards
        BY <1>3 DEF Release, Guards, BulkInv
    <2>2. Cardinality(Guards') = Cardinality(Guards) - 1
        BY <2>1, GuardsCounted
    <2>3. Guards # {}
        BY <2>1
    <2>4. active > 0
        BY <2>1, <2>3, GuardsCounted, FS_EmptySet DEF BulkInv
    <2>5. bulk' \in [Callers -> [pc : {"idle", "cas", "guard"}, current : Nat]]
        BY <1>3 DEF Release, BulkInv
    <2>6. \A u \in Callers : bulk'[u].pc = "cas" => bulk'[u].current < MaxConcurrent
        BY <1>3 DEF Release, BulkInv
    <2> QED
        BY <1>3, <2>2, <2>4, <2>5, <2>6 DEF Release, BulkInv
<1>4. CASE UNCHANGED bulkVars
    BY <1>4 DEF bulkVars, BulkInv, Guards
<1> QED
    BY <1>1, <1>2, <1>3, <1>4 DEF BulkNext

(* What LimitsHold says of the grants from the i-th to the j-th. *)
WithinLimit(i, j) ==
    (j - i + 1) * TokenUnits <= Capacity + (grants[j] - grants[i]) * RatePerTick

(* Inductive invariant of the token bucket: the tokens taken since the     *)
(* i-th grant and the ones still there are no more than a full bucket and  *)
(* what was refilled since, so that a refill cannot pay out the time       *)
(* before last_refill again.                                               *)
BucketInv ==
    /\ tokens \in Nat /\ tokens <= Capacity
    /\ last_refill \in Nat /\ now \in Nat /\ last_refill <= now
    /\ asking \in [Callers -> Nat]
    /\ grants \in Seq(Nat)
    /\ \A i \in DOMAIN grants :
          (Len(grants) - i + 1) * TokenUnits + tokens
             <= Capacity + (last_refill - grants[i]) * RatePerTick
    /\ \A i, j \in DOMAIN grants : i <= j => WithinLimit(i, j)

(* Products are integers, and time that passes in two parts refills both. *)
LEMMA Products ==
    ASSUME NEW a \in Int, NEW b \in Int, NEW c \in Int, NEW r \in Int
    PROVE  /\ a * r \in Int
           /\ (a - b) * r + (b - c) * r = (a - c) * r
           /\ (a + 1) * r = a * r + r
           /\ 1 * r = r
           /\ (a - a) * r = 0
OBVIOUS

(* The capacity in units, and time spent, are natural numbers. *)
LEMMA ProductsNat ==
    ASSUME NEW a \in Nat, NEW b \in Nat PROVE a * b \in Nat
OBVIOUS

(* What the refill leaves in the bucket. *)
LEMMA RefillBounded ==
    ASSUME BucketInv
    PROVE  /\ Refilled \in Nat /\ Refilled <= Capacity
           /\ Refilled <= tokens + (now - last_refill) * RatePerTick
<1>1. (now - last_refill) \in Nat
    BY DEF BucketInv
<1>2. (now - last_refill) * RatePerTick \in Nat
    BY <1>1, ProductsNat, ResilienceAssumption
<1>3. Capacity \in Nat
    BY ProductsNat, ResilienceAssumption DEF Capacity
<1> QED
    BY <1>2, <1>3 DEF Refilled, BucketInv

(* The bucket starts full. *)
LEMMA BucketInvInit == BucketInit => BucketInv
<1> SUFFICES ASSUME BucketInit PROVE BucketInv
    OBVIOUS
<1>1. Capacity \in Nat
    BY ProductsNat, ResilienceAssumption DEF Capacity
<1> QED
    BY <1>1 DEF BucketInit, BucketInv

(* A try_consume that grants a token keeps the bound of every window that  *)
(* is open and opens one that holds at most a full bucket.                 *)
LEMMA GrantStep ==
    ASSUME BucketInv, NEW t \in Callers, TryConsume(t), Refilled >= TokenUnits
    PROVE  BucketInv'
<1> DEFINE n == Len(grants)
           spent == (now - last_refill) * RatePerTick
<1>1. /\ tokens' = Refilled - TokenUnits /\ grants' = Append(grants, now)
      /\ last_refill' = now /\ now' = now
      /\ asking' = [asking EXCEPT ![t] = @ - 1] /\ asking[t] > 0
    BY DEF TryConsume
<1>2. /\ n \in Nat /\ grants \in Seq(Nat) /\ DOMAIN grants = 1 .. n
      /\ now \in Nat /\ Capacity \in Nat /\ TokenUnits \in Nat /\ RatePerTick \in Nat
    BY ProductsNat, ResilienceAssumption DEF BucketInv, Capacity
<1>3. /\ grants' \in Seq(Nat) /\ Len(grants') = n + 1 /\ DOMAIN grants' = 1 .. n + 1
      /\ grants'[n + 1] = now /\ \A i \in 1 .. n : grants'[i] = grants[i] /\ grants[i] \in Nat
    BY <1>1, <1>2
<1>4. Refilled \in Nat /\ Refilled <= Capacity /\ Refilled <= tokens + spent
    BY RefillBounded
<1>5. tokens' \in Nat /\ tokens' <= Capacity
    BY <1>1, <1>2, <1>4
<1>6. ASSUME NEW i \in 1 .. n
      PROVE  /\ (n + 1 - i + 1) * TokenUnits + tokens' <= Capacity + (now - grants[i]) * RatePerTick
             /\ (n + 1 - i + 1) * TokenUnits <= Capacity + (now - grants[i]) * RatePerTick
    <2> DEFINE g == grants[i]
    <2>1. (n - i + 1) * TokenUnits + tokens <= Capacity + (last_refill - g) * RatePerTick
        BY <1>2 DEF BucketInv
    <2>2. /\ spent + (last_refill - g) * RatePerTick = (now - g) * RatePerTick
          /\ spent \in Int /\ (last_refill - g) * RatePerTick \in Int
        <3>1. now \in Int /\ last_refill \in Int /\ g \in Int /\ RatePerTick \in Int
            BY <1>2, <1>3 DEF BucketInv
        <3> HIDE DEF g
        <3> QED BY <3>1, Products
    <2>3. (n - i + 1 + 1) * TokenUnits = (n - i + 1) * TokenUnits + TokenUnits
          /\ (n - i + 1) * TokenUnits \in Int
        BY <1>2, Products
    <2>4. n + 1 - i + 1 = n - i + 1 + 1
        BY <1>2
    <2>5. tokens \in Nat
        BY DEF BucketInv
    <2> HIDE DEF spent, g, n
    <2>6. /\ (n + 1 - i + 1) * TokenUnits + tokens' <= Capacity + (now - g) * RatePerTick
          /\ (n + 1 - i + 1) * TokenUnits <= Capacity + (now - g) * RatePerTick
        BY <1>1, <1>2, <1>4, <1>5, <2>1, <2>2, <2>3, <2>4, <2>5
    <2> QED BY <2>6 DEF g
<1>7. /\ (n + 1 - (n + 1) + 1) * TokenUnits + tokens' <= Capacity + (now - now) * RatePerTick
      /\ (n + 1 - (n + 1) + 1) * TokenUnits <= Capacity + (now - now) * RatePerTick
    <2>1. (n + 1 - (n + 1) + 1) * TokenUnits = TokenUnits /\ (now - now) * RatePerTick = 0
        BY <1>2, Products
    <2> QED BY <1>1, <1>2, <1>4, <1>5, <2>1
<1>8. \A i \in DOMAIN grants' :
         (Len(grants') - i + 1) * TokenUnits + tokens'
            <= Capacity + (last_refill' - grants'[i]) * RatePerTick
    <2> TAKE i \in DOMAIN grants'
    <2>1. CASE i \in 1 .. n
        BY <1>1, <1>3, <1>6, <2>1
    <2>2. CASE i = n + 1
        BY <1>1, <1>3, <1>7, <2>2
    <2> QED BY <1>2, <1>3, <2>1, <2>2
<1>9. \A i, j \in DOMAIN grants' : i <= j => WithinLimit(i, j)'
    <2> SUFFICES ASSUME NEW i \in 1 .. n + 1, NEW j \in 1 .. n + 1, i <= j
                 PROVE  (j - i + 1) * TokenUnits <=
                            Capacity + (grants'[j] - grants'[i]) * RatePerTick
        BY <1>3 DEF WithinLimit, Capacity
    <2>1. CASE j \in 1 .. n
        <3>1. i \in 1 .. n
            BY <1>2, <2>1
        <3>2. WithinLimit(i, j)
            BY <1>2, <2>1, <3>1 DEF BucketInv
        <3> QED
            BY <1>3, <2>1, <3>1, <3>2 DEF WithinLimit
    <2>2. CASE j = n + 1 /\ i \in 1 .. n
        BY <1>3, <1>6, <2>2
    <2>3. CASE j = n + 1 /\ i = n + 1
        BY <1>3, <1>7, <2>3
    <2> QED
        BY <1>2, <2>1, <2>2, <2>3
<1>10. asking' \in [Callers -> Nat]
    BY <1>1 DEF BucketInv
<1> QED
    <2>1. grants' \in Seq(Nat) /\ last_refill' \in Nat /\ now' \in Nat /\ last_refill' <= now'
        BY <1>1, <1>2, <1>3
    <2>2. Capacity' = Capacity
        BY DEF Capacity
    <2> QED BY <1>5, <1>8, <1>9, <1>10, <2>1, <2>2 DEF BucketInv

(* A refused try_consume still moves last_refill: the refill is in the     *)
(* bucket, so the windows lose nothing.                                    *)
LEMMA RefuseStep ==
    ASSUME BucketInv, NEW t \in Callers, TryConsume(t), ~(Refilled >= TokenUnits)
    PROVE  BucketInv'
<1>1. /\ tokens' = Refilled /\ grants' = grants /\ last_refill' = now /\ now' = now
      /\ asking' = [asking EXCEPT ![t] = 0]
    BY DEF TryConsume
<1>2. Capacity \in Nat /\ TokenUnits \in Nat /\ RatePerTick \in Nat
    BY ProductsNat, ResilienceAssumption DEF Capacity
<1>3. ASSUME NEW i \in DOMAIN grants
      PROVE  (Len(grants) - i + 1) * TokenUnits + Refilled
                <= Capacity + (now - grants[i]) * RatePerTick
    <2> DEFINE spent == (now - last_refill) * RatePerTick
               g == grants[i]
               k == Len(grants) - i + 1
    <2>1. g \in Nat /\ k \in Int /\ tokens \in Nat
        BY DEF BucketInv
    <2>2. k * TokenUnits + tokens <= Capacity + (last_refill - g) * RatePerTick
        BY DEF BucketInv
    <2>3. /\ spent + (last_refill - g) * RatePerTick = (now - g) * RatePerTick
          /\ spent \in Int /\ (last_refill - g) * RatePerTick \in Int
        <3>1. now \in Int /\ last_refill \in Int /\ g \in Int /\ RatePerTick \in Int
            BY <1>2, <2>1 DEF BucketInv
        <3> HIDE DEF g
        <3> QED BY <3>1, Products
    <2>4. k * TokenUnits \in Int
        BY <1>2, <2>1, Products
    <2>5. Refilled \in Nat /\ Refilled <= tokens + spent
        BY RefillBounded
    <2> HIDE DEF spent, g, k
    <2>6. k * TokenUnits + Refilled <= Capacity + (now - g) * RatePerTick
        BY <1>2, <2>1, <2>2, <2>3, <2>4, <2>5
    <2> QED BY <2>6 DEF g, k
<1>4. \A i, j \in DOMAIN grants' : i <= j => WithinLimit(i, j)'
    BY <1>1 DEF BucketInv, WithinLimit, Capacity
<1> QED
    BY <1>1, <1>3, <1>4, RefillBounded DEF BucketInv, Capacity

(* Ticks, calls of try_consume_n and try_consume keep the invariant. *)
LEMMA BucketInvStep == BucketInv /\ [BucketNext]_bucketVars => BucketInv'
<1> SUFFICES ASSUME BucketInv, [BucketNext]_bucketVars PROVE BucketInv'
    OBVIOUS
<1>1. ASSUME Tick PROVE BucketInv'
    <2>1. \A i, j \in DOMAIN grants' : i <= j => WithinLimit(i, j)'
        BY <1>1 DEF Tick, BucketInv, WithinLimit, Capacity
    <2> QED BY <1>1, <2>1 DEF Tick, BucketInv, Capacity
<1>2. ASSUME NEW t \in Callers, TryConsume(t) PROVE BucketInv'
    BY <1>2, GrantStep, RefuseStep
<1>3. ASSUME NEW t \in Callers, NEW n \in 1 .. MaxBatch, TryConsumeN(t, n) PROVE BucketInv'
    <2>1. \A i, j \in DOMAIN grants' : i <= j => WithinLimit(i, j)'
        BY <1>3 DEF TryConsumeN, BucketInv, WithinLimit, Capacity
    <2>2. asking' \in [Callers -> Nat]
        BY <1>3 DEF TryConsumeN, BucketInv
    <2> QED BY <1>3, <2>1, <2>2 DEF TryConsumeN, BucketInv, Capacity
<1>4. CASE UNCHANGED bucketVars
    <2>1. \A i, j \in DOMAIN grants' : i <= j => WithinLimit(i, j)'
        BY <1>4 DEF bucketVars, BucketInv, WithinLimit, Capacity
    <2> QED BY <1>4, <2>1 DEF bucketVars, BucketInv, Capacity
<1> QED
    BY <1>1, <1>2, <1>3, <1>4 DEF BucketNext

(* The bulkhead never has more guards out than max_concurrent and counts   *)
(* them exactly, and the token bucket grants in no window of time more     *)
(* than its capacity and what was refilled in it, for any number of        *)
(* callers, any limits and any rate.                                       *)
THEOREM LimitsAlwaysHold == LimitsSpec => []LimitsHold
<1>1. BulkInv /\ BucketInv => LimitsHold
    BY DEF BulkInv, BucketInv, LimitsHold, Guards, WithinLimit
<1>2. BulkInit /\ BucketInit => BulkInv /\ BucketInv
    BY BulkInvInit, BucketInvInit
<1>3. BulkInv /\ BucketInv /\ [\/ BulkNext /\ UNCHANGED bucketVars
                               \/ BucketNext /\ UNCHANGED bulkVars]_<<bulkVars, bucketVars>>
        => BulkInv' /\ BucketInv'
    BY BulkInvStep, BucketInvStep
<1> QED
    BY <1>1, <1>2, <1>3, PTL DEF LimitsSpec

-----------------------------------------------------------------------------
(* The ring buffer. *)

(* A set of numbers that is not empty has a least one. *)
LEMMA LeastOfSet ==
    ASSUME NEW S \in SUBSET Nat, S # {}
    PROVE  \E x \in S : \A y \in S : x <= y
<1>1. PICK x \in S : \A y \in S : ~(<<y, x>> \in OpToRel(<, Nat))
    BY NatLessThanWellFounded, WFMin
<1>2. ASSUME NEW y \in S PROVE x <= y
    <2>1. ~(y < x)
        BY <1>1 DEF OpToRel
    <2> QED BY <2>1
<1> QED BY <1>2

(* next_power_of_two is positive. *)
LEMMA CapacityPositive == capacity \in Nat \ {0}
<1>1. PowersOfTwo = {1, 2, 4, 8, 16, 32, 64, 128, 256, 512, 1024, 2048, 4096, 8192, 16384,
                     32768, 65536}
    <2>1. 0 .. 16 = {0, 1, 2, 3, 4, 5, 6, 7, 8, 9, 10, 11, 12, 13, 14, 15, 16}
        OBVIOUS
    <2> QED BY <2>1 DEF PowersOfTwo
<1>2. \E c \in PowersOfTwo :
         c >= MinCapacity /\ \A p \in PowersOfTwo : p >= MinCapacity => c <= p
    <2>1. PICK Enough : Enough = {c \in PowersOfTwo : c >= MinCapacity}
        OBVIOUS
    <2>2. 65536 \in Enough /\ Enough \in SUBSET Nat
        BY <1>1, <2>1, RingAssumption
    <2>3. PICK c \in Enough : \A p \in Enough : c <= p
        BY <2>2, LeastOfSet
    <2> QED BY <2>1, <2>3
<1>3. capacity \in PowersOfTwo
    BY <1>2 DEF capacity
<1> QED BY <1>1, <1>3

(* Division with remainder. *)
LEMMA DivMod ==
    ASSUME NEW c \in Nat \ {0}, NEW a \in Nat
    PROVE  a % c \in 0 .. c - 1 /\ a \div c \in Nat /\ a = c * (a \div c) + (a % c)
<1>1. a % c \in 0 .. c - 1
    OBVIOUS
<1>2. a \div c \in Nat
    OBVIOUS
<1>3. a = c * (a \div c) + (a % c)
    OBVIOUS
<1> QED BY <1>1, <1>2, <1>3

(* Sequences that share a slot are at least a lap apart. *)
LEMMA SlotFacts ==
    ASSUME NEW q \in Nat
    PROVE  /\ Slot(q) \in 0 .. capacity - 1
           /\ Slot(q + capacity) = Slot(q)
           /\ \A r \in Nat : q < r /\ Slot(q) = Slot(r) => r >= q + capacity
<1> DEFINE c == capacity
<1>1. c \in Nat \ {0}
    BY CapacityPositive
<1> HIDE DEF c
<1>2. ASSUME NEW a \in Nat
      PROVE  a % c \in 0 .. c - 1 /\ a \div c \in Nat /\ a = c * (a \div c) + (a % c)
    BY <1>1, DivMod
<1>3. \A m \in Nat, k \in Nat : m > k => c * m >= c * k + c
    BY <1>1
<1>4. ASSUME NEW m \in Nat, NEW k \in Nat, NEW x \in 0 .. c - 1, NEW y \in 0 .. c - 1,
             c * m + x <= c * k + y
      PROVE  m < k \/ (m = k /\ x <= y)
    <2>1. c * m \in Int /\ c * k \in Int
        BY <1>1
    <2>2. CASE m > k
        BY <1>1, <1>3, <1>4, <2>1, <2>2
    <2>3. CASE m = k
        <3> DEFINE z == c * k
        <3>1. z + x <= z + y /\ z \in Int
            BY <1>4, <2>1, <2>3
        <3> HIDE DEF z
        <3> QED BY <1>1, <2>3, <3>1
    <2> QED BY <2>2, <2>3
<1>5. (q + c) % c = q % c
    <2> DEFINE k == q \div c
               m == (q + c) \div c
               x == (q + c) % c
               y == q % c
    <2>1. /\ q + c \in Nat /\ k \in Nat /\ y \in 0 .. c - 1 /\ q = c * k + y
          /\ m \in Nat /\ x \in 0 .. c - 1 /\ q + c = c * m + x
        BY <1>1, <1>2
    <2> HIDE DEF k, m, x, y
    <2>2. c * (k + 1) = c * k + c /\ k + 1 \in Nat
        BY <1>1, <2>1
    <2>3. c * (k + 1) + y = c * m + x
        <3>1. c * k \in Int /\ c * m \in Int
            BY <1>1, <2>1
        <3> QED BY <1>1, <2>1, <2>2, <3>1
    <2>4. c * (k + 1) + y <= c * m + x /\ c * m + x <= c * (k + 1) + y
        BY <1>1, <2>1, <2>2, <2>3
    <2>5. x <= y /\ y <= x
        BY <1>4, <2>1, <2>2, <2>4
    <2> QED BY <2>1, <2>5 DEF x, y
<1>6. ASSUME NEW r \in Nat, q < r, q % c = r % c PROVE r >= q + c
    <2> DEFINE m == r \div c
               k == q \div c
               x == q % c
    <2>1. m \in Nat /\ k \in Nat /\ x \in 0 .. c - 1 /\ r = c * m + x /\ q = c * k + x
        <3>1. r % c = x
            BY <1>6
        <3> QED BY <1>2, <3>1
    <2> HIDE DEF m, k, x
    <2>2. k < m
        <3>1. c * k + x <= c * m + x
            BY <1>1, <1>6, <2>1
        <3>2. k # m
            BY <1>6, <2>1
        <3> QED BY <1>4, <2>1, <3>1, <3>2
    <2>3. c * m >= c * k + c /\ c * m \in Int /\ c * k \in Int
        BY <1>1, <1>3, <2>1, <2>2
    <2> QED BY <1>1, <2>1, <2>3
<1> QED BY <1>2, <1>5, <1>6 DEF Slot, c

(* The sequence up to which publishes are complete. *)
Published ==
    IF producer.pc \in {"publish", "writing"} THEN producer_sequence - 1 ELSE producer_sequence

(* What the slot of a sequence held before: the previous lap. *)
Previous(q) == IF q >= capacity THEN q - capacity ELSE Uninit

(* What a pop of a sequence may return. *)
Acceptable(q, data) == data = q \/ (q \in raced /\ data \in {Torn, Previous(q)})

(* What the slot of a sequence that is not published holds. *)
Content(q) == IF q = Published /\ producer.pc = "writing" THEN Torn ELSE Previous(q)

RingTypes ==
    /\ producer_sequence \in Nat /\ consumer_sequence \in Nat
    /\ producer \in [pc : {"idle", "claim", "publish", "writing"}, seq : Nat]
    /\ consumer \in [pc : {"idle", "load", "read", "store"}, data : Int, left : Int]
    /\ slots \in [0 .. capacity - 1 -> Int]
    /\ alive \in BOOLEAN
    /\ delivered \in Seq(Int)

(* The sequences: a claim is the next one, and within a lap of the         *)
(* consumer, who only moves on.                                            *)
Sequenced ==
    /\ consumer_sequence <= producer_sequence
    /\ producer_sequence - consumer_sequence <= capacity
    /\ producer.pc = "claim" =>
          producer.seq = producer_sequence /\ producer_sequence + 1 - consumer_sequence <= capacity
    /\ producer.pc \in {"publish", "writing"} => producer_sequence = producer.seq + 1
    /\ consumer.pc \in {"read", "store"} => consumer_sequence < producer_sequence

(* A lap of slots from the first sequence that is not published still      *)
(* holds the lap before: so the unread ones hold their items.              *)
SlotsHeld == \A q \in Published .. Published + capacity - 1 : slots[Slot(q)] = Content(q)

(* What was read and what was handed out is acceptable. *)
HandedOut ==
    /\ consumer.pc = "store" => Acceptable(consumer_sequence, consumer.data)
    /\ alive => Len(delivered) = consumer_sequence
    /\ ~alive => producer.pc = "idle" /\ consumer.pc = "idle"
    /\ \A i \in 1 .. Len(delivered) : Acceptable(i - 1, delivered[i])

(* Inductive invariant of the ring buffer. *)
RingInv == RingTypes /\ Sequenced /\ SlotsHeld /\ HandedOut

(* A new buffer is empty and its slots are uninitialised. *)
LEMMA RingInvInit == RingInit => RingInv
<1> SUFFICES ASSUME RingInit PROVE RingInv
    OBVIOUS
<1>1. RingTypes
    BY DEF RingInit, RingTypes, Uninit
<1>2. Sequenced /\ HandedOut
    BY CapacityPositive DEF RingInit, Sequenced, HandedOut
<1>3. SlotsHeld
    <2> SUFFICES ASSUME NEW q \in Published .. Published + capacity - 1
                 PROVE  slots[Slot(q)] = Content(q)
        BY DEF SlotsHeld
    <2>1. Published = 0
        BY DEF RingInit, Published
    <2>2. q \in Nat /\ q < capacity
        BY <2>1, CapacityPositive
    <2>3. slots[Slot(q)] = Uninit
        BY <2>2, SlotFacts DEF RingInit
    <2>4. Content(q) = Uninit
        BY <2>2, CapacityPositive DEF RingInit, Content, Previous
    <2> QED BY <2>3, <2>4
<1> QED BY <1>1, <1>2, <1>3 DEF RingInv

(* An unread sequence that is published holds its item. *)
LEMMA UnreadHeld ==
    ASSUME RingInv, NEW q \in Nat, consumer_sequence <= q, q < Published
    PROVE  slots[Slot(q)] = q
<1>1. /\ Published \in Int /\ capacity \in Nat \ {0}
      /\ producer_sequence \in Nat
      /\ Published <= producer_sequence /\ producer_sequence <= q + capacity
    BY CapacityPositive DEF RingInv, RingTypes, Sequenced, Published
<1>2. q + capacity \in Published .. Published + capacity - 1
    BY <1>1
<1>3. slots[Slot(q)] = Content(q + capacity)
    BY <1>2, SlotFacts DEF RingInv, SlotsHeld
<1>4. Previous(q + capacity) = q
    BY <1>1 DEF Previous
<1>5. ~(q + capacity = Published /\ producer.pc = "writing")
    BY <1>1 DEF RingInv, RingTypes, Sequenced, Published
<1> QED BY <1>3, <1>4, <1>5 DEF Content

(* Two sequences of one lap have different slots. *)
LEMMA LapDistinct ==
    ASSUME NEW w \in Nat, NEW q \in w + 1 .. w + capacity - 1
    PROVE  Slot(q) # Slot(w) /\ q \in Nat
<1>1. q \in Nat /\ w < q /\ q < w + capacity
    BY CapacityPositive
<1> QED BY <1>1, SlotFacts, CapacityPositive

(* Every step of the producer keeps the invariant. *)
LEMMA ProducerStep ==
    ASSUME RingInv, Claim \/ ClaimStore \/ PublishBegin \/ PublishEnd
    PROVE  RingInv'
<1> USE CapacityPositive
<1>1. CASE Claim
    <2>1. RingTypes' /\ Sequenced'
        BY <1>1 DEF Claim, RingInv, RingTypes, Sequenced
    <2>2. Published' = Published /\ \A q : Content(q)' = Content(q)
        BY <1>1 DEF Claim, Published, Content, Previous, RingInv, RingTypes
    <2>3. SlotsHeld'
        BY <1>1, <2>2 DEF Claim, RingInv, SlotsHeld, Slot
    <2>4. HandedOut'
        BY <1>1 DEF Claim, RingInv, HandedOut, Acceptable, Previous
    <2> QED BY <2>1, <2>3, <2>4 DEF RingInv
<1>2. CASE ClaimStore
    <2>0. /\ producer' \in [pc : {"idle", "claim", "publish", "writing"}, seq : Nat]
          /\ producer'.pc = "publish" /\ producer'.seq = producer.seq /\ producer.seq \in Nat
        BY <1>2 DEF ClaimStore, RingInv, RingTypes
    <2>1. RingTypes' /\ Sequenced'
        <3>1. RingTypes'
            BY <1>2, <2>0 DEF ClaimStore, RingInv, RingTypes
        <3>2. Sequenced'
            BY <1>2, <2>0 DEF ClaimStore, RingInv, RingTypes, Sequenced
        <3> QED BY <3>1, <3>2
    <2>2. Published' = Published /\ \A q : Content(q)' = Content(q)
        BY <1>2 DEF ClaimStore, Published, Content, Previous, RingInv, RingTypes, Sequenced
    <2>3. SlotsHeld'
        BY <1>2, <2>2 DEF ClaimStore, RingInv, SlotsHeld, Slot
    <2>4. HandedOut'
        BY <1>2 DEF ClaimStore, RingInv, HandedOut, Acceptable, Previous
    <2> QED BY <2>1, <2>3, <2>4 DEF RingInv
<1>3. CASE PublishBegin
    <2>0. /\ producer' \in [pc : {"idle", "claim", "publish", "writing"}, seq : Nat]
          /\ producer'.pc = "writing" /\ producer'.seq = producer.seq /\ producer.seq \in Nat
        BY <1>3 DEF PublishBegin, RingInv, RingTypes
    <2>00. slots' \in [0 .. capacity - 1 -> Int]
        <3>1. slots' = [slots EXCEPT ![Slot(producer.seq)] = Torn] /\ Torn \in Int
            BY <1>3 DEF PublishBegin, Torn
        <3> QED BY <3>1 DEF RingInv, RingTypes
    <2>1. RingTypes' /\ Sequenced'
        <3>1. RingTypes'
            BY <1>3, <2>0, <2>00 DEF PublishBegin, RingInv, RingTypes
        <3>2. Sequenced'
            BY <1>3, <2>0 DEF PublishBegin, RingInv, RingTypes, Sequenced
        <3> QED BY <3>1, <3>2
    <2>2. /\ Published' = Published /\ Published = producer.seq /\ Published \in Nat
          /\ producer'.pc = "writing"
          /\ slots' = [slots EXCEPT ![Slot(Published)] = Torn]
        <3>1. Published' = Published /\ Published = producer.seq
            BY <1>3, <2>0 DEF PublishBegin, Published, RingInv, RingTypes, Sequenced
        <3> QED BY <1>3, <2>0, <3>1 DEF PublishBegin
    <2>3. SlotsHeld'
        <3> SUFFICES ASSUME NEW q \in Published .. Published + capacity - 1
                     PROVE  slots'[Slot(q)] = Content(q)'
            BY <2>2 DEF SlotsHeld, Slot
        <3>1. q \in Nat /\ Slot(q) \in 0 .. capacity - 1
            BY <2>2, SlotFacts
        <3>2. CASE q = Published
            BY <2>2, <3>1, <3>2 DEF Content, RingInv, RingTypes
        <3>3. CASE q # Published
            <4>1. Slot(q) # Slot(Published)
                BY <2>2, <3>1, <3>3, LapDistinct
            <4>2. slots[Slot(q)] = Content(q)
                BY DEF RingInv, SlotsHeld
            <4>3. Content(q)' = Content(q)
                BY <1>3, <2>2, <3>3 DEF Content, Previous
            <4> QED BY <2>2, <3>1, <4>1, <4>2, <4>3 DEF RingInv, RingTypes
        <3> QED BY <3>2, <3>3
    <2>4. HandedOut'
        BY <1>3 DEF PublishBegin, RingInv, HandedOut, Acceptable, Previous
    <2> QED BY <2>1, <2>3, <2>4 DEF RingInv
<1>4. CASE PublishEnd
    <2> DEFINE w == producer.seq
    <2>0. /\ producer' \in [pc : {"idle", "claim", "publish", "writing"}, seq : Nat]
          /\ producer'.pc = "idle" /\ producer'.seq = producer.seq /\ producer.seq \in Nat
        BY <1>4 DEF PublishEnd, RingInv, RingTypes
    <2>00. slots' \in [0 .. capacity - 1 -> Int]
        <3>1. slots' = [slots EXCEPT ![Slot(w)] = w] /\ w \in Int
            BY <1>4, <2>0 DEF PublishEnd
        <3> HIDE DEF w
        <3> QED BY <3>1 DEF RingInv, RingTypes
    <2>1. RingTypes' /\ Sequenced'
        <3>1. RingTypes'
            BY <1>4, <2>0, <2>00 DEF PublishEnd, RingInv, RingTypes
        <3>2. Sequenced'
            BY <1>4, <2>0 DEF PublishEnd, RingInv, RingTypes, Sequenced
        <3> QED BY <3>1, <3>2
    <2>2. /\ Published' = w + 1 /\ Published = w /\ w \in Nat
          /\ producer'.pc = "idle"
          /\ slots' = [slots EXCEPT ![Slot(w)] = w]
        BY <1>4 DEF PublishEnd, Published, RingInv, RingTypes, Sequenced
    <2>3. SlotsHeld'
        <3> SUFFICES ASSUME NEW q \in w + 1 .. w + 1 + capacity - 1
                     PROVE  slots'[Slot(q)] = Content(q)'
            BY <2>2 DEF SlotsHeld, Slot
        <3>1. q \in Nat /\ Slot(q) \in 0 .. capacity - 1 /\ Slot(w) \in 0 .. capacity - 1
            BY <2>2, SlotFacts
        <3>2. Content(q)' = Previous(q)
            BY <2>2 DEF Content, Previous
        <3>3. CASE q = w + capacity
            <4>1. Slot(q) = Slot(w)
                BY <2>2, <3>3, SlotFacts
            <4>2. Previous(q) = w
                BY <2>2, <3>3 DEF Previous
            <4> QED BY <2>2, <3>1, <3>2, <4>1, <4>2 DEF RingInv, RingTypes
        <3>4. CASE q # w + capacity
            <4>1. q \in w + 1 .. w + capacity - 1
                BY <2>2, <3>4
            <4>2. Slot(q) # Slot(w)
                BY <2>2, <4>1, LapDistinct
            <4>3. slots[Slot(q)] = Content(q) /\ Content(q) = Previous(q)
                BY <2>2, <4>1 DEF RingInv, SlotsHeld, Content
            <4> QED BY <2>2, <3>1, <3>2, <4>2, <4>3 DEF RingInv, RingTypes
        <3> QED BY <3>3, <3>4
    <2>4. HandedOut'
        BY <1>4 DEF PublishEnd, RingInv, HandedOut, Acceptable, Previous
    <2> QED BY <2>1, <2>3, <2>4 DEF RingInv
<1> QED BY <1>1, <1>2, <1>3, <1>4

(* Every step of the consumer keeps the invariant: a pop that overtakes    *)
(* the publish of its own sequence is the only one that reads a slot which *)
(* does not hold its item.                                                 *)
LEMMA ConsumerStep ==
    ASSUME RingInv,
           (\E n \in {1, BatchSize} : PopStart(n)) \/ PopEmpty \/ PopLoad \/ PopRead \/ PopStore
    PROVE  RingInv'
<1> USE CapacityPositive
<1>1. UNCHANGED <<slots, producer, producer_sequence, alive>>
    BY DEF PopStart, PopEmpty, PopLoad, PopRead, PopStore
<1>2. SlotsHeld'
    <2>1. Published' = Published /\ \A q : Content(q)' = Content(q)
        BY <1>1 DEF Published, Content, Previous
    <2> QED BY <1>1, <2>1 DEF RingInv, SlotsHeld, Slot
<1>3. CASE (\E n \in {1, BatchSize} : PopStart(n)) \/ PopEmpty \/ PopLoad
    <2>1. /\ consumer' \in [pc : {"idle", "load", "read", "store"}, data : Int, left : Int]
          /\ consumer'.pc # "store"
          /\ consumer'.pc = "read" => consumer_sequence < producer_sequence
          /\ consumer'.pc # "idle" => alive
          /\ UNCHANGED <<consumer_sequence, delivered, raced>>
        <3>1. ASSUME NEW n \in {1, BatchSize}, PopStart(n)
              PROVE  /\ consumer' = [consumer EXCEPT !.pc = "load", !.left = n]
                     /\ n \in Int /\ alive
                     /\ UNCHANGED <<consumer_sequence, delivered, raced>>
            <4>1. n \in Int
                BY RingAssumption
            <4> QED BY <3>1, <4>1 DEF PopStart
        <3>2. ASSUME PopEmpty
              PROVE  /\ consumer' = [consumer EXCEPT !.pc = "idle"]
                     /\ UNCHANGED <<consumer_sequence, delivered, raced>>
            BY <3>2 DEF PopEmpty
        <3>3. ASSUME PopLoad
              PROVE  /\ consumer' = [consumer EXCEPT !.pc = "read"] /\ alive
                     /\ consumer_sequence < producer_sequence
                     /\ UNCHANGED <<consumer_sequence, delivered, raced>>
            BY <3>3 DEF PopLoad, RingInv, HandedOut, RingTypes
        <3> QED BY <1>3, <3>1, <3>2, <3>3 DEF RingInv, RingTypes
    <2>2. RingTypes'
        BY <1>1, <2>1 DEF RingInv, RingTypes
    <2>3. Sequenced'
        BY <1>1, <2>1 DEF RingInv, Sequenced
    <2>4. HandedOut'
        BY <1>1, <2>1 DEF RingInv, RingTypes, HandedOut, Acceptable, Previous
    <2> QED BY <1>2, <2>2, <2>3, <2>4 DEF RingInv
<1>4. CASE PopRead
    <2> DEFINE c == consumer_sequence
               data == slots[Slot(c)]
    <2>1. /\ consumer.pc = "read" /\ c \in Nat /\ c < producer_sequence /\ data \in Int
          /\ consumer.left \in Int /\ producer_sequence \in Nat
        BY <1>4, SlotFacts DEF PopRead, RingInv, RingTypes, Sequenced
    <2>2. /\ consumer' = [pc |-> "store", data |-> data, left |-> consumer.left]
          /\ UNCHANGED <<consumer_sequence, delivered>>
          /\ raced \subseteq raced'
        BY <1>4 DEF PopRead, RingInv, RingTypes
    <2>3. Acceptable(c, consumer.data)'
        <3>1. CASE c < Published
            <4>1. data = c
                BY <2>1, <3>1, UnreadHeld
            <4> QED BY <2>2, <4>1 DEF Acceptable
        <3>2. CASE ~(c < Published)
            <4>1. /\ producer.pc \in {"publish", "writing"} /\ producer.seq = c /\ Published = c
                BY <2>1, <3>2 DEF Published, RingInv, RingTypes, Sequenced
            <4>2. c \in raced'
                BY <1>4, <4>1 DEF PopRead
            <4>3. data = Content(c)
                BY <2>1, <4>1 DEF RingInv, SlotsHeld
            <4>4. data \in {Torn, Previous(c)}
                BY <4>3 DEF Content
            <4> QED BY <2>2, <4>2, <4>4 DEF Acceptable, Previous
        <3> QED BY <3>1, <3>2
    <2>4. RingTypes'
        BY <1>1, <2>1, <2>2 DEF RingInv, RingTypes
    <2>5. Sequenced'
        BY <1>1, <2>1, <2>2 DEF RingInv, Sequenced
    <2>6. HandedOut'
        <3>1. alive
            BY <2>1 DEF RingInv, RingTypes, HandedOut
        <3>2. \A i \in 1 .. Len(delivered) : Acceptable(i - 1, delivered[i])'
            BY <2>2 DEF RingInv, HandedOut, Acceptable, Previous
        <3> QED BY <1>1, <2>2, <2>3, <3>1, <3>2 DEF RingInv, HandedOut
    <2> QED BY <1>2, <2>4, <2>5, <2>6 DEF RingInv
<1>5. CASE PopStore
    <2>1. /\ consumer.pc = "store" /\ consumer_sequence \in Nat /\ consumer.data \in Int
          /\ consumer_sequence < producer_sequence /\ producer_sequence \in Nat
          /\ alive /\ Len(delivered) = consumer_sequence /\ delivered \in Seq(Int)
          /\ Acceptable(consumer_sequence, consumer.data)
        BY <1>5 DEF PopStore, RingInv, RingTypes, Sequenced, HandedOut
    <2>2. /\ consumer' \in [pc : {"idle", "load", "read", "store"}, data : Int, left : Int]
          /\ consumer'.pc \in {"load", "idle"}
        <3> DEFINE label == IF consumer.left > 1 THEN "load" ELSE "idle"
                   left == consumer.left - 1
        <3>1. consumer' = [consumer EXCEPT !.pc = label, !.left = left]
            BY <1>5 DEF PopStore
        <3>2. label \in {"load", "idle"} /\ left \in Int
            BY DEF RingInv, RingTypes
        <3> HIDE DEF label, left
        <3> QED BY <3>1, <3>2 DEF RingInv, RingTypes
    <2>3. /\ consumer_sequence' = consumer_sequence + 1
          /\ delivered' = Append(delivered, consumer.data) /\ raced' = raced
        BY <1>5 DEF PopStore
    <2>4. /\ delivered' \in Seq(Int) /\ Len(delivered') = consumer_sequence + 1
          /\ delivered'[consumer_sequence + 1] = consumer.data
          /\ \A i \in 1 .. consumer_sequence : delivered'[i] = delivered[i]
        BY <2>1, <2>3
    <2>5. RingTypes'
        BY <1>1, <2>1, <2>2, <2>3, <2>4 DEF RingInv, RingTypes
    <2>6. Sequenced'
        BY <1>1, <2>1, <2>2, <2>3 DEF RingInv, RingTypes, Sequenced
    <2>7. \A i \in 1 .. Len(delivered') : Acceptable(i - 1, delivered[i])'
        <3> SUFFICES ASSUME NEW i \in 1 .. consumer_sequence + 1
                     PROVE  Acceptable(i - 1, delivered'[i])
            BY <2>3, <2>4 DEF Acceptable, Previous
        <3>1. CASE i = consumer_sequence + 1
            <4>1. i - 1 = consumer_sequence
                BY <2>1, <3>1
            <4> QED BY <2>1, <2>4, <3>1, <4>1
        <3>2. CASE i # consumer_sequence + 1
            <4>1. i \in 1 .. Len(delivered)
                BY <2>1, <3>2
            <4> QED BY <2>1, <2>4, <4>1 DEF RingInv, HandedOut
        <3> QED BY <3>1, <3>2
    <2>8. HandedOut'
        BY <1>1, <2>1, <2>2, <2>3, <2>4, <2>7 DEF HandedOut
    <2> QED BY <1>2, <2>5, <2>6, <2>8 DEF RingInv
<1> QED BY <1>3, <1>4, <1>5

(* Dropping the buffer drops the unread items in order. *)
LEMMA DropStep ==
    ASSUME RingInv, DropBuffer
    PROVE  RingInv'
<1> USE CapacityPositive
<1> DEFINE c == consumer_sequence
           n == producer_sequence - consumer_sequence
           rest == [i \in 1 .. n |-> slots[Slot(c + i - 1)]]
<1>1. /\ c \in Nat /\ n \in Nat /\ producer_sequence \in Nat /\ delivered \in Seq(Int)
      /\ producer.pc = "idle" /\ consumer.pc = "idle" /\ Published = producer_sequence
      /\ Len(delivered) = c
    BY DEF DropBuffer, RingInv, RingTypes, Sequenced, HandedOut, Published
<1>2. /\ delivered' = delivered \o rest /\ alive' = FALSE
      /\ UNCHANGED <<slots, producer_sequence, consumer_sequence, producer, consumer, raced>>
    BY DEF DropBuffer
<1>3. ASSUME NEW i \in 1 .. n PROVE rest[i] = c + i - 1 /\ rest[i] \in Int
    <2>1. c + i - 1 \in Nat /\ c <= c + i - 1 /\ c + i - 1 < Published
        BY <1>1
    <2>2. slots[Slot(c + i - 1)] = c + i - 1
        BY <2>1, UnreadHeld
    <2> QED BY <2>1, <2>2
<1>4. rest \in Seq(Int) /\ Len(rest) = n
    <2>1. rest \in [1 .. n -> Int]
        BY <1>3
    <2> HIDE DEF rest, n
    <2> QED BY <1>1, <2>1
<1> HIDE DEF rest, n, c
<1>5. /\ delivered' \in Seq(Int) /\ Len(delivered') = c + n
      /\ \A i \in 1 .. c : delivered'[i] = delivered[i]
      /\ \A i \in 1 .. n : delivered'[c + i] = rest[i]
    <2>1. /\ delivered' \in Seq(Int) /\ Len(delivered') = c + n
          /\ \A i \in 1 .. c + n :
                delivered'[i] = IF i <= c THEN delivered[i] ELSE rest[i - c]
        BY <1>1, <1>2, <1>4, ConcatProperties
    <2>2. ASSUME NEW i \in 1 .. n PROVE delivered'[c + i] = rest[i]
        <3>1. c + i \in 1 .. c + n /\ ~(c + i <= c) /\ (c + i) - c = i
            BY <1>1
        <3> QED BY <2>1, <3>1
    <2> QED BY <1>1, <2>1, <2>2
<1> USE DEF n, c
<1>6. RingTypes' /\ Sequenced'
    BY <1>2, <1>5 DEF RingInv, RingTypes, Sequenced
<1>7. SlotsHeld'
    <2>1. Published' = Published /\ \A q : Content(q)' = Content(q)
        BY <1>2 DEF Published, Content, Previous
    <2> QED BY <1>2, <2>1 DEF RingInv, SlotsHeld, Slot
<1>8. \A i \in 1 .. Len(delivered') : Acceptable(i - 1, delivered[i])'
    <2> SUFFICES ASSUME NEW i \in 1 .. c + n
                 PROVE  Acceptable(i - 1, delivered'[i])
        BY <1>2, <1>5 DEF Acceptable, Previous
    <2>1. CASE i \in 1 .. c
        BY <1>1, <1>5, <2>1 DEF RingInv, HandedOut
    <2>2. CASE i \notin 1 .. c
        <3>1. i - c \in 1 .. n /\ c + (i - c) = i /\ c + (i - c) - 1 = i - 1
            BY <1>1, <2>2
        <3>2. delivered'[i] = i - 1
            BY <1>3, <1>5, <3>1
        <3> QED BY <3>2 DEF Acceptable
    <2> QED BY <2>1, <2>2
<1>9. HandedOut'
    BY <1>1, <1>2, <1>8 DEF HandedOut
<1> QED BY <1>6, <1>7, <1>9 DEF RingInv

(* Every item is handed out once and in order, whatever the interleaving   *)
(* of producer and consumer, except one whose pop overtook its publish,    *)
(* for every capacity and batch size.                                      *)
THEOREM AlwaysDeliveredInOrder == RingSpec => []DeliveredInOrder
<1>1. RingInv => DeliveredInOrder
    <2> SUFFICES ASSUME RingInv PROVE DeliveredInOrder
        OBVIOUS
    <2>1. \A i \in 1 .. Len(delivered) :
             Previous(i - 1) = IF i > capacity THEN i - 1 - capacity ELSE Uninit
        BY CapacityPositive DEF Previous, RingInv, RingTypes
    <2> QED BY <2>1 DEF DeliveredInOrder, RingInv, Sequenced, HandedOut, Acceptable
<1>2. RingInv /\ [RingNext]_ringVars => RingInv'
    <2> SUFFICES ASSUME RingInv, [RingNext]_ringVars PROVE RingInv'
        OBVIOUS
    <2>1. CASE UNCHANGED ringVars
        BY <2>1 DEF ringVars, RingInv, RingTypes, Sequenced, SlotsHeld, HandedOut, Acceptable,
                    Content, Published, Previous, Slot
    <2> QED BY <2>1, ProducerStep, ConsumerStep, DropStep DEF RingNext
<1> QED
    BY <1>1, <1>2, RingInvInit, PTL DEF RingSpec

-----------------------------------------------------------------------------
(* The two monitors. *)

(* Inductive invariant of TransferCondition: a thread in a call is asleep  *)
(* or about to look, not both, and only a sleeper a notify_one passed over *)
(* has its funds there.                                                    *)
CondInv ==
    /\ balance \in Int /\ want \in [Waiters -> Nat]
    /\ asleep \subseteq Waiters /\ awake \subseteq Waiters /\ asleep \cap awake = {}
    /\ \A t \in asleep \cup awake : want[t] # 0
    /\ \A t \in asleep : want[t] <= balance => t \in passedOver

(* wait_and_debit, its loop and both credits keep the invariant: a debit   *)
(* only takes funds away, and a credit wakes everyone or passes over       *)
(* everyone it does not wake.                                              *)
LEMMA CondInvStep == CondInv /\ [CondNext]_condVars => CondInv'
<1> SUFFICES ASSUME CondInv, [CondNext]_condVars PROVE CondInv'
    OBVIOUS
<1>1. ASSUME NEW t \in Waiters, NEW a \in Wants, WaitAndDebit(t, a) PROVE CondInv'
    BY <1>1, WaitingAssumption DEF WaitAndDebit, CondInv
<1>2. ASSUME NEW t \in Waiters, CheckFunds(t) PROVE CondInv'
    <2>1. t \notin asleep /\ want[t] \in Nat /\ t \in awake
        BY <1>2 DEF CheckFunds, CondInv
    <2>2. CASE poisoned
        BY <1>2, <2>1, <2>2 DEF CheckFunds, CondInv
    <2>3. CASE ~poisoned /\ balance >= want[t]
        <3>1. /\ balance' = balance - want[t] /\ want' = [want EXCEPT ![t] = 0]
              /\ asleep' = asleep /\ awake' = awake \ {t} /\ passedOver' = passedOver
            BY <1>2, <2>3 DEF CheckFunds
        <3>2. balance' \in Int /\ balance' <= balance
            BY <2>1, <3>1 DEF CondInv
        <3> QED BY <2>1, <3>1, <3>2 DEF CondInv
    <2>4. CASE ~poisoned /\ ~(balance >= want[t])
        BY <1>2, <2>1, <2>4 DEF CheckFunds, CondInv
    <2> QED BY <2>2, <2>3, <2>4
<1>3. ASSUME NEW t \in Waiters, SpuriousWakeup(t) PROVE CondInv'
    BY <1>3 DEF SpuriousWakeup, CondInv
<1>4. ASSUME NEW a \in Wants, CreditOverflows(a) PROVE CondInv'
    BY <1>4 DEF CreditOverflows, CondInv
<1>5. ASSUME NEW a \in Wants, CreditAndNotify(a) PROVE CondInv'
    BY <1>5, WaitingAssumption DEF CreditAndNotify, Credited, CondInv
<1>6. ASSUME NEW a \in Wants, CreditAndNotifyOne(a) PROVE CondInv'
    <2>1. balance' \in Int /\ want' = want
        BY <1>6, WaitingAssumption DEF CreditAndNotifyOne, Credited, CondInv
    <2>2. CASE asleep = {} /\ UNCHANGED <<asleep, awake, passedOver>>
        BY <2>1, <2>2 DEF CondInv
    <2>3. ASSUME NEW t \in asleep, asleep' = asleep \ {t}, awake' = awake \cup {t},
                 passedOver' = (passedOver \cup asleep) \ {t}
          PROVE  CondInv'
        BY <2>1, <2>3 DEF CondInv
    <2> QED BY <1>6, <2>2, <2>3 DEF CreditAndNotifyOne
<1>7. CASE UNCHANGED condVars
    BY <1>7 DEF condVars, CondInv
<1> QED
    BY <1>1, <1>2, <1>3, <1>4, <1>5, <1>6, <1>7 DEF CondNext

(* Inductive invariant of FairTransferQueue: the requests are numbered as  *)
(* they came, taken ones first, and while somebody sleeps there is one     *)
(* awake for each that waits.                                              *)
QueueInv ==
    /\ enqueued \in Nat /\ queue \in Seq(Nat) /\ taken \in Seq(Nat)
    /\ queueAsleep \subseteq Waiters /\ queueAwake \subseteq Waiters
    /\ queueAsleep \cap queueAwake = {}
    /\ queueAsleep # {} => Len(queue) <= Cardinality(queueAwake)
    /\ Len(taken) + Len(queue) = enqueued
    /\ \A i \in 1 .. Len(taken) : taken[i] = i
    /\ \A i \in 1 .. Len(queue) : queue[i] = Len(taken) + i

(* A consumer that wakes up or goes changes the number awake by one. *)
LEMMA AwakeCounted ==
    ASSUME NEW S \in SUBSET Waiters, NEW t \in Waiters
    PROVE  /\ Cardinality(S) \in Nat
           /\ t \notin S => Cardinality(S \cup {t}) = Cardinality(S) + 1
           /\ t \in S => Cardinality(S \ {t}) = Cardinality(S) - 1
<1>1. IsFiniteSet(S)
    BY FS_Subset, WaitingAssumption
<1> QED
    BY <1>1, FS_CardinalityType, FS_AddElement, FS_RemoveElement

(* enqueue, dequeue_wait and its loop keep the invariant: a request is     *)
(* added with one more awake, and taken with one fewer.                    *)
LEMMA QueueInvStep == QueueInv /\ [QueueNext]_queueVars => QueueInv'
<1> SUFFICES ASSUME QueueInv, [QueueNext]_queueVars PROVE QueueInv'
    OBVIOUS
<1> DEFINE FIFO == /\ Len(taken) + Len(queue) = enqueued
                   /\ \A i \in 1 .. Len(taken) : taken[i] = i
                   /\ \A i \in 1 .. Len(queue) : queue[i] = Len(taken) + i
           Typed == /\ enqueued \in Nat /\ queue \in Seq(Nat) /\ taken \in Seq(Nat)
           Sleepers == /\ queueAsleep \subseteq Waiters /\ queueAwake \subseteq Waiters
                       /\ queueAsleep \cap queueAwake = {}
<1>1. ASSUME Enqueue PROVE QueueInv'
    <2>1. /\ enqueued' = enqueued + 1 /\ queue' = Append(queue, enqueued + 1) /\ taken' = taken
        BY <1>1 DEF Enqueue
    <2>2. Typed' /\ FIFO' /\ Len(queue') = Len(queue) + 1
        <3>1. /\ enqueued + 1 \in Nat /\ queue \in Seq(Nat) /\ Len(queue) \in Nat
              /\ taken \in Seq(Nat) /\ Len(taken) \in Nat
              /\ Len(taken) + Len(queue) = enqueued /\ enqueued \in Nat
            BY DEF QueueInv
        <3>2. /\ queue' \in Seq(Nat) /\ Len(queue') = Len(queue) + 1
              /\ queue'[Len(queue) + 1] = enqueued + 1
              /\ \A i \in 1 .. Len(queue) : queue'[i] = queue[i]
            BY <2>1, <3>1
        <3>3. Len(taken') + Len(queue') = enqueued'
            BY <2>1, <3>1, <3>2
        <3>4. ASSUME NEW i \in 1 .. Len(queue') PROVE queue'[i] = Len(taken') + i
            <4>1. CASE i = Len(queue) + 1
                BY <2>1, <3>1, <3>2, <4>1
            <4>2. CASE i \in 1 .. Len(queue)
                BY <2>1, <3>2, <4>2 DEF QueueInv
            <4> QED BY <3>1, <3>2, <4>1, <4>2
        <3>5. \A i \in 1 .. Len(taken') : taken'[i] = i
            BY <2>1 DEF QueueInv
        <3> QED BY <2>1, <3>1, <3>2, <3>3, <3>4, <3>5
    <2>3. CASE queueAsleep = {} /\ UNCHANGED <<queueAsleep, queueAwake>>
        BY <2>2, <2>3 DEF QueueInv
    <2>4. ASSUME NEW t \in queueAsleep, queueAsleep' = queueAsleep \ {t},
                 queueAwake' = queueAwake \cup {t}
          PROVE  QueueInv'
        <3>1. Sleepers' /\ t \notin queueAwake /\ t \in Waiters
            BY <2>4 DEF QueueInv
        <3>2. Cardinality(queueAwake') = Cardinality(queueAwake) + 1
              /\ Cardinality(queueAwake) \in Nat
            BY <2>4, <3>1, AwakeCounted DEF QueueInv
        <3>3. Len(queue') <= Cardinality(queueAwake')
            BY <2>2, <2>4, <3>2 DEF QueueInv
        <3> QED BY <2>2, <3>1, <3>3 DEF QueueInv
    <2> QED BY <1>1, <2>3, <2>4 DEF Enqueue
<1>2. ASSUME NEW t \in Waiters,
             t \notin queueAwake, queueAwake' = queueAwake \cup {t},
             queueAsleep' = queueAsleep \/ queueAsleep' = queueAsleep \ {t},
             t \notin queueAsleep',
             UNCHANGED <<queue, enqueued, taken>>
      PROVE  QueueInv'
    <2>1. Cardinality(queueAwake') = Cardinality(queueAwake) + 1
          /\ Cardinality(queueAwake) \in Nat
        BY <1>2, AwakeCounted DEF QueueInv
    <2>2. queueAsleep' # {} => Len(queue) <= Cardinality(queueAwake')
        BY <1>2, <2>1 DEF QueueInv
    <2> QED BY <1>2, <2>2 DEF QueueInv
<1>3. ASSUME NEW t \in Waiters, DequeueWait(t) PROVE QueueInv'
    BY <1>2, <1>3 DEF DequeueWait
<1>4. ASSUME NEW t \in Waiters, QueueWakeup(t) PROVE QueueInv'
    BY <1>2, <1>4 DEF QueueWakeup, QueueInv
<1>5. ASSUME NEW t \in Waiters, TakeOrSleep(t) PROVE QueueInv'
    <2>1. t \in queueAwake /\ queueAwake' = queueAwake \ {t} /\ enqueued' = enqueued
        BY <1>5 DEF TakeOrSleep
    <2>2. /\ Cardinality(queueAwake') = Cardinality(queueAwake) - 1
          /\ Cardinality(queueAwake) \in Nat /\ Cardinality(queueAwake') \in Nat
        BY <2>1, AwakeCounted DEF QueueInv
    <2>3. CASE queue = <<>>
        <3>1. queueAsleep' = queueAsleep \cup {t} /\ UNCHANGED <<queue, taken>>
            BY <1>5, <2>3 DEF TakeOrSleep
        <3> QED BY <2>1, <2>2, <2>3, <3>1 DEF QueueInv
    <2>4. CASE queue # <<>>
        <3>1. /\ taken' = Append(taken, Head(queue)) /\ queue' = Tail(queue)
              /\ queueAsleep' = queueAsleep
            BY <1>5, <2>4 DEF TakeOrSleep
        <3>2. /\ Len(queue) > 0 /\ Head(queue) = Len(taken) + 1
              /\ queue \in Seq(Nat) /\ taken \in Seq(Nat)
              /\ Len(queue) \in Nat /\ Len(taken) \in Nat
              /\ Len(taken) + Len(queue) = enqueued /\ enqueued \in Nat
            BY <2>4 DEF QueueInv
        <3>3. /\ queue' \in Seq(Nat) /\ Len(queue') = Len(queue) - 1
              /\ \A i \in 1 .. Len(queue') : queue'[i] = queue[i + 1]
            BY <3>1, <3>2
        <3>4. /\ taken' \in Seq(Nat) /\ Len(taken') = Len(taken) + 1
              /\ taken'[Len(taken) + 1] = Len(taken) + 1
              /\ \A i \in 1 .. Len(taken) : taken'[i] = taken[i]
            BY <3>1, <3>2
        <3>5. ASSUME NEW i \in 1 .. Len(taken') PROVE taken'[i] = i
            <4>1. CASE i = Len(taken) + 1
                BY <3>4, <4>1
            <4>2. CASE i \in 1 .. Len(taken)
                BY <3>4, <4>2 DEF QueueInv
            <4> QED BY <3>2, <3>4, <4>1, <4>2
        <3>6. \A i \in 1 .. Len(queue') : queue'[i] = Len(taken') + i
            BY <3>2, <3>3, <3>4 DEF QueueInv
        <3>7. Len(taken') + Len(queue') = enqueued'
            <4>1. Len(queue') = Len(queue) - 1 /\ Len(taken') = Len(taken) + 1
                BY <3>3, <3>4
            <4>2. Len(taken) + Len(queue) = enqueued /\ Len(taken) \in Nat /\ Len(queue) \in Nat
                BY <3>2
            <4> QED BY <2>1, <4>1, <4>2
        <3>8. queueAsleep' # {} => Len(queue') <= Cardinality(queueAwake')
            BY <2>2, <3>1, <3>2, <3>3 DEF QueueInv
        <3> QED
            BY <2>1, <3>1, <3>3, <3>4, <3>5, <3>6, <3>7, <3>8 DEF QueueInv
    <2> QED BY <2>3, <2>4
<1>6. CASE UNCHANGED queueVars
    BY <1>6 DEF queueVars, QueueInv
<1> QED
    BY <1>1, <1>3, <1>4, <1>5, <1>6 DEF QueueNext

(* No debit sleeps on funds that are there unless a notify_one chose       *)
(* another thread, no consumer sleeps while requests outnumber the ones    *)
(* awake, and requests are taken in the order they came: for any number of *)
(* threads, amounts and requests, and with spurious wake-ups.              *)
THEOREM NobodyEverSleepsThrough == WaitingSpec => []NobodySleepsThrough
<1>1. CondInv /\ QueueInv => NobodySleepsThrough
    <2> SUFFICES ASSUME CondInv, QueueInv PROVE NobodySleepsThrough
        OBVIOUS
    <2> DEFINE all == taken \o queue
    <2>1. /\ all \in Seq(Nat) /\ Len(all) = enqueued
          /\ \A i \in 1 .. enqueued :
                all[i] = IF i <= Len(taken) THEN taken[i] ELSE queue[i - Len(taken)]
        BY ConcatProperties DEF QueueInv
    <2>2. ASSUME NEW i \in 1 .. enqueued PROVE all[i] = i
        <3> HIDE DEF all
        <3>1. CASE i <= Len(taken)
            BY <2>1, <3>1 DEF QueueInv
        <3>2. CASE ~(i <= Len(taken))
            <4>1. i - Len(taken) \in 1 .. Len(queue) /\ Len(taken) + (i - Len(taken)) = i
                BY <3>2 DEF QueueInv
            <4> QED BY <2>1, <3>2, <4>1 DEF QueueInv
        <3> QED BY <3>1, <3>2
    <2>3. all = [i \in 1 .. enqueued |-> i]
        <3> HIDE DEF all
        <3>1. DOMAIN all = 1 .. enqueued
            BY <2>1
        <3> QED BY <2>1, <2>2, <3>1
    <2> QED BY <2>3 DEF NobodySleepsThrough, CondInv, QueueInv
<1>2. CondInit /\ QueueInit => CondInv /\ QueueInv
    BY FS_EmptySet DEF CondInit, QueueInit, CondInv, QueueInv
<1>3. CondInv /\ QueueInv /\ [\/ CondNext /\ UNCHANGED queueVars
                              \/ QueueNext /\ UNCHANGED condVars]_<<condVars, queueVars>>
        => CondInv' /\ QueueInv'
    BY CondInvStep, QueueInvStep
<1> QED
    BY <1>1, <1>2, <1>3, PTL DEF WaitingSpec

-----------------------------------------------------------------------------
(* The identity service, for any clients, parties and identifiers. *)

Versions == [party : Parties, status : {"PendingVerification", "Active", "Inactive"},
             replaces : Nat]

Calls == [pc : {"idle", "insert", "replace", "index"}, party : Parties \cup {NoCall.party},
          id : Nat]

IdentityType ==
    /\ parties \subseteq Parties
    /\ identifiers \in Seq(Versions)
    /\ party_identifiers \in [Parties -> Seq(Nat)]
    /\ doing \in [Clients -> Calls]
    /\ stale \subseteq DOMAIN identifiers

(* A version replaces an older, inactive one of its party. *)
Traced(q) ==
    \A i \in DOMAIN q : q[i].replaces # 0 =>
        /\ q[i].replaces \in DOMAIN q /\ q[i].replaces < i
        /\ q[q[i].replaces].status = "Inactive"
        /\ q[q[i].replaces].party = q[i].party
        /\ q[i].status # "PendingVerification"

(* Calls and index are about identifiers of their party, and an identifier *)
(* is in one place of the index or in one call that will put it there.     *)
Filed ==
    /\ \A c \in Clients : doing[c].pc = "insert" => doing[c].party \in Parties
    /\ \A c \in Clients : doing[c].pc \in {"replace", "index"} =>
          doing[c].id \in DOMAIN identifiers /\ doing[c].party = identifiers[doing[c].id].party
    /\ \A p \in Parties : \A k \in DOMAIN party_identifiers[p] :
          /\ party_identifiers[p][k] \in DOMAIN identifiers
          /\ identifiers[party_identifiers[p][k]].party = p
    /\ \A p \in Parties : \A k, l \in DOMAIN party_identifiers[p] :
          party_identifiers[p][k] = party_identifiers[p][l] => k = l
    /\ \A c, d \in Clients :
          doing[c].pc = "index" /\ doing[d].pc = "index" /\ doing[c].id = doing[d].id => c = d
    /\ \A c \in Clients, p \in Parties : \A k \in DOMAIN party_identifiers[p] :
          doing[c].pc = "index" => party_identifiers[p][k] # doing[c].id
    /\ \A i \in DOMAIN identifiers :
          \/ \E c \in Clients : doing[c].pc = "index" /\ doing[c].id = i
          \/ \E k \in DOMAIN party_identifiers[identifiers[i].party] :
                party_identifiers[identifiers[i].party][k] = i

(* L is the line of replacements of q that begins with i. *)
IsLine(L, q, i) ==
    /\ L \subseteq DOMAIN q
    /\ \A j \in DOMAIN q :
          j \in L <=> j = i \/ (q[j].replaces # 0 /\ q[j].replaces \in L)

ActiveIn(L, q) == {j \in L : q[j].status = "Active"}

(* A line has one active version, and one more for each stale replacement; *)
(* one that was never replaced has none.                                   *)
Fits(L, q, s, i) ==
    /\ q[i].status # "Inactive" => L = {i}
    /\ Cardinality(ActiveIn(L, q)) =
          IF q[i].status = "Inactive" THEN 1 + Cardinality(s \cap L) ELSE 0

HasLine(q, s, i) == \E L : IsLine(L, q, i) /\ Fits(L, q, s, i)

Counted(q, s) ==
    /\ \A i \in s : q[i].replaces # 0
    /\ \A i \in DOMAIN q : q[i].replaces = 0 => HasLine(q, s, i)

IdentityInv ==
    IdentityType /\ Traced(identifiers) /\ Filed /\ Counted(identifiers, stale)

Known(q) ==
    \A j \in DOMAIN q : /\ q[j].status \in {"PendingVerification", "Active", "Inactive"}
                        /\ q[j].replaces \in Nat

(* r is q, of n versions, and one more, which replaces old unless it is 0. *)
Grown(q, r, n, old) ==
    /\ DOMAIN q = 1 .. n /\ DOMAIN r = 1 .. n + 1
    /\ \A j \in 1 .. n : /\ r[j].party = q[j].party /\ r[j].replaces = q[j].replaces
                         /\ r[j].status = IF j = old THEN "Inactive" ELSE q[j].status
    /\ r[n + 1].replaces = old
    /\ r[n + 1].status = IF old = 0 THEN "PendingVerification" ELSE "Active"
    /\ old # 0 => r[n + 1].party = q[old].party

(* The stale versions once version n + 1 has replaced old. *)
StaleNow(u, q, s, n, old) ==
    u = IF old # 0 /\ q[old].status = "Inactive" THEN s \cup {n + 1} ELSE s

LEMMA TracedGrown ==
    ASSUME NEW n \in Nat, NEW old \in 0 .. n, NEW q, NEW r, Grown(q, r, n, old), Traced(q),
           Known(q)
    PROVE  Traced(r)
<1> SUFFICES ASSUME NEW i \in 1 .. n + 1, r[i].replaces # 0
             PROVE  /\ r[i].replaces \in 1 .. n + 1 /\ r[i].replaces < i
                    /\ r[r[i].replaces].status = "Inactive"
                    /\ r[r[i].replaces].party = r[i].party
                    /\ r[i].status # "PendingVerification"
    BY DEF Traced, Grown
<1>1. CASE i = n + 1
    BY <1>1 DEF Grown
<1>2. CASE i # n + 1
    <2>1. i \in 1 .. n /\ q[i].replaces # 0 /\ r[i].replaces = q[i].replaces
        BY <1>2 DEF Grown
    <2>2. /\ q[i].replaces \in 1 .. n /\ q[i].replaces < i
          /\ q[q[i].replaces].status = "Inactive"
          /\ q[q[i].replaces].party = q[i].party
          /\ q[i].status # "PendingVerification"
        BY <2>1 DEF Traced, Grown
    <2> QED BY <2>1, <2>2 DEF Grown
<1> QED BY <1>1, <1>2

(* A new version without predecessor is a line of its own. *)
LEMMA NewLine ==
    ASSUME NEW n \in Nat, NEW q, NEW r, Grown(q, r, n, 0), Traced(q), NEW s
    PROVE  HasLine(r, s, n + 1)
<1>1. PICK L : L = {n + 1}
    OBVIOUS
<1>2. IsLine(L, r, n + 1)
    <2>1. ASSUME NEW j \in 1 .. n PROVE ~(r[j].replaces # 0 /\ r[j].replaces \in L)
        BY <1>1 DEF Grown, Traced
    <2> QED BY <1>1, <2>1 DEF IsLine, Grown
<1>3. r[n + 1].status = "PendingVerification"
    BY DEF Grown
<1>4. ActiveIn(L, r) = {}
    BY <1>1, <1>3 DEF ActiveIn
<1>5. Fits(L, r, s, n + 1)
    BY <1>1, <1>3, <1>4, FS_EmptySet DEF Fits
<1> QED BY <1>2, <1>5, Zenon DEF HasLine

(* A line without the version that is replaced stays as it is. *)
LEMMA OtherLine ==
    ASSUME NEW n \in Nat, NEW old \in 0 .. n, NEW q, NEW r, Grown(q, r, n, old), Traced(q),
           NEW i \in 1 .. n, NEW s, NEW u, s \subseteq u, u \subseteq s \cup {n + 1},
           NEW L, IsLine(L, q, i), Fits(L, q, s, i), old \notin L
    PROVE  IsLine(L, r, i) /\ Fits(L, r, u, i)
<1>1. L \subseteq 1 .. n /\ i \in L /\ n + 1 \notin L /\ i # old
    BY DEF IsLine, Grown
<1>2. IsLine(L, r, i)
    <2>1. ASSUME NEW j \in 1 .. n
          PROVE  j \in L <=> j = i \/ (r[j].replaces # 0 /\ r[j].replaces \in L)
        BY DEF IsLine, Grown
    <2>2. n + 1 \in L <=> n + 1 = i \/ (r[n + 1].replaces # 0 /\ r[n + 1].replaces \in L)
        BY <1>1 DEF Grown
    <2> QED BY <1>1, <2>1, <2>2 DEF IsLine, Grown
<1>3. ActiveIn(L, r) = ActiveIn(L, q)
    BY <1>1, ZenonT(30) DEF ActiveIn, Grown
<1>4. u \cap L = s \cap L
    BY <1>1
<1>5. r[i].status = q[i].status
    BY <1>1 DEF Grown
<1> QED BY <1>2, <1>3, <1>4, <1>5 DEF Fits

(* A line in which a version is replaced grows by the new one, and by one  *)
(* active version if the replaced one was not the active one.              *)
LEMMA GrownLine ==
    ASSUME NEW n \in Nat, NEW old \in 1 .. n, NEW q, NEW r, Grown(q, r, n, old), Traced(q),
           Known(q),
           NEW i \in 1 .. n, q[i].replaces = 0,
           NEW s, s \subseteq 1 .. n, Counted(q, s),
           NEW u, StaleNow(u, q, s, n, old),
           NEW L, IsLine(L, q, i), Fits(L, q, s, i), old \in L
    PROVE  HasLine(r, u, i)
<1> DEFINE Statuses == {"PendingVerification", "Active", "Inactive"}
<1>15. q[old].status \in Statuses
    BY DEF Known, Grown
<1>0. L \subseteq 1 .. n /\ i \in L /\ n + 1 \notin L /\ n + 1 \notin s /\ IsFiniteSet(L)
    <2>1. L \subseteq 1 .. n /\ i \in L /\ n + 1 \notin L /\ n + 1 \notin s
        BY DEF IsLine, Grown
    <2>2. IsFiniteSet(1 .. n)
        BY FS_Interval
    <2> QED BY <2>1, <2>2, FS_Subset
<1>1. PICK M : M = L \cup {n + 1}
    OBVIOUS
<1>2. IsLine(M, r, i)
    <2>1. ASSUME NEW j \in 1 .. n
          PROVE  j \in M <=> j = i \/ (r[j].replaces # 0 /\ r[j].replaces \in M)
        <3>1. r[j].replaces = q[j].replaces /\ j # n + 1
            BY DEF Grown
        <3>2. q[j].replaces # 0 => q[j].replaces \in 1 .. n
            BY DEF Traced, Grown
        <3>3. j \in L <=> j = i \/ (q[j].replaces # 0 /\ q[j].replaces \in L)
            BY DEF IsLine, Grown
        <3> QED BY <1>1, <3>1, <3>2, <3>3
    <2>2. n + 1 \in M /\ r[n + 1].replaces # 0 /\ r[n + 1].replaces \in M
        BY <1>1 DEF Grown
    <2>3. M \subseteq 1 .. n + 1
        <3>1. n + 1 \in 1 .. n + 1 /\ \A j \in 1 .. n : j \in 1 .. n + 1
            OBVIOUS
        <3> QED BY <1>0, <1>1, <3>1, ZenonT(20)
    <2>4. DOMAIN r = 1 .. n + 1 /\ \A j \in 1 .. n + 1 : j \in 1 .. n \/ j = n + 1
        BY DEF Grown
    <2>5. \A j \in DOMAIN r :
             j \in M <=> j = i \/ (r[j].replaces # 0 /\ r[j].replaces \in M)
        BY <2>1, <2>2, <2>4
    <2> QED BY <2>3, <2>4, <2>5 DEF IsLine
<1>3. r[i].status = "Inactive"
    BY DEF Fits, Grown
<1>4. PICK A : A = ActiveIn(L, q)
    OBVIOUS
<1>5. A \subseteq L /\ IsFiniteSet(A) /\ IsFiniteSet(A \ {old}) /\ n + 1 \notin A
    <2>1. A \subseteq L /\ A \ {old} \subseteq L
        BY <1>4 DEF ActiveIn
    <2> QED BY <1>0, <2>1, FS_Subset
<1>6. ActiveIn(M, r) = (A \ {old}) \cup {n + 1}
    <2>1. r[n + 1].status = "Active"
        BY DEF Grown
    <2>2. \A j \in L : r[j].status = IF j = old THEN "Inactive" ELSE q[j].status
        BY <1>0 DEF Grown
    <2>3. \A j \in L : r[j].status = "Active" <=> j \in A \ {old}
        BY <1>4, <2>2 DEF ActiveIn
    <2>4. A \ {old} \subseteq L
        BY <1>5
    <2> QED BY <1>1, <2>1, <2>3, <2>4 DEF ActiveIn
<1>7. PICK C : C = s \cap L
    OBVIOUS
<1>8. IsFiniteSet(C) /\ n + 1 \notin C /\ Cardinality(C) \in Nat
    <2>1. C \subseteq L
        BY <1>7
    <2>2. IsFiniteSet(C)
        BY <1>0, <2>1, FS_Subset
    <2> QED BY <1>0, <1>7, <2>2, FS_CardinalityType
<1>9. Cardinality(ActiveIn(M, r)) = Cardinality(A \ {old}) + 1
    BY <1>5, <1>6, FS_AddElement, ZenonT(30)
<1>10. Cardinality(A \ {old}) \in Nat /\ Cardinality(A) \in Nat
    BY <1>5, FS_CardinalityType
<1>11. CASE q[old].status = "Inactive"
    <2>1. q[i].status = "Inactive"
        BY <1>11 DEF Fits
    <2>2. Cardinality(A \ {old}) = 1 + Cardinality(C)
        <3>1. A \ {old} = A
            BY <1>4, <1>11 DEF ActiveIn
        <3>2. Cardinality(A) = 1 + Cardinality(C)
            BY <1>4, <1>7, <2>1 DEF Fits
        <3> QED BY <3>1, <3>2
    <2>3. u \cap M = C \cup {n + 1}
        BY <1>0, <1>1, <1>7, <1>11 DEF StaleNow
    <2>4. Cardinality(u \cap M) = Cardinality(C) + 1
        <3>1. Cardinality(C \cup {n + 1}) = Cardinality(C) + 1
            BY <1>8, FS_AddElement
        <3> QED BY <2>3, <3>1
    <2>5. Cardinality(ActiveIn(M, r)) = 1 + Cardinality(u \cap M)
        <3>1. Cardinality(ActiveIn(M, r)) = 1 + (Cardinality(C) + 1)
            BY <1>8, <1>9, <2>2
        <3> QED BY <2>4, <3>1
    <2> QED BY <1>2, <1>3, <2>5, Zenon DEF Fits, HasLine
<1>12. u \cap M = C \/ q[old].status = "Inactive"
    BY <1>0, <1>1, <1>7 DEF StaleNow
<1>13. CASE q[old].status = "Active"
    <2>1. old \in A
        BY <1>4, <1>13 DEF ActiveIn
    <2>2. Cardinality(A \ {old}) = Cardinality(A) - 1
        BY <1>5, <2>1, FS_RemoveElement
    <2>3. Cardinality(A) # 0
        BY <1>10, <2>2
    <2>4. Cardinality(A) = 1 + Cardinality(C)
        BY <1>4, <1>7, <2>3 DEF Fits
    <2>5. u \cap M = C
        BY <1>12, <1>13
    <2>6. Cardinality(ActiveIn(M, r)) = 1 + Cardinality(u \cap M)
        <3>1. Cardinality(ActiveIn(M, r)) = 1 + Cardinality(C)
            BY <1>8, <1>9, <1>10, <2>2, <2>4
        <3> QED BY <2>5, <3>1
    <2> QED BY <1>2, <1>3, <2>6, Zenon DEF Fits, HasLine
<1>14. CASE q[old].status = "PendingVerification"
    <2>1. q[old].replaces = 0
        BY <1>14 DEF Traced, Grown
    <2>2. old = i
        BY <2>1 DEF IsLine, Grown
    <2>3. L = {i} /\ A = {} /\ C = {}
        BY <1>4, <1>7, <1>14, <2>2 DEF Fits, ActiveIn, Counted
    <2>4. A \ {old} = {} /\ Cardinality({}) = 0
        BY <2>3, FS_EmptySet
    <2>5. u \cap M = C
        BY <1>12, <1>14
    <2>6. Cardinality(ActiveIn(M, r)) = 1 + Cardinality(u \cap M)
        <3>1. Cardinality(ActiveIn(M, r)) = 1 + 0 /\ Cardinality(C) = 0
            BY <1>9, <2>3, <2>4
        <3> QED BY <2>5, <3>1
    <2> QED BY <1>2, <1>3, <2>6, Zenon DEF Fits, HasLine
<1> QED BY <1>11, <1>13, <1>14, <1>15

LEMMA CountedGrown ==
    ASSUME NEW n \in Nat, NEW old \in 0 .. n, NEW q, NEW r, Grown(q, r, n, old), Traced(q),
           Known(q),
           NEW s, s \subseteq 1 .. n, Counted(q, s),
           NEW u, StaleNow(u, q, s, n, old)
    PROVE  Counted(r, u)
<1>1. ASSUME NEW i \in u PROVE r[i].replaces # 0
    BY DEF Counted, Grown, StaleNow
<1>2. ASSUME NEW i \in 1 .. n + 1, r[i].replaces = 0
      PROVE  HasLine(r, u, i)
    <2>1. CASE i = n + 1
        <3>1. old = 0
            BY <1>2, <2>1 DEF Grown
        <3>2. Grown(q, r, n, 0)
            BY <3>1
        <3> QED BY <2>1, <3>2, NewLine
    <2>2. CASE i # n + 1
        <3>1. i \in 1 .. n /\ q[i].replaces = 0
            BY <1>2, <2>2 DEF Grown
        <3>2. PICK L : IsLine(L, q, i) /\ Fits(L, q, s, i)
            BY <3>1 DEF Counted, Grown, HasLine
        <3>3. CASE old \notin L
            <4>1. s \subseteq u /\ u \subseteq s \cup {n + 1}
                BY DEF StaleNow
            <4> QED BY <3>1, <3>2, <3>3, <4>1, OtherLine DEF HasLine
        <3>4. CASE old \in L
            <4>1. old \in 1 .. n
                BY <3>2, <3>4 DEF IsLine, Grown
            <4> QED BY <3>1, <3>2, <3>4, <4>1, GrownLine
        <3> QED BY <3>3, <3>4
    <2> QED BY <2>1, <2>2
<1>3. DOMAIN r = 1 .. n + 1
    BY DEF Grown
<1> QED BY <1>1, <1>2, <1>3 DEF Counted

(* A line is what Line collects: the recursion there goes back to older    *)
(* versions only.                                                          *)
IsOlder(f, q, i) ==
    f = [j \in DOMAIN q |-> j = i \/ (q[j].replaces # 0 /\ f[q[j].replaces])]

LEMMA OlderInLine ==
    ASSUME NEW n \in Nat, NEW q, DOMAIN q = 1 .. n, Traced(q), NEW i \in 1 .. n,
           NEW L, IsLine(L, q, i), NEW f, IsOlder(f, q, i)
    PROVE  \A j \in 1 .. n : f[j] <=> j \in L
<1> DEFINE S == {j \in 1 .. n : ~(f[j] <=> j \in L)}
<1> SUFFICES ASSUME S # {} PROVE FALSE
    OBVIOUS
<1>1. S \subseteq Nat
    OBVIOUS
<1>2. PICK j \in S : \A k \in S : j <= k
    <2> HIDE DEF S
    <2> QED BY <1>1, LeastOfSet
<1>3. \A k \in S : ~(k < j)
    BY <1>1, <1>2
<1>4. f[j] <=> j = i \/ (q[j].replaces # 0 /\ f[q[j].replaces])
    BY Zenon DEF IsOlder
<1>5. j \in L <=> j = i \/ (q[j].replaces # 0 /\ q[j].replaces \in L)
    BY DEF IsLine
<1>6. q[j].replaces # 0 => q[j].replaces \in 1 .. n /\ q[j].replaces < j
    BY DEF Traced
<1>7. q[j].replaces # 0 => (f[q[j].replaces] <=> q[j].replaces \in L)
    BY <1>3, <1>6
<1>8. ~(f[j] <=> j \in L)
    OBVIOUS
<1> QED BY <1>4, <1>5, <1>7, <1>8, Zenon

LEMMA LineIs ==
    ASSUME NEW n \in Nat, DOMAIN identifiers = 1 .. n, Traced(identifiers),
           NEW i \in 1 .. n, NEW L, IsLine(L, identifiers, i)
    PROVE  Line(i) = L
<1>1. PICK h : h = [j \in DOMAIN identifiers |-> j \in L]
    OBVIOUS
<1> DEFINE Back(g, j) == j = i \/ (identifiers[j].replaces # 0 /\ g[identifiers[j].replaces])
<1>2. ASSUME NEW j \in DOMAIN identifiers PROVE (j \in L) = Back(h, j)
    <2>1. identifiers[j].replaces # 0 =>
             (h[identifiers[j].replaces] <=> identifiers[j].replaces \in L)
        BY <1>1, Zenon DEF Traced
    <2>2. j \in L <=> j = i \/ (identifiers[j].replaces # 0 /\ identifiers[j].replaces \in L)
        BY DEF IsLine
    <2>3. j \in L <=> Back(h, j)
        BY <2>1, <2>2, Zenon
    <2> HIDE DEF Back
    <2>4. Back(h, j) \in BOOLEAN
        BY Zenon DEF Back
    <2> QED BY <2>3, <2>4
<1>3. IsOlder(h, identifiers, i)
    BY <1>1, <1>2, Zenon DEF IsOlder
<1>4. PICK f : IsOlder(f, identifiers, i) /\ Line(i) = {j \in DOMAIN identifiers : f[j]}
    BY <1>3, Zenon DEF IsOlder, Line
<1>5. \A j \in 1 .. n : f[j] <=> j \in L
    BY <1>4, OlderInLine
<1>6. L \subseteq 1 .. n
    BY DEF IsLine
<1> QED BY <1>4, <1>5, <1>6, Zenon

-----------------------------------------------------------------------------
LEMMA IdentityInvInit == IdentityInit => IdentityInv
<1> SUFFICES ASSUME IdentityInit PROVE IdentityInv
    OBVIOUS
<1>1. DOMAIN identifiers = {} /\ \A p \in Parties : DOMAIN party_identifiers[p] = {}
    BY DEF IdentityInit
<1>2. IdentityType
    BY DEF IdentityInit, IdentityType, NoCall, Calls
<1>3. Filed
    BY <1>1 DEF IdentityInit, Filed, NoCall
<1>4. Traced(identifiers) /\ Counted(identifiers, stale)
    BY <1>1 DEF IdentityInit, Traced, Counted
<1> QED BY <1>2, <1>3, <1>4 DEF IdentityInv

LEMMA IdentityFacts ==
    ASSUME IdentityInv
    PROVE  /\ Len(identifiers) \in Nat /\ DOMAIN identifiers = 1 .. Len(identifiers)
           /\ \A i \in DOMAIN identifiers : identifiers[i] \in Versions
           /\ Known(identifiers)
<1>1. identifiers \in Seq(Versions)
    BY DEF IdentityInv, IdentityType
<1>2. Len(identifiers) \in Nat /\ DOMAIN identifiers = 1 .. Len(identifiers)
    BY <1>1, LenProperties
<1>3. \A i \in DOMAIN identifiers : identifiers[i] \in Versions
    BY <1>1, <1>2, ElementOfSeq
<1> QED BY <1>2, <1>3 DEF Known, Versions

(* Steps that leave the identifiers alone. *)
LEMMA CallStep ==
    ASSUME IdentityInv, NEW c \in Clients, NEW label \in {"insert", "replace"},
           NEW p \in Parties, NEW i, i = 0 \/ i \in DOMAIN identifiers,
           label = "replace" => i \in DOMAIN identifiers /\ p = identifiers[i].party,
           doing[c].pc = "idle", Do(c, label, p, i),
           UNCHANGED <<parties, identifiers, party_identifiers, stale>>
    PROVE  IdentityInv'
<1>1. i \in Nat
    BY IdentityFacts
<1>2. doing' = [doing EXCEPT ![c] = [pc |-> label, party |-> p, id |-> i]]
    BY DEF Do
<1>3. \A d \in Clients :
          doing'[d] = IF d = c THEN [pc |-> label, party |-> p, id |-> i] ELSE doing[d]
    BY <1>2 DEF IdentityInv, IdentityType
<1>4. IdentityType'
    BY <1>1, <1>2 DEF IdentityInv, IdentityType, Calls
<1>5. Filed'
    BY <1>3 DEF IdentityInv, Filed
<1> QED BY <1>4, <1>5 DEF IdentityInv

(* The last step of add_identifier and replace_identifier. *)
LEMMA IndexStep ==
    ASSUME IdentityInv, NEW c \in Clients, Index(c)
    PROVE  IdentityInv'
<1>1. PICK p, i : p = doing[c].party /\ i = doing[c].id
    OBVIOUS
<1>2. i \in DOMAIN identifiers /\ p = identifiers[i].party /\ p \in Parties /\ i \in Nat
    <2>1. i \in DOMAIN identifiers /\ p = identifiers[i].party
        BY <1>1 DEF Index, IdentityInv, Filed
    <2> QED BY <2>1, IdentityFacts DEF Versions
<1>3. party_identifiers[p] \in Seq(Nat) /\ Len(party_identifiers[p]) \in Nat
      /\ DOMAIN party_identifiers[p] = 1 .. Len(party_identifiers[p])
    BY <1>2, LenProperties DEF IdentityInv, IdentityType
<1>4. PICK old, N : old = party_identifiers[p] /\ N = Len(old)
    OBVIOUS
<1>5. PICK new : new = Append(old, i)
    OBVIOUS
<1>6. /\ new \in Seq(Nat) /\ DOMAIN new = 1 .. N + 1 /\ DOMAIN old = 1 .. N /\ N \in Nat
      /\ new[N + 1] = i /\ \A k \in 1 .. N : new[k] = old[k]
    BY <1>2, <1>3, <1>4, <1>5, AppendProperties, LenProperties
<1>7. /\ party_identifiers' \in [Parties -> Seq(Nat)]
      /\ \A x \in Parties : party_identifiers'[x] = IF x = p THEN new ELSE party_identifiers[x]
    BY <1>1, <1>2, <1>4, <1>5, <1>6 DEF Index, IdentityInv, IdentityType
<1>8. /\ doing' \in [Clients -> Calls]
      /\ \A d \in Clients : doing'[d] = IF d = c THEN NoCall ELSE doing[d]
    BY DEF Index, IdentityInv, IdentityType, NoCall, Calls
<1>9. UNCHANGED <<parties, identifiers, stale>> /\ doing[c].pc = "index" /\ NoCall.pc = "idle"
    BY DEF Index, NoCall
<1>10. \A k \in DOMAIN old : old[k] # i
    BY <1>1, <1>2, <1>4, <1>9 DEF IdentityInv, Filed
<1>11. IdentityType'
    BY <1>7, <1>8, <1>9 DEF IdentityInv, IdentityType
<1>12. \A x \in Parties : \A k \in DOMAIN party_identifiers'[x] :
          \/ k \in DOMAIN party_identifiers[x]
             /\ party_identifiers'[x][k] = party_identifiers[x][k]
          \/ x = p /\ k = N + 1 /\ party_identifiers'[x][k] = i
    <2> SUFFICES ASSUME NEW x \in Parties, NEW k \in DOMAIN party_identifiers'[x]
                 PROVE  \/ /\ k \in DOMAIN party_identifiers[x]
                           /\ party_identifiers'[x][k] = party_identifiers[x][k]
                        \/ x = p /\ k = N + 1 /\ party_identifiers'[x][k] = i
        OBVIOUS
    <2>1. CASE x # p
        BY <1>7, <2>1
    <2>2. CASE x = p
        <3>1. party_identifiers'[x] = new /\ k \in 1 .. N + 1
            BY <1>6, <1>7, <2>2
        <3>2. CASE k = N + 1
            BY <1>6, <2>2, <3>1, <3>2
        <3>3. CASE k # N + 1
            <4>1. k \in 1 .. N
                BY <1>6, <3>1, <3>3
            <4> QED BY <1>4, <1>6, <2>2, <3>1, <4>1
        <3> QED BY <3>2, <3>3
    <2> QED BY <2>1, <2>2
<1>13. \A x \in Parties : \A k \in DOMAIN party_identifiers[x] :
          k \in DOMAIN party_identifiers'[x] /\ party_identifiers'[x][k] = party_identifiers[x][k]
    <2>1. ASSUME NEW k \in DOMAIN old PROVE k \in DOMAIN new /\ new[k] = old[k]
        BY <1>6
    <2> QED BY <1>4, <1>7, <2>1
<1>14. N + 1 \in DOMAIN party_identifiers'[p] /\ party_identifiers'[p][N + 1] = i
    BY <1>2, <1>6, <1>7
<1>15. \A x \in Parties : x # p => \A k \in DOMAIN party_identifiers[x] :
          party_identifiers[x][k] # i
    BY <1>2 DEF IdentityInv, Filed
<1>16. Filed'
    <2>1. \A d \in Clients : doing'[d].pc = "insert" => doing'[d].party \in Parties
        BY <1>8, <1>9 DEF IdentityInv, Filed
    <2>2. \A d \in Clients : doing'[d].pc \in {"replace", "index"} =>
             doing'[d].id \in DOMAIN identifiers'
                /\ doing'[d].party = identifiers'[doing'[d].id].party
        BY <1>8, <1>9 DEF IdentityInv, Filed
    <2>3. \A x \in Parties : \A k \in DOMAIN party_identifiers'[x] :
             /\ party_identifiers'[x][k] \in DOMAIN identifiers'
             /\ identifiers'[party_identifiers'[x][k]].party = x
        BY <1>2, <1>9, <1>12 DEF IdentityInv, Filed
    <2>4. \A x \in Parties : \A k, l \in DOMAIN party_identifiers'[x] :
             party_identifiers'[x][k] = party_identifiers'[x][l] => k = l
        BY <1>4, <1>10, <1>12 DEF IdentityInv, Filed
    <2>5. \A d, e \in Clients :
             doing'[d].pc = "index" /\ doing'[e].pc = "index" /\ doing'[d].id = doing'[e].id
                => d = e
        BY <1>8, <1>9 DEF IdentityInv, Filed
    <2>6. \A d \in Clients, x \in Parties : \A k \in DOMAIN party_identifiers'[x] :
             doing'[d].pc = "index" => party_identifiers'[x][k] # doing'[d].id
        BY <1>1, <1>8, <1>9, <1>12 DEF IdentityInv, Filed
    <2>7. ASSUME NEW j \in DOMAIN identifiers
          PROVE  \/ \E d \in Clients : doing'[d].pc = "index" /\ doing'[d].id = j
                 \/ \E k \in DOMAIN party_identifiers'[identifiers'[j].party] :
                       party_identifiers'[identifiers'[j].party][k] = j
        <3>1. CASE j = i
            BY <1>2, <1>9, <1>14, <3>1
        <3>2. CASE j # i
            <4>1. identifiers[j].party \in Parties
                BY IdentityFacts DEF Versions
            <4>2. CASE \E d \in Clients : doing[d].pc = "index" /\ doing[d].id = j
                BY <1>1, <1>8, <3>2, <4>2
            <4>3. CASE \E k \in DOMAIN party_identifiers[identifiers[j].party] :
                          party_identifiers[identifiers[j].party][k] = j
                BY <1>9, <1>13, <4>1, <4>3
            <4> QED BY <4>2, <4>3 DEF IdentityInv, Filed
        <3> QED BY <3>1, <3>2
    <2>8. \A j \in DOMAIN identifiers' :
             \/ \E d \in Clients : doing'[d].pc = "index" /\ doing'[d].id = j
             \/ \E k \in DOMAIN party_identifiers'[identifiers'[j].party] :
                   party_identifiers'[identifiers'[j].party][k] = j
        BY <1>9, <2>7
    <2> QED BY <2>1, <2>2, <2>3, <2>4, <2>5, <2>6, <2>8 DEF Filed
<1> QED BY <1>9, <1>11, <1>16 DEF IdentityInv

(* The identifiers and the calls after add_identifier or replace_with has  *)
(* appended a version: client c will put it in the index of its party.     *)
LEMMA FiledGrown ==
    ASSUME IdentityInv, NEW c \in Clients, NEW old \in 0 .. Len(identifiers), NEW p \in Parties,
           Grown(identifiers, identifiers', Len(identifiers), old),
           identifiers'[Len(identifiers) + 1].party = p,
           doing[c].pc # "index", Do(c, "index", p, Len(identifiers) + 1),
           UNCHANGED <<parties, party_identifiers>>
    PROVE  Filed'
<1>1. PICK n \in Nat : n = Len(identifiers)
    BY IdentityFacts
<1>2. /\ DOMAIN identifiers = 1 .. n /\ DOMAIN identifiers' = 1 .. n + 1
      /\ \A j \in 1 .. n : j \in 1 .. n + 1 /\ identifiers'[j].party = identifiers[j].party
      /\ identifiers'[n + 1].party = p
      /\ \A j \in 1 .. n + 1 : j \in 1 .. n \/ j = n + 1
    BY <1>1 DEF Grown
<1>3. \A d \in Clients :
         doing'[d] = IF d = c THEN [pc |-> "index", party |-> p, id |-> n + 1] ELSE doing[d]
    BY <1>1 DEF Do, IdentityInv, IdentityType
<1>4. n + 1 \notin 1 .. n
    OBVIOUS
<1>5. \A d \in Clients : doing'[d].pc = "insert" => doing'[d].party \in Parties
    BY <1>3 DEF IdentityInv, Filed
<1>6. ASSUME NEW d \in Clients, doing'[d].pc \in {"replace", "index"}
      PROVE  doing'[d].id \in 1 .. n + 1 /\ doing'[d].party = identifiers'[doing'[d].id].party
    <2>1. CASE d = c
        BY <1>2, <1>3, <2>1
    <2>2. CASE d # c
        <3>1. doing'[d] = doing[d]
            BY <1>3, <2>2
        <3>2. doing[d].id \in 1 .. n /\ doing[d].party = identifiers[doing[d].id].party
            BY <1>2, <1>6, <3>1 DEF IdentityInv, Filed
        <3> QED BY <1>2, <3>1, <3>2
    <2> QED BY <2>1, <2>2
<1>7. \A x \in Parties : \A k \in DOMAIN party_identifiers[x] :
         party_identifiers[x][k] \in 1 .. n /\ identifiers[party_identifiers[x][k]].party = x
    BY <1>2 DEF IdentityInv, Filed
<1>8. \A x \in Parties : \A k \in DOMAIN party_identifiers[x] :
         party_identifiers[x][k] \in 1 .. n + 1 /\ identifiers'[party_identifiers[x][k]].party = x
    BY <1>2, <1>7
<1>9. \A d \in Clients : d # c /\ doing'[d].pc = "index" =>
          doing[d].pc = "index" /\ doing'[d].id \in 1 .. n
    BY <1>2, <1>3 DEF IdentityInv, Filed
<1>10. ASSUME NEW d \in Clients, NEW e \in Clients,
              doing'[d].pc = "index", doing'[e].pc = "index", doing'[d].id = doing'[e].id
       PROVE  d = e
    <2>1. CASE d # c /\ e # c
        <3>1. doing'[d] = doing[d] /\ doing'[e] = doing[e]
            BY <1>3, <2>1
        <3> QED BY <1>10, <3>1 DEF IdentityInv, Filed
    <2>2. CASE d = c \/ e = c
        BY <1>3, <1>4, <1>9, <1>10, <2>2
    <2> QED BY <2>1, <2>2
<1>11. ASSUME NEW d \in Clients, NEW x \in Parties, NEW k \in DOMAIN party_identifiers[x],
              doing'[d].pc = "index"
       PROVE  party_identifiers[x][k] # doing'[d].id
    <2>1. CASE d = c
        BY <1>3, <1>4, <1>7, <2>1
    <2>2. CASE d # c
        <3>1. doing'[d] = doing[d]
            BY <1>3, <2>2
        <3> QED BY <1>11, <3>1 DEF IdentityInv, Filed
    <2> QED BY <2>1, <2>2
<1>12. ASSUME NEW j \in 1 .. n + 1
       PROVE  \/ \E d \in Clients : doing'[d].pc = "index" /\ doing'[d].id = j
              \/ \E k \in DOMAIN party_identifiers[identifiers'[j].party] :
                    party_identifiers[identifiers'[j].party][k] = j
    <2>1. CASE j = n + 1
        <3>1. doing'[c].pc = "index" /\ doing'[c].id = j
            BY <1>3, <2>1
        <3> QED BY <3>1
    <2>2. CASE j \in 1 .. n
        <3>1. identifiers'[j].party = identifiers[j].party
            BY <1>2, <2>2
        <3>2. CASE \E d \in Clients : doing[d].pc = "index" /\ doing[d].id = j
            <4>1. PICK d \in Clients : doing[d].pc = "index" /\ doing[d].id = j
                BY <3>2
            <4>2. doing'[d] = doing[d]
                BY <1>3, <4>1
            <4> QED BY <4>1, <4>2
        <3>3. CASE \E k \in DOMAIN party_identifiers[identifiers[j].party] :
                      party_identifiers[identifiers[j].party][k] = j
            BY <3>1, <3>3
        <3> QED BY <1>2, <2>2, <3>2, <3>3 DEF IdentityInv, Filed
    <2> QED BY <1>2, <2>1, <2>2
<1>13. \A x \in Parties : \A k, l \in DOMAIN party_identifiers[x] :
          party_identifiers[x][k] = party_identifiers[x][l] => k = l
    BY DEF IdentityInv, Filed
<1>14. UNCHANGED party_identifiers /\ DOMAIN identifiers' = 1 .. n + 1
    BY <1>2
<1> HIDE DEF Do, Grown
<1> QED BY <1>5, <1>6, <1>8, <1>10, <1>11, <1>12, <1>13, <1>14 DEF Filed

LEMMA GrowStep ==
    ASSUME IdentityInv, NEW c \in Clients, NEW old \in 0 .. Len(identifiers), NEW p \in Parties,
           identifiers' \in Seq(Versions),
           Grown(identifiers, identifiers', Len(identifiers), old),
           identifiers'[Len(identifiers) + 1].party = p,
           StaleNow(stale', identifiers, stale, Len(identifiers), old),
           doing[c].pc # "index", Do(c, "index", p, Len(identifiers) + 1),
           UNCHANGED <<parties, party_identifiers>>
    PROVE  IdentityInv'
<1>1. PICK n \in Nat : n = Len(identifiers)
    BY IdentityFacts
<1>2. Known(identifiers) /\ Traced(identifiers) /\ Counted(identifiers, stale)
      /\ stale \subseteq 1 .. n
    BY <1>1, IdentityFacts DEF IdentityInv, IdentityType
<1>3. Traced(identifiers')
    BY <1>1, <1>2, TracedGrown
<1>4. Counted(identifiers', stale')
    BY <1>1, <1>2, CountedGrown
<1>5. Filed'
    BY FiledGrown
<1>6. doing' \in [Clients -> Calls]
    BY <1>1 DEF Do, IdentityInv, IdentityType, Calls
<1>7. stale' \subseteq DOMAIN identifiers'
    <2>1. DOMAIN identifiers' = 1 .. n + 1
        BY <1>1 DEF Grown
    <2>2. stale' \subseteq stale \cup {n + 1}
        BY <1>1 DEF StaleNow
    <2> QED BY <1>2, <2>1, <2>2
<1>8. IdentityType'
    BY <1>6, <1>7 DEF IdentityInv, IdentityType
<1> QED BY <1>3, <1>4, <1>5, <1>8 DEF IdentityInv

LEMMA AddInsertStep ==
    ASSUME IdentityInv, NEW c \in Clients, AddInsert(c)
    PROVE  IdentityInv'
<1>1. PICK n \in Nat : n = Len(identifiers) /\ DOMAIN identifiers = 1 .. n
    BY IdentityFacts
<1>2. PICK p : p = doing[c].party
    OBVIOUS
<1>3. p \in Parties /\ doing[c].pc = "insert"
    BY <1>2 DEF AddInsert, IdentityInv, Filed
<1>4. NewIdentifier(p) \in Versions
    BY <1>3 DEF NewIdentifier, Versions
<1>5. identifiers \in Seq(Versions) /\ identifiers' = Append(identifiers, NewIdentifier(p))
    BY <1>2 DEF AddInsert, IdentityInv, IdentityType
<1>6. /\ identifiers' \in Seq(Versions) /\ Len(identifiers') = n + 1
      /\ \A j \in 1 .. n : identifiers'[j] = identifiers[j]
      /\ identifiers'[n + 1] = NewIdentifier(p)
    BY <1>1, <1>4, <1>5, AppendProperties
<1>7. DOMAIN identifiers' = 1 .. n + 1
    BY <1>6, LenProperties
<1>8. Grown(identifiers, identifiers', n, 0)
    BY <1>1, <1>6, <1>7 DEF Grown, NewIdentifier
<1>9. StaleNow(stale', identifiers, stale, n, 0)
    BY DEF StaleNow, AddInsert
<1>10. identifiers'[n + 1].party = p
    BY <1>6 DEF NewIdentifier
<1>11. Do(c, "index", p, n + 1) /\ UNCHANGED <<parties, party_identifiers>> /\ doing[c].pc # "index"
    BY <1>1, <1>2, <1>3 DEF AddInsert
<1> QED BY <1>1, <1>3, <1>6, <1>8, <1>9, <1>10, <1>11, GrowStep, SMTT(30)

LEMMA ReplaceStep ==
    ASSUME IdentityInv, NEW c \in Clients, Replace(c)
    PROVE  IdentityInv'
<1>1. PICK n \in Nat : n = Len(identifiers) /\ DOMAIN identifiers = 1 .. n
    BY IdentityFacts
<1>2. PICK old : old = doing[c].id
    OBVIOUS
<1>3. old \in 1 .. n /\ doing[c].pc = "replace" /\ identifiers[old] \in Versions
    <2>1. old \in 1 .. n /\ doing[c].pc = "replace"
        BY <1>1, <1>2 DEF Replace, IdentityInv, Filed
    <2> QED BY <1>1, <2>1, IdentityFacts
<1>4. PICK p : p = identifiers[old].party
    OBVIOUS
<1>5. p \in Parties /\ Successor(old) \in Versions
    BY <1>3, <1>4 DEF Successor, Versions
<1>6. PICK q : q = [identifiers EXCEPT ![old].status = "Inactive"]
    OBVIOUS
<1>7. /\ q \in Seq(Versions) /\ Len(q) = n
      /\ \A j \in 1 .. n : /\ q[j].party = identifiers[j].party
                           /\ q[j].replaces = identifiers[j].replaces
                           /\ q[j].status = IF j = old THEN "Inactive" ELSE identifiers[j].status
    <2>1. [identifiers[old] EXCEPT !.status = "Inactive"] \in Versions
        BY <1>3 DEF Versions
    <2>2. identifiers \in Seq(Versions)
        BY DEF IdentityInv, IdentityType
    <2>3. q = [identifiers EXCEPT ![old] = [identifiers[old] EXCEPT !.status = "Inactive"]]
        BY <1>6
    <2>4. q \in Seq(Versions) /\ Len(q) = n
        BY <1>1, <1>3, <2>1, <2>2, <2>3, ExceptSeq
    <2>5. \A j \in 1 .. n : identifiers[j] \in Versions
        BY <1>1, IdentityFacts
    <2>6. \A j \in 1 .. n : q[j] = IF j = old THEN [identifiers[old] EXCEPT !.status = "Inactive"]
                                   ELSE identifiers[j]
        BY <1>1, <2>3
    <2> QED BY <2>4, <2>5, <2>6 DEF Versions
<1>8. identifiers' = Append(q, Successor(old))
    BY <1>2, <1>6 DEF Replace
<1>9. /\ identifiers' \in Seq(Versions) /\ Len(identifiers') = n + 1
      /\ \A j \in 1 .. n : identifiers'[j] = q[j]
      /\ identifiers'[n + 1] = Successor(old)
    BY <1>5, <1>7, <1>8, AppendProperties
<1>10. DOMAIN identifiers' = 1 .. n + 1
    BY <1>9, LenProperties
<1>11. Grown(identifiers, identifiers', n, old)
    BY <1>1, <1>3, <1>7, <1>9, <1>10 DEF Grown, Successor
<1>12. StaleNow(stale', identifiers, stale, n, old)
    BY <1>1, <1>2, <1>3 DEF StaleNow, Replace
<1>13. identifiers'[n + 1].party = p
    BY <1>4, <1>9 DEF Successor
<1>14. Do(c, "index", p, n + 1) /\ UNCHANGED <<parties, party_identifiers>> /\ doing[c].pc # "index"
    BY <1>1, <1>2, <1>3, <1>4 DEF Replace
<1> QED BY <1>1, <1>3, <1>5, <1>9, <1>11, <1>12, <1>13, <1>14, GrowStep

LEMMA IdentityInvStep == IdentityInv /\ [IdentityNext]_identityVars => IdentityInv'
<1> SUFFICES ASSUME IdentityInv, [IdentityNext]_identityVars PROVE IdentityInv'
    OBVIOUS
<1>1. ASSUME NEW p \in Parties, CreateParty(p) PROVE IdentityInv'
    <2>1. IdentityType'
        BY <1>1 DEF CreateParty, IdentityInv, IdentityType
    <2>2. Filed'
        BY <1>1 DEF CreateParty, IdentityInv, Filed
    <2> QED BY <1>1, <2>1, <2>2 DEF CreateParty, IdentityInv
<1>2. ASSUME NEW c \in Clients, NEW p \in Parties, AddCheck(c, p) PROVE IdentityInv'
    <2>1. doing[c].pc = "idle" /\ Do(c, "insert", p, 0)
          /\ UNCHANGED <<parties, identifiers, party_identifiers, stale>>
        BY <1>2 DEF AddCheck, NoCall
    <2> QED BY <2>1, CallStep
<1>3. ASSUME NEW c \in Clients, NEW i \in DOMAIN identifiers, FindActive(c, i) \/ ReplaceKnown(c, i)
      PROVE  IdentityInv'
    <2>1. doing[c].pc = "idle" /\ Do(c, "replace", identifiers[i].party, i)
          /\ UNCHANGED <<parties, identifiers, party_identifiers, stale>>
        BY <1>3 DEF FindActive, ReplaceKnown, NoCall
    <2>2. PICK p \in Parties : p = identifiers[i].party
        BY IdentityFacts DEF Versions
    <2> QED BY <2>1, <2>2, CallStep
<1>4. CASE UNCHANGED identityVars
    BY <1>4 DEF identityVars, IdentityInv, IdentityType, Filed
<1> QED BY <1>1, <1>2, <1>3, <1>4, AddInsertStep, IndexStep, ReplaceStep DEF IdentityNext

(* An identifier is listed once or about to be. *)
LEMMA ListedOnce ==
    ASSUME IdentityInv, NEW i \in DOMAIN identifiers,
           NEW listed, listed = {k \in DOMAIN party_identifiers[identifiers[i].party] :
                                    party_identifiers[identifiers[i].party][k] = i},
           NEW pending, pending = {c \in Clients : doing[c].pc = "index" /\ doing[c].id = i}
    PROVE  Cardinality(listed) + Cardinality(pending) = 1
<1>1. PICK p \in Parties : p = identifiers[i].party
    BY IdentityFacts DEF Versions
<1>2. CASE \E c \in Clients : doing[c].pc = "index" /\ doing[c].id = i
    <2>1. PICK c \in Clients : doing[c].pc = "index" /\ doing[c].id = i
        BY <1>2
    <2>2. pending = {c}
        BY <2>1 DEF IdentityInv, Filed
    <2>3. listed = {}
        BY <1>1, <2>1 DEF IdentityInv, Filed
    <2>4. Cardinality(pending) = 1 /\ Cardinality(listed) = 0
        BY <2>2, <2>3, FS_Singleton, FS_EmptySet, Zenon
    <2> QED BY <2>4
<1>3. CASE ~ \E c \in Clients : doing[c].pc = "index" /\ doing[c].id = i
    <2>1. PICK k \in DOMAIN party_identifiers[p] : party_identifiers[p][k] = i
        BY <1>1, <1>3 DEF IdentityInv, Filed
    <2>2. listed = {k}
        BY <1>1, <2>1 DEF IdentityInv, Filed
    <2>3. pending = {}
        BY <1>3
    <2>4. Cardinality(pending) = 0 /\ Cardinality(listed) = 1
        BY <2>2, <2>3, FS_Singleton, FS_EmptySet, Zenon
    <2> QED BY <2>4
<1> QED BY <1>2, <1>3

(* For any clients, parties and identifiers, however requests to replace   *)
(* one overtake each other: a version replaces an older, inactive one of   *)
(* its party and is listed once, and an identity has one active version    *)
(* more than there were replacements of a replaced one                     *)
(* (IdentityService add_identifier and replace_identifier).                *)
THEOREM AlwaysTraceable == IdentitySpec => []IdentityTraceable
<1>1. IdentityInit => IdentityInv
    BY IdentityInvInit
<1>2. IdentityInv /\ [IdentityNext]_identityVars => IdentityInv'
    BY IdentityInvStep
<1>3. IdentityInv => IdentityTraceable
    <2> SUFFICES ASSUME IdentityInv PROVE IdentityTraceable
        OBVIOUS
    <2>1. ASSUME NEW i \in DOMAIN identifiers, identifiers[i].replaces # 0
          PROVE  /\ identifiers[i].replaces < i
                 /\ identifiers[identifiers[i].replaces].status = "Inactive"
                 /\ identifiers[identifiers[i].replaces].party = identifiers[i].party
        BY <2>1 DEF IdentityInv, Traced
    <2>2. ASSUME NEW i \in DOMAIN identifiers, identifiers[i].replaces = 0
          PROVE  Cardinality({j \in Line(i) : identifiers[j].status = "Active"}) =
                    IF identifiers[i].status = "Inactive" THEN 1 + Cardinality(stale \cap Line(i))
                    ELSE 0
        <3>1. PICK L : IsLine(L, identifiers, i) /\ Fits(L, identifiers, stale, i)
            BY <2>2 DEF IdentityInv, Counted, HasLine
        <3>2. Line(i) = L
            <4>1. PICK n \in Nat : DOMAIN identifiers = 1 .. n
                BY IdentityFacts
            <4> QED BY <3>1, <4>1, LineIs DEF IdentityInv
        <3> QED BY <3>1, <3>2, Zenon DEF Fits, ActiveIn
    <2>3. ASSUME NEW i \in DOMAIN identifiers
          PROVE  Cardinality({k \in DOMAIN party_identifiers[identifiers[i].party] :
                                 party_identifiers[identifiers[i].party][k] = i})
                 + Cardinality({c \in Clients : doing[c].pc = "index" /\ doing[c].id = i}) = 1
        BY ListedOnce
    <2> QED BY <2>1, <2>2, <2>3, Zenon DEF IdentityTraceable
<1> QED BY <1>1, <1>2, <1>3, PTL DEF IdentitySpec

-----------------------------------------------------------------------------
(* The chart of accounts, for any ids and any number of accounts. *)

Nodes == CoaIds \cup {Root}

ChartEntries == [id : CoaIds, parent : Nodes, status : {"Active", "Inactive"}]

First(q, id, k) ==
    k \in DOMAIN q /\ q[k].id = id /\ \A j \in 1 .. k - 1 : q[j].id # id

(* ParentOf for a chart q. *)
ParentIn(q, id) ==
    IF id # Root /\ \E k \in DOMAIN q : q[k].id = id
    THEN q[CHOOSE k \in DOMAIN q : q[k].id = id /\ \A j \in 1 .. k - 1 : q[j].id # id].parent
    ELSE Root

(* The inductive form of "no circle": the accounts can be ranked so that   *)
(* every parent ranks below its child.                                     *)
IsRank(f, q) ==
    /\ f \in [CoaIds -> Nat]
    /\ \A id \in CoaIds : ParentIn(q, id) # Root => f[ParentIn(q, id)] < f[id]

ChartInv == chart \in Seq(ChartEntries) /\ \E f : IsRank(f, chart)

LEMMA FirstFound ==
    ASSUME NEW n \in Nat, NEW q, DOMAIN q = 1 .. n, NEW id, \E k \in DOMAIN q : q[k].id = id
    PROVE  \E k : First(q, id, k)
<1>1. PICK S : S = {k \in 1 .. n : q[k].id = id}
    OBVIOUS
<1>2. S \in SUBSET Nat /\ S # {}
    BY <1>1
<1>3. PICK k \in S : \A j \in S : k <= j
    BY <1>2, LeastOfSet
<1>4. \A j \in 1 .. k - 1 : q[j].id # id
    BY <1>1, <1>3
<1> QED BY <1>1, <1>3, <1>4 DEF First

LEMMA ParentIs ==
    ASSUME NEW n \in Nat, NEW q, DOMAIN q = 1 .. n, NEW id, id # Root, NEW k, First(q, id, k)
    PROVE  ParentIn(q, id) = q[k].parent
<1>1. PICK c : c = CHOOSE j \in DOMAIN q : q[j].id = id /\ \A i \in 1 .. j - 1 : q[i].id # id
    OBVIOUS
<1>2. First(q, id, c)
    BY <1>1 DEF First
<1>3. c = k
    <2>1. ~(c < k) /\ ~(k < c)
        BY <1>2 DEF First
    <2> QED BY <1>2, <2>1 DEF First
<1> QED BY <1>1, <1>3 DEF First, ParentIn

LEMMA ParentNone ==
    ASSUME NEW q, NEW id, id = Root \/ \A k \in DOMAIN q : q[k].id # id
    PROVE  ParentIn(q, id) = Root
BY DEF ParentIn

LEMMA ParentType ==
    ASSUME NEW q, q \in Seq(ChartEntries), NEW id
    PROVE  ParentIn(q, id) \in Nodes /\ ParentIn(q, Root) = Root
<1>1. PICK n \in Nat : n = Len(q) /\ DOMAIN q = 1 .. n
    BY LenProperties
<1>2. CASE id # Root /\ \E k \in DOMAIN q : q[k].id = id
    <2>1. PICK k : First(q, id, k)
        BY <1>1, <1>2, FirstFound
    <2>2. ParentIn(q, id) = q[k].parent /\ k \in 1 .. Len(q)
        BY <1>1, <1>2, <2>1, ParentIs DEF First
    <2>3. q[k] \in ChartEntries
        BY <2>2, ElementOfSeq
    <2> QED BY <2>2, <2>3, ParentNone DEF ChartEntries
<1>3. CASE ~(id # Root /\ \E k \in DOMAIN q : q[k].id = id)
    BY <1>3 DEF ParentIn, Nodes
<1> QED BY <1>2, <1>3

IsAdded(r, q, account) == r = Append(q, account)

(* An account that is added is seen if it is the first of its id. *)
LEMMA ParentAdded ==
    ASSUME NEW q, q \in Seq(ChartEntries), NEW account, account \in ChartEntries,
           NEW r, IsAdded(r, q, account), NEW id \in CoaIds
    PROVE  ParentIn(r, id) =
              IF id = account.id /\ \A k \in DOMAIN q : q[k].id # id THEN account.parent
              ELSE ParentIn(q, id)
<1>1. PICK n \in Nat : n = Len(q) /\ DOMAIN q = 1 .. n
    BY LenProperties
<1>2. r \in Seq(ChartEntries) /\ Len(r) = n + 1 /\ r[n + 1] = account
      /\ \A j \in 1 .. n : r[j] = q[j]
    BY <1>1, AppendProperties DEF IsAdded
<1>3. PICK m \in Nat : m = n + 1 /\ DOMAIN r = 1 .. m
    BY <1>2, LenProperties
<1>4. id # Root
    BY ChartAssumption
<1>5. CASE \E k \in DOMAIN q : q[k].id = id
    <2>1. PICK k : First(q, id, k)
        BY <1>1, <1>5, FirstFound
    <2>2. First(r, id, k) /\ r[k] = q[k]
        BY <1>1, <1>2, <1>3, <2>1 DEF First
    <2>3. ParentIn(q, id) = q[k].parent
        BY <1>1, <1>4, <2>1, ParentIs
    <2>4. ParentIn(r, id) = r[k].parent
        BY <1>3, <1>4, <2>2, ParentIs
    <2> QED BY <1>5, <2>2, <2>3, <2>4
<1>6. CASE ~(\E k \in DOMAIN q : q[k].id = id) /\ id = account.id
    <2>1. First(r, id, m)
        BY <1>1, <1>2, <1>3, <1>6 DEF First
    <2>2. ParentIn(r, id) = r[m].parent
        BY <1>3, <1>4, <2>1, ParentIs
    <2> QED BY <1>2, <1>3, <1>6, <2>2
<1>7. CASE ~(\E k \in DOMAIN q : q[k].id = id) /\ id # account.id
    <2>1. \A k \in DOMAIN r : r[k].id # id
        BY <1>1, <1>2, <1>3, <1>7
    <2> QED BY <1>7, <2>1, ParentNone
<1> QED BY <1>5, <1>6, <1>7

LEMMA ParentKept ==
    ASSUME NEW n \in Nat, NEW q, DOMAIN q = 1 .. n, NEW r, DOMAIN r = 1 .. n,
           \A k \in 1 .. n : r[k].id = q[k].id /\ r[k].parent = q[k].parent,
           NEW id, id \in CoaIds
    PROVE  ParentIn(r, id) = ParentIn(q, id)
<1>1. id # Root
    BY ChartAssumption
<1>2. CASE \E k \in DOMAIN q : q[k].id = id
    <2>1. PICK k : First(q, id, k)
        BY <1>2, FirstFound
    <2>2. First(r, id, k) /\ r[k].parent = q[k].parent
        BY <2>1 DEF First
    <2>3. ParentIn(q, id) = q[k].parent
        BY <1>1, <2>1, ParentIs
    <2>4. ParentIn(r, id) = r[k].parent
        BY <1>1, <2>2, ParentIs
    <2> QED BY <2>2, <2>3, <2>4
<1>3. CASE ~ \E k \in DOMAIN q : q[k].id = id
    BY <1>3, ParentNone
<1> QED BY <1>2, <1>3

-----------------------------------------------------------------------------
(* The walk to the root. *)

IsWalk(at, start, m) ==
    at = [n \in 0 .. m |-> IF n = 0 THEN start ELSE ParentOf(at[n - 1])]

LEMMA WalkExists ==
    ASSUME NEW m \in Nat, NEW start
    PROVE  \E at : IsWalk(at, start, m)
<1> DEFINE S == {n \in Nat : ~ \E at : IsWalk(at, start, n)}
<1> SUFFICES ASSUME m \in S PROVE FALSE
    OBVIOUS
<1>1. PICK n \in S : \A k \in S : n <= k
    <2>1. S \in SUBSET Nat /\ S # {}
        OBVIOUS
    <2> HIDE DEF S
    <2> QED BY <2>1, LeastOfSet
<1>2. n # 0
    <2>1. PICK at : at = [k \in 0 .. 0 |-> start]
        OBVIOUS
    <2>2. IsWalk(at, start, 0)
        BY <2>1 DEF IsWalk
    <2> QED BY <2>2
<1>3. n - 1 \in Nat /\ n - 1 \notin S
    BY <1>1, <1>2
<1>4. PICK at : IsWalk(at, start, n - 1)
    BY <1>3
<1>5. PICK to : to = [k \in 0 .. n |-> IF k = 0 THEN start ELSE ParentOf(at[k - 1])]
    OBVIOUS
<1>6. ASSUME NEW k \in 0 .. n - 1 PROVE to[k] = at[k]
    <2>1. at[k] = IF k = 0 THEN start ELSE ParentOf(at[k - 1])
        BY <1>4, <1>6 DEF IsWalk
    <2>2. k \in 0 .. n
        BY <1>3
    <2> QED BY <1>5, <2>1, <2>2
<1>7. ASSUME NEW k \in 0 .. n
      PROVE  (IF k = 0 THEN start ELSE ParentOf(at[k - 1])) =
             (IF k = 0 THEN start ELSE ParentOf(to[k - 1]))
    <2>1. k # 0 => k - 1 \in 0 .. n - 1
        BY <1>3
    <2>2. k # 0 => to[k - 1] = at[k - 1]
        BY <1>6, <2>1
    <2> QED BY <2>2
<1>8. IsWalk(to, start, n)
    BY <1>5, <1>7, Zenon DEF IsWalk
<1> QED BY <1>8

LEMMA WalkFacts ==
    ASSUME chart \in Seq(ChartEntries), NEW start \in Nodes,
           NEW m \in Nat, m = Cardinality(CoaIds)
    PROVE  /\ DOMAIN Walk(start) = 0 .. m
           /\ \A n \in 0 .. m : Walk(start)[n] \in Nodes
           /\ Walk(start)[0] = start
           /\ \A n \in 1 .. m : Walk(start)[n] = ParentIn(chart, Walk(start)[n - 1])
<1>1. \E at : IsWalk(at, start, m)
    BY WalkExists
<1>2. IsWalk(Walk(start), start, m)
    BY <1>1, Zenon DEF Walk, IsWalk
<1>3. PICK at : at = Walk(start)
    OBVIOUS
<1>4. /\ DOMAIN at = 0 .. m /\ at[0] = start
      /\ \A n \in 1 .. m : at[n] = ParentOf(at[n - 1])
    BY <1>2, <1>3 DEF IsWalk
<1>5. \A x : ParentOf(x) = ParentIn(chart, x)
    BY Zenon DEF ParentOf, ParentIn, find_by_id, FirstWith, InChart
<1>6. \A n \in 1 .. m : at[n] = ParentIn(chart, at[n - 1])
    BY <1>4, <1>5
<1>7. \A n \in 0 .. m : at[n] \in Nodes
    BY <1>4, <1>6, ParentType
<1> QED BY <1>3, <1>4, <1>6, <1>7

(* Towards the root the rank falls. *)
LEMMA WalkDescends ==
    ASSUME NEW q, q \in Seq(ChartEntries), NEW f, IsRank(f, q), NEW m \in Nat, NEW at,
           \A n \in 0 .. m : at[n] \in Nodes,
           \A n \in 1 .. m : at[n] = ParentIn(q, at[n - 1]),
           NEW n \in 0 .. m, NEW k \in 0 .. n - 1
    PROVE  at[n] = Root \/ (at[k] # Root /\ f[at[n]] < f[at[k]])
<1> DEFINE Falls(i) == at[i] = Root \/ (at[k] # Root /\ f[at[i]] < f[at[k]])
           S == {i \in k + 1 .. m : ~Falls(i)}
<1> SUFFICES ASSUME n \in S PROVE FALSE
    OBVIOUS
<1>1. PICK i \in S : \A j \in S : i <= j
    <2>1. S \in SUBSET Nat /\ S # {}
        OBVIOUS
    <2> HIDE DEF S
    <2> QED BY <2>1, LeastOfSet
<1>2. i \in 1 .. m /\ at[i] = ParentIn(q, at[i - 1]) /\ i - 1 \in 0 .. m /\ at[i - 1] \in Nodes
      /\ at[i] \in Nodes /\ at[k] \in Nodes
    OBVIOUS
<1>3. at[i] = Root \/ (at[i - 1] \in CoaIds /\ f[at[i]] < f[at[i - 1]])
    <2>1. CASE at[i - 1] = Root
        BY <1>2, <2>1, ParentType
    <2>2. CASE at[i - 1] \in CoaIds
        BY <1>2, <2>2 DEF IsRank
    <2> QED BY <1>2, <2>1, <2>2 DEF Nodes
<1>4. \A x \in CoaIds : f[x] \in Nat /\ x # Root
    BY ChartAssumption DEF IsRank
<1>5. CASE i = k + 1
    <2>1. i - 1 = k
        BY <1>5
    <2> QED BY <1>3, <1>4, <2>1
<1>6. CASE i # k + 1
    <2>1. i - 1 \in k + 1 .. m /\ i - 1 \notin S
        BY <1>1, <1>6
    <2>2. Falls(i - 1)
        BY <2>1
    <2>3. at[i] # Root /\ ~Falls(i)
        OBVIOUS
    <2>4. at[i - 1] \in CoaIds /\ at[i] \in CoaIds /\ at[k] \in CoaIds
        BY <1>2, <1>3, <1>4, <2>2, <2>3 DEF Nodes
    <2> QED BY <1>3, <1>4, <2>2, <2>3, <2>4
<1> QED BY <1>5, <1>6

-----------------------------------------------------------------------------
(* What the walk of an admitted account passes keeps its rank; everything  *)
(* else, the account included, is ranked above it.                         *)
LEMMA RankAdded ==
    ASSUME NEW q, q \in Seq(ChartEntries), NEW f, IsRank(f, q),
           NEW account, account \in ChartEntries, NEW r, IsAdded(r, q, account),
           NEW m \in Nat, NEW at, \A n \in 0 .. m : at[n] \in Nodes,
           at[0] = account.parent, \A n \in 1 .. m : at[n] = ParentIn(q, at[n - 1]),
           NEW e \in 0 .. m, at[e] = Root, \A n \in 0 .. e - 1 : at[n] # account.id
    PROVE  \E g : IsRank(g, r)
<1>1. PICK U : U = {at[n] : n \in 0 .. e}
    OBVIOUS
<1>2. account.parent \in U /\ account.id \notin U
    <2>1. account.id \in CoaIds /\ account.id # Root
        BY ChartAssumption DEF ChartEntries
    <2> QED BY <1>1, <2>1
<1>3. ASSUME NEW x \in U PROVE ParentIn(q, x) \in U
    <2>1. PICK n \in 0 .. e : x = at[n]
        BY <1>1, <1>3
    <2>2. CASE n = e
        BY <1>1, <2>1, <2>2, ParentType
    <2>3. CASE n # e
        <3>1. n + 1 \in 0 .. e /\ n + 1 \in 1 .. m /\ (n + 1) - 1 = n
            BY <2>3
        <3>2. at[n + 1] = ParentIn(q, x)
            BY <2>1, <3>1
        <3> QED BY <1>1, <3>1, <3>2
    <2> QED BY <2>2, <2>3
<1>4. f \in [CoaIds -> Nat]
    BY DEF IsRank
<1>5. PICK d \in Nat : d > 0 /\ (account.parent \in CoaIds => d > f[account.parent])
    <2>1. CASE account.parent \in CoaIds
        <3>1. f[account.parent] + 1 \in Nat /\ f[account.parent] + 1 > f[account.parent]
              /\ f[account.parent] + 1 > 0
            BY <1>4, <2>1
        <3> QED BY <3>1
    <2>2. CASE account.parent \notin CoaIds
        BY <2>2
    <2> QED BY <2>1, <2>2
<1>6. PICK g : g = [x \in CoaIds |-> IF x \in U THEN f[x] ELSE f[x] + d]
    OBVIOUS
<1>7. g \in [CoaIds -> Nat]
    BY <1>4, <1>6
<1>8. ASSUME NEW x \in CoaIds, ParentIn(r, x) # Root PROVE g[ParentIn(r, x)] < g[x]
    <2>1. PICK y : y = ParentIn(r, x)
        OBVIOUS
    <2>2. \/ x = account.id /\ y = account.parent
          \/ y = ParentIn(q, x)
        <3>1. ParentIn(r, x) =
                 IF x = account.id /\ \A k \in DOMAIN q : q[k].id # x THEN account.parent
                 ELSE ParentIn(q, x)
            BY ParentAdded
        <3> QED BY <2>1, <3>1, Zenon
    <2>3. y \in CoaIds
        BY <1>8, <2>1, <2>2, ParentType DEF Nodes, ChartEntries
    <2>4. f[x] \in Nat /\ f[y] \in Nat
        BY <1>4, <2>3
    <2>5. CASE x = account.id /\ y = account.parent
        <3>1. g[x] = f[x] + d /\ g[y] = f[y] /\ d > f[y]
            BY <1>2, <1>5, <1>6, <2>3, <2>5
        <3> QED BY <2>1, <2>4, <3>1
    <2>6. CASE y = ParentIn(q, x)
        <3>1. f[y] < f[x]
            BY <1>8, <2>1, <2>6 DEF IsRank
        <3>2. x \in U => y \in U
            BY <1>3, <2>6
        <3>3. g[x] = (IF x \in U THEN f[x] ELSE f[x] + d)
              /\ g[y] = (IF y \in U THEN f[y] ELSE f[y] + d)
            BY <1>6, <2>3
        <3> QED BY <2>1, <2>4, <3>1, <3>2, <3>3
    <2> QED BY <2>2, <2>5, <2>6
<1> QED BY <1>7, <1>8 DEF IsRank

LEMMA ChartInvInit == ChartInit => ChartInv
<1> SUFFICES ASSUME ChartInit PROVE ChartInv
    OBVIOUS
<1>1. chart \in Seq(ChartEntries) /\ DOMAIN chart = {}
    BY DEF ChartInit
<1>2. \A id \in CoaIds : ParentIn(chart, id) = Root
    BY <1>1, ParentNone
<1>3. PICK f : f = [id \in CoaIds |-> 0]
    OBVIOUS
<1>4. IsRank(f, chart)
    BY <1>2, <1>3 DEF IsRank
<1> QED BY <1>1, <1>4 DEF ChartInv

LEMMA ChartInvStep == ChartInv /\ [ChartNext]_chart => ChartInv'
<1> SUFFICES ASSUME ChartInv, [ChartNext]_chart PROVE ChartInv'
    OBVIOUS
<1>0. chart \in Seq(ChartEntries)
    BY DEF ChartInv
<1>1. PICK f : IsRank(f, chart)
    BY DEF ChartInv
<1>2. ASSUME NEW id \in CoaIds, NEW parent \in Nodes, AddAccount(CoaAccount(id, parent))
      PROVE  ChartInv'
    <2>1. PICK account : account = CoaAccount(id, parent)
        OBVIOUS
    <2>2. account \in ChartEntries /\ account.id = id /\ account.parent = parent
        BY <2>1 DEF CoaAccount, ChartEntries
    <2>3. chart' = Append(chart, account) /\ EndsAtRoot(parent, {id})
        BY <1>2, <2>1, <2>2 DEF AddAccount, validate_no_circular_ref
    <2>4. PICK m \in Nat : m = Cardinality(CoaIds)
        BY ChartAssumption, FS_CardinalityType
    <2>5. PICK at : at = Walk(parent)
        OBVIOUS
    <2>6. /\ DOMAIN at = 0 .. m /\ at[0] = parent
          /\ \A n \in 0 .. m : at[n] \in Nodes
          /\ \A n \in 1 .. m : at[n] = ParentIn(chart, at[n - 1])
        BY <1>0, <2>4, <2>5, WalkFacts
    <2>7. PICK e \in 0 .. m : at[e] = Root /\ \A n \in 0 .. e - 1 : at[n] # id
        BY <2>3, <2>5, <2>6 DEF EndsAtRoot
    <2>8. PICK r : r = Append(chart, account)
        OBVIOUS
    <2>9. \E g : IsRank(g, r)
        BY <1>0, <1>1, <2>2, <2>6, <2>7, <2>8, RankAdded DEF IsAdded
    <2>10. r \in Seq(ChartEntries)
        BY <1>0, <2>2, <2>8, AppendProperties
    <2> QED BY <2>3, <2>8, <2>9, <2>10 DEF ChartInv
<1>3. ASSUME NEW id \in CoaIds, Deactivate(id) PROVE ChartInv'
    <2>1. PICK n \in Nat : n = Len(chart) /\ DOMAIN chart = 1 .. n
        BY <1>0, LenProperties
    <2>2. PICK k : k = FirstWith(id)
        OBVIOUS
    <2>3. k \in 1 .. n
        <3>1. PICK j : First(chart, id, j)
            BY <1>3, <2>1, FirstFound DEF Deactivate, InChart
        <3> QED BY <2>1, <2>2, <3>1 DEF First, FirstWith
    <2>4. PICK new : new = [chart[k] EXCEPT !.status = "Inactive"]
        OBVIOUS
    <2>5. chart' = [chart EXCEPT ![k] = new]
        BY <1>3, <2>2, <2>4 DEF Deactivate
    <2>6. \A j \in 1 .. n : chart[j] \in ChartEntries
        BY <1>0, <2>1, ElementOfSeq
    <2>7. new \in ChartEntries /\ new.id = chart[k].id /\ new.parent = chart[k].parent
        BY <2>3, <2>4, <2>6 DEF ChartEntries
    <2>8. /\ chart' \in Seq(ChartEntries) /\ Len(chart') = n
          /\ \A j \in 1 .. n : chart'[j] = IF j = k THEN new ELSE chart[j]
        BY <1>0, <2>1, <2>3, <2>5, <2>7, ExceptSeq
    <2>9. DOMAIN chart' = 1 .. n
        BY <2>8, LenProperties
    <2>10. \A j \in 1 .. n : chart'[j].id = chart[j].id /\ chart'[j].parent = chart[j].parent
        BY <2>7, <2>8
    <2>11. \A x \in CoaIds : ParentIn(chart', x) = ParentIn(chart, x)
        BY <2>1, <2>9, <2>10, ParentKept
    <2>12. IsRank(f, chart')
        BY <1>1, <2>11 DEF IsRank
    <2> QED BY <2>8, <2>12 DEF ChartInv
<1>4. CASE UNCHANGED chart
    BY <1>4 DEF ChartInv
<1> QED BY <1>2, <1>3, <1>4 DEF ChartNext, Nodes

(* The chart stays a hierarchy, for any ids and however often accounts are *)
(* added, before their parents or again: no account is its own ancestor,   *)
(* and validate_no_circular_ref refuses exactly the accounts that would be *)
(* (ChartOfAccounts add_account and deactivate).                           *)
THEOREM HierarchyAlwaysEnds == ChartSpec => []HierarchyEnds
<1>1. ChartInv => HierarchyEnds
    <2> SUFFICES ASSUME ChartInv PROVE HierarchyEnds
        OBVIOUS
    <2>0. chart \in Seq(ChartEntries)
        BY DEF ChartInv
    <2>1. PICK f : IsRank(f, chart)
        BY DEF ChartInv
    <2>2. PICK m \in Nat : m = Cardinality(CoaIds)
        BY ChartAssumption, FS_CardinalityType
    <2>3. ASSUME NEW id \in CoaIds, id \in Ancestors(id) PROVE FALSE
        <3>1. PICK at : at = Walk(id)
            OBVIOUS
        <3>2. /\ DOMAIN at = 0 .. m /\ at[0] = id
              /\ \A n \in 0 .. m : at[n] \in Nodes
              /\ \A n \in 1 .. m : at[n] = ParentIn(chart, at[n - 1])
            BY <2>0, <2>2, <3>1, WalkFacts DEF Nodes
        <3>3. PICK n \in 1 .. m : at[n] = id
            BY <2>2, <2>3, <3>1 DEF Ancestors
        <3>4. id # Root /\ f[id] \in Nat
            BY <2>1, ChartAssumption DEF IsRank
        <3>5. at[n] = Root \/ (at[0] # Root /\ f[at[n]] < f[at[0]])
            <4>1. n \in 0 .. m /\ 0 \in 0 .. n - 1
                OBVIOUS
            <4> QED BY <2>0, <2>1, <3>2, <4>1, WalkDescends
        <3> QED BY <3>2, <3>3, <3>4, <3>5
    <2>4. ASSUME NEW id \in CoaIds, NEW parent \in CoaIds
          PROVE  validate_no_circular_ref(CoaAccount(id, parent))
                    <=> id # parent /\ id \notin Ancestors(parent)
        <3>1. PICK at : at = Walk(parent)
            OBVIOUS
        <3>2. /\ DOMAIN at = 0 .. m /\ at[0] = parent
              /\ \A n \in 0 .. m : at[n] \in Nodes
              /\ \A n \in 1 .. m : at[n] = ParentIn(chart, at[n - 1])
            BY <2>0, <2>2, <3>1, WalkFacts DEF Nodes
        <3>3. validate_no_circular_ref(CoaAccount(id, parent)) <=>
                 \E n \in 0 .. m : /\ at[n] = Root
                                   /\ \A k \in 0 .. n - 1 :
                                         at[k] \notin {id} \cup {at[j] : j \in 0 .. k - 1}
            <4>1. CoaAccount(id, parent).id = id /\ CoaAccount(id, parent).parent = parent
                BY DEF CoaAccount
            <4>2. validate_no_circular_ref(CoaAccount(id, parent)) <=> EndsAtRoot(parent, {id})
                BY <4>1 DEF validate_no_circular_ref
            <4>3. EndsAtRoot(parent, {id}) <=>
                     \E n \in DOMAIN at : /\ at[n] = Root
                                          /\ \A k \in 0 .. n - 1 :
                                                at[k] \notin {id} \cup {at[j] : j \in 0 .. k - 1}
                <5>1. EndsAtRoot(parent, {id}) <=>
                         \E n \in DOMAIN Walk(parent) :
                            /\ Walk(parent)[n] = Root
                            /\ \A k \in 0 .. n - 1 :
                                  Walk(parent)[k] \notin {id} \cup {Walk(parent)[j] : j \in 0 .. k - 1}
                    BY Zenon DEF EndsAtRoot
                <5> QED BY <3>1, <5>1
            <4>4. DOMAIN at = 0 .. m
                BY <3>2
            <4> QED BY <4>2, <4>3, <4>4, Zenon
        <3>4. id # Root /\ parent # Root
            BY ChartAssumption
        <3>5. id \in Ancestors(parent) <=> \E n \in 1 .. m : at[n] = id
            BY <2>2, <3>1, <3>4 DEF Ancestors
        <3>6. \A n \in 0 .. m : \A k \in 0 .. n - 1 :
                 at[n] = Root \/ (at[k] # Root /\ f[at[n]] < f[at[k]])
            BY <2>0, <2>1, <3>2, WalkDescends
        <3>7. ASSUME NEW n \in 0 .. m, at[n] = Root,
                     \A k \in 0 .. n - 1 : at[k] \notin {id} \cup {at[j] : j \in 0 .. k - 1}
              PROVE  id # parent /\ \A i \in 1 .. m : at[i] # id
            <4>1. n # 0 /\ at[0] # id
                BY <3>2, <3>4, <3>7
            <4>2. ASSUME NEW i \in 1 .. m PROVE at[i] # id
                <5>1. CASE i < n
                    BY <3>7, <5>1
                <5>2. CASE i = n
                    BY <3>4, <3>7, <5>2
                <5>3. CASE i > n
                    <6>1. n \in 0 .. i - 1 /\ i \in 0 .. m
                        BY <5>3
                    <6>2. at[i] = Root
                        BY <3>6, <3>7, <6>1
                    <6> QED BY <3>4, <6>2
                <5> QED BY <5>1, <5>2, <5>3
            <4> QED BY <3>2, <4>1, <4>2
        <3>8. ASSUME id # parent, \A i \in 1 .. m : at[i] # id
              PROVE  \E n \in 0 .. m : /\ at[n] = Root
                                       /\ \A k \in 0 .. n - 1 :
                                             at[k] \notin {id} \cup {at[j] : j \in 0 .. k - 1}
            <4>1. \A i, j \in 0 .. m : at[i] \in CoaIds /\ at[i] = at[j] => i = j
                <5>1. \A x \in CoaIds : f[x] \in Nat /\ x # Root
                    BY <2>1, ChartAssumption DEF IsRank
                <5>2. ASSUME NEW i \in 0 .. m, NEW j \in 0 .. i - 1, at[i] \in CoaIds
                      PROVE  at[i] # at[j]
                    BY <3>6, <5>1, <5>2
                <5>3. ASSUME NEW i \in 0 .. m, NEW j \in 0 .. m, at[i] \in CoaIds, at[i] = at[j],
                             i # j
                      PROVE  FALSE
                    <6>1. i \in 0 .. j - 1 \/ j \in 0 .. i - 1
                        BY <5>3
                    <6> QED BY <5>2, <5>3, <6>1
                <5> QED BY <5>3
            <4>2. PICK S : S = {i \in 0 .. m : at[i] = Root}
                OBVIOUS
            <4>3. S # {}
                <5> SUFFICES ASSUME S = {} PROVE FALSE
                    OBVIOUS
                <5>1. \A i \in 0 .. m : at[i] \in CoaIds
                    BY <3>2, <4>2 DEF Nodes
                <5>2. PICK h : h = [i \in 0 .. m |-> at[i]]
                    OBVIOUS
                <5>3. h \in [0 .. m -> CoaIds]
                    BY <5>1, <5>2
                <5>4. IsFiniteSet(0 .. m) /\ Cardinality(0 .. m) = m + 1
                    BY FS_Interval
                <5>5. \E x, y \in 0 .. m : x # y /\ h[x] = h[y]
                    BY <2>2, <5>3, <5>4, ChartAssumption, FS_PigeonHole
                <5> QED BY <4>1, <5>1, <5>2, <5>5
            <4>4. PICK n \in S : \A i \in S : n <= i
                <5>1. S \in SUBSET Nat
                    BY <4>2
                <5> QED BY <4>3, <5>1, LeastOfSet
            <4>5. n \in 0 .. m /\ at[n] = Root
                BY <4>2
            <4>6. ASSUME NEW k \in 0 .. n - 1
                  PROVE  at[k] \notin {id} \cup {at[j] : j \in 0 .. k - 1}
                <5>1. k \in 0 .. m /\ at[k] \in CoaIds
                    BY <3>2, <4>2, <4>4, <4>5 DEF Nodes
                <5>2. at[k] # id
                    BY <3>2, <3>8, <5>1
                <5>3. \A j \in 0 .. k - 1 : at[k] # at[j]
                    BY <4>1, <5>1
                <5> QED BY <5>2, <5>3
            <4> QED BY <4>5, <4>6
        <3> QED BY <3>3, <3>5, <3>7, <3>8
    <2> QED BY <2>3, <2>4 DEF HierarchyEnds
<1> QED BY <1>1, ChartInvInit, ChartInvStep, PTL DEF ChartSpec
=============================================================================
