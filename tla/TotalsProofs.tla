---------------------------- MODULE TotalsProofs ----------------------------
(* What changes a Total, and by how much. *)
EXTENDS Totals, FiniteSetTheorems, TLAPS

(* A weight n contributes n tokens. *)
LEMMA TokensCount ==
  ASSUME NEW s, NEW n \in Nat
  PROVE  /\ IsFiniteSet(Tokens(s, n))
         /\ Cardinality(Tokens(s, n)) = n
<1>1. IsFiniteSet({s}) /\ Cardinality({s}) = 1
  BY FS_Singleton
<1>2. IsFiniteSet(1 .. n) /\ Cardinality(1 .. n) = n
  BY FS_Interval
<1>3. /\ IsFiniteSet({s} \X (1 .. n))
      /\ Cardinality({s} \X (1 .. n)) = Cardinality({s}) * Cardinality(1 .. n)
  BY <1>1, <1>2, FS_Product
<1> QED
  BY <1>1, <1>2, <1>3 DEF Tokens

(* Finitely many weights have finitely many tokens. *)
LEMMA TokensFinite ==
  ASSUME NEW S, IsFiniteSet(S), NEW f \in [S -> Nat]
  PROVE  IsFiniteSet(UNION {Tokens(s, f[s]) : s \in S})
<1> DEFINE P == {Tokens(s, f[s]) : s \in S}
           g == [s \in S |-> Tokens(s, f[s])]
<1>1. g \in Surjection(S, P)
  BY DEF Surjection
<1>2. IsFiniteSet(P)
  BY <1>1, FS_Surjection
<1>3. \A T \in P : IsFiniteSet(T)
  BY TokensCount
<1> QED
  BY <1>2, <1>3, FS_UNION

(* One weight can be set apart: the total is that weight and the others.   *)
LEMMA TotalSplit ==
  ASSUME NEW S, IsFiniteSet(S), NEW f \in [S -> Nat], NEW t \in S
  PROVE  LET rest == UNION {Tokens(s, f[s]) : s \in S \ {t}}
         IN  /\ Cardinality(rest) \in Nat
             /\ Total(S, f) = Cardinality(rest) + f[t]
<1> DEFINE all  == UNION {Tokens(s, f[s]) : s \in S}
           rest == UNION {Tokens(s, f[s]) : s \in S \ {t}}
           own  == Tokens(t, f[t])
<1>1. all = rest \cup own
  OBVIOUS
<1>2. rest \cap own = {}
  BY DEF Tokens
<1>3. IsFiniteSet(all)
  BY TokensFinite
<1>4. IsFiniteSet(rest) /\ rest \in SUBSET all
  BY <1>1, <1>3, FS_Subset
<1>5. IsFiniteSet(own) /\ Cardinality(own) = f[t]
  BY TokensCount
<1>6. Cardinality(rest \cup own)
        = Cardinality(rest) + Cardinality(own) - Cardinality(rest \cap own)
  BY <1>4, <1>5, FS_Union
<1>7. Cardinality(rest) \in Nat
  BY <1>4, FS_CardinalityType
<1>8. Cardinality(rest \cap own) = 0
  BY <1>2, FS_EmptySet
<1>9. Total(S, f) = Cardinality(all) /\ f[t] \in Nat
  BY DEF Total
<1>10. Total(S, f) = Cardinality(rest) + f[t]
  <2> HIDE DEF all, rest, own
  <2> QED BY <1>1, <1>5, <1>6, <1>7, <1>8, <1>9
<1> QED
  BY <1>7, <1>10

(* A total is a natural number and at least each of its weights. *)
LEMMA TotalType ==
  ASSUME NEW S, IsFiniteSet(S), NEW f \in [S -> Nat]
  PROVE  /\ Total(S, f) \in Nat
         /\ \A t \in S : f[t] <= Total(S, f)
<1>1. Total(S, f) \in Nat
  BY TokensFinite, FS_CardinalityType DEF Total
<1>2. ASSUME NEW t \in S PROVE f[t] <= Total(S, f)
  <2> DEFINE rest == UNION {Tokens(s, f[s]) : s \in S \ {t}}
  <2>1. Cardinality(rest) \in Nat /\ Total(S, f) = Cardinality(rest) + f[t]
    BY TotalSplit
  <2> HIDE DEF rest
  <2> QED BY <2>1
<1> QED
  BY <1>1, <1>2

(* Changing one weight changes the total by the same amount. *)
LEMMA TotalChange ==
  ASSUME NEW S, IsFiniteSet(S), NEW f \in [S -> Nat], NEW g \in [S -> Nat],
         NEW t \in S, \A s \in S \ {t} : g[s] = f[s]
  PROVE  Total(S, g) = Total(S, f) - f[t] + g[t]
<1> DEFINE restF == UNION {Tokens(s, f[s]) : s \in S \ {t}}
           restG == UNION {Tokens(s, g[s]) : s \in S \ {t}}
<1>1. restG = restF
  OBVIOUS
<1>2. /\ Cardinality(restF) \in Nat
      /\ Total(S, f) = Cardinality(restF) + f[t]
  BY TotalSplit
<1>3. Total(S, g) = Cardinality(restG) + g[t]
  BY TotalSplit
<1> HIDE DEF restF, restG
<1> QED
  BY <1>1, <1>2, <1>3

(* Nothing adds up to nothing. *)
LEMMA TotalZero ==
  ASSUME NEW S
  PROVE  Total(S, [s \in S |-> 0]) = 0
<1>1. UNION {Tokens(s, [x \in S |-> 0][s]) : s \in S} = {}
  BY DEF Tokens
<1> QED
  BY <1>1, FS_EmptySet DEF Total

(* A further weight adds to the total. *)
LEMMA TotalExtend ==
  ASSUME NEW S, IsFiniteSet(S), NEW f \in [S -> Nat], NEW t, t \notin S,
         NEW g \in [S \cup {t} -> Nat], \A s \in S : g[s] = f[s]
  PROVE  Total(S, f) \in Nat /\ Total(S \cup {t}, g) = Total(S, f) + g[t]
<1> DEFINE T == S \cup {t}
           rest == UNION {Tokens(s, g[s]) : s \in T \ {t}}
<1>1. IsFiniteSet(T)
  BY FS_AddElement
<1>2. Total(T, g) = Cardinality(rest) + g[t]
  BY <1>1, TotalSplit
<1>3. rest = UNION {Tokens(s, f[s]) : s \in S}
  OBVIOUS
<1>4. Cardinality(rest) = Total(S, f)
  BY <1>3 DEF Total
<1>5. Total(S, f) \in Nat
  BY TotalType
<1> HIDE DEF rest
<1> QED
  BY <1>2, <1>4, <1>5

(* f[s] is the number of elements of X[s], one of the disjoint finite sets *)
(* that make up U.                                                         *)
CountsParts(S, X, f, U) ==
    /\ \A s \in S : IsFiniteSet(X[s]) /\ f[s] = Cardinality(X[s])
    /\ \A s, t \in S : s # t => X[s] \cap X[t] = {}
    /\ \A u : u \in U <=> \E s \in S : u \in X[s]

(* The sizes of the parts add up to the size of the whole.  The n-th token *)
(* of s stands for the n-th element of X[s].                               *)
LEMMA TotalOfSizes ==
  ASSUME NEW S, IsFiniteSet(S), NEW X, NEW f, NEW U, CountsParts(S, X, f, U)
  PROVE  IsFiniteSet(U) /\ Total(S, f) = Cardinality(U)
<1> DEFINE b == [s \in S |-> CHOOSE m : m \in Bijection(1 .. f[s], X[s])]
           tokens == UNION {Tokens(s, f[s]) : s \in S}
           h == [p \in tokens |-> b[p[1]][p[2]]]
<1>1. \A s \in S : f[s] \in Nat
  BY FS_CardinalityType DEF CountsParts
<1>2. ASSUME NEW s \in S PROVE b[s] \in Bijection(1 .. f[s], X[s])
  <2>1. \E m : m \in Bijection(1 .. f[s], X[s])
    BY FS_CardinalityType DEF CountsParts, ExistsBijection
  <2> QED BY <2>1
<1>3. IsFiniteSet(tokens)
  <2> DEFINE g == [s \in S |-> f[s]]
  <2>1. g \in [S -> Nat] /\ tokens = UNION {Tokens(s, g[s]) : s \in S}
    BY <1>1
  <2> HIDE DEF g
  <2> QED BY <2>1, TokensFinite
<1>4. ASSUME NEW p \in tokens
      PROVE  p[1] \in S /\ p[2] \in 1 .. f[p[1]] /\ p = <<p[1], p[2]>>
  BY DEF Tokens
<1>5. ASSUME NEW s \in S, NEW n \in 1 .. f[s] PROVE <<s, n>> \in tokens
  BY DEF Tokens
<1>6. ASSUME NEW s \in S
      PROVE  /\ \A n \in 1 .. f[s] : b[s][n] \in X[s]
             /\ \A m, n \in 1 .. f[s] : b[s][m] = b[s][n] => m = n
             /\ \A x \in X[s] : \E n \in 1 .. f[s] : b[s][n] = x
  <2> DEFINE m == b[s]  n == f[s]
  <2>1. m \in Bijection(1 .. n, X[s])
    BY <1>2
  <2> HIDE DEF b, m, n
  <2>2. /\ \A i \in 1 .. n : m[i] \in X[s]
        /\ \A i, j \in 1 .. n : m[i] = m[j] => i = j
        /\ \A x \in X[s] : \E i \in 1 .. n : m[i] = x
    BY <2>1 DEF Bijection, Injection, Surjection, IsInjective
  <2> QED BY <2>2 DEF m, n
<1> HIDE DEF b, tokens
<1>7. h \in [tokens -> U]
  BY <1>4, <1>6 DEF CountsParts
<1>8. ASSUME NEW p \in tokens, NEW q \in tokens, h[p] = h[q] PROVE p = q
  <2>1. /\ p[1] \in S /\ p[2] \in 1 .. f[p[1]] /\ p = <<p[1], p[2]>>
        /\ q[1] \in S /\ q[2] \in 1 .. f[q[1]] /\ q = <<q[1], q[2]>>
    BY <1>4
  <2>2. b[p[1]][p[2]] \in X[p[1]] /\ b[q[1]][q[2]] \in X[q[1]]
    BY <1>6, <2>1
  <2>3. b[p[1]][p[2]] = b[q[1]][q[2]]
    BY <1>8
  <2>4. p[1] = q[1]
    BY <2>1, <2>2, <2>3 DEF CountsParts
  <2>5. p[2] = q[2]
    BY <1>6, <2>1, <2>3, <2>4
  <2> QED BY <2>1, <2>4, <2>5
<1>9. ASSUME NEW x \in U PROVE \E p \in tokens : h[p] = x
  <2>1. PICK s \in S : x \in X[s]
    BY DEF CountsParts
  <2>2. PICK n \in 1 .. f[s] : b[s][n] = x
    BY <1>6, <2>1
  <2>3. <<s, n>> \in tokens
    BY <1>5
  <2> QED BY <2>2, <2>3
<1> HIDE DEF h
<1>10. ExistsBijection(tokens, U)
  BY <1>7, <1>8, <1>9 DEF ExistsBijection, Bijection, Injection, Surjection, IsInjective
<1>11. IsFiniteSet(U) /\ Cardinality(U) = Cardinality(tokens)
  BY <1>3, <1>10, FS_Bijection
<1> QED
  BY <1>11 DEF Total, tokens

(* A renaming of the indices leaves the total as it is. *)
LEMMA TotalRenamed ==
  ASSUME NEW S, IsFiniteSet(S), NEW f \in [S -> Nat], NEW T, NEW g, NEW r,
         r \in Bijection(S, T), \A s \in S : g[r[s]] = f[s]
  PROVE  Total(T, g) = Total(S, f)
<1> DEFINE ts == UNION {Tokens(s, f[s]) : s \in S}
           tt == UNION {Tokens(t, g[t]) : t \in T}
           h == [p \in ts |-> <<r[p[1]], p[2]>>]
<1>1. /\ \A s \in S : r[s] \in T
      /\ \A s, u \in S : r[s] = r[u] => s = u
      /\ \A t \in T : \E s \in S : r[s] = t
  BY DEF Bijection, Injection, Surjection, IsInjective
<1>2. ASSUME NEW p
      PROVE  p \in ts <=> \E s \in S : \E n \in 1 .. f[s] : p = <<s, n>>
  BY DEF Tokens
<1>3. ASSUME NEW p
      PROVE  p \in tt <=> \E t \in T : \E n \in 1 .. g[t] : p = <<t, n>>
  BY DEF Tokens
<1>4. IsFiniteSet(ts)
  BY TokensFinite
<1> HIDE DEF ts, tt
<1>5. h \in [ts -> tt]
  BY <1>1, <1>2, <1>3
<1>6. ASSUME NEW p \in ts, NEW q \in ts, h[p] = h[q] PROVE p = q
  BY <1>1, <1>2, <1>6
<1>7. ASSUME NEW q \in tt PROVE \E p \in ts : h[p] = q
  <2>1. PICK t \in T : \E n \in 1 .. g[t] : q = <<t, n>>
    BY <1>3
  <2>2. PICK n \in 1 .. g[t] : q = <<t, n>>
    BY <2>1
  <2>3. PICK s \in S : r[s] = t
    BY <1>1
  <2>4. <<s, n>> \in ts
    BY <1>2, <2>2, <2>3
  <2> QED BY <2>2, <2>3, <2>4
<1> HIDE DEF h
<1>8. ExistsBijection(ts, tt)
  BY <1>5, <1>6, <1>7 DEF ExistsBijection, Bijection, Injection, Surjection, IsInjective
<1> QED
  BY <1>4, <1>8, FS_Bijection DEF Total, ts, tt

-----------------------------------------------------------------------------
(* The two sides of a signed weight. *)
LEMMA SidesType ==
  ASSUME NEW S, NEW f \in [S -> Int]
  PROVE  /\ Gains(S, f) \in [S -> Nat]
         /\ Losses(S, f) \in [S -> Nat]
         /\ \A s \in S : Gains(S, f)[s] - Losses(S, f)[s] = f[s]
  BY DEF Gains, Losses

(* A net total is an integer. *)
LEMMA NetTotalType ==
  ASSUME NEW S, IsFiniteSet(S), NEW f \in [S -> Int]
  PROVE  NetTotal(S, f) \in Int
<1>1. Total(S, Gains(S, f)) \in Nat /\ Total(S, Losses(S, f)) \in Nat
  BY SidesType, TotalType
<1> QED
  BY <1>1 DEF NetTotal

(* Changing one weight changes the net total by the same amount. *)
LEMMA NetTotalChange ==
  ASSUME NEW S, IsFiniteSet(S), NEW f \in [S -> Int], NEW g \in [S -> Int],
         NEW t \in S, \A s \in S \ {t} : g[s] = f[s]
  PROVE  NetTotal(S, g) = NetTotal(S, f) - f[t] + g[t]
<1> DEFINE fg == Gains(S, f)   fl == Losses(S, f)
           gg == Gains(S, g)   gl == Losses(S, g)
<1>1. /\ fg \in [S -> Nat] /\ fl \in [S -> Nat] /\ fg[t] - fl[t] = f[t]
      /\ gg \in [S -> Nat] /\ gl \in [S -> Nat] /\ gg[t] - gl[t] = g[t]
  BY SidesType
<1>2. \A s \in S \ {t} : gg[s] = fg[s]
  BY DEF Gains
<1>8. \A s \in S \ {t} : gl[s] = fl[s]
  BY DEF Losses
<1>3. /\ NetTotal(S, f) = Total(S, fg) - Total(S, fl)
      /\ NetTotal(S, g) = Total(S, gg) - Total(S, gl)
  BY DEF NetTotal
<1> HIDE DEF fg, fl, gg, gl
<1>4. Total(S, gg) = Total(S, fg) - fg[t] + gg[t]
  BY <1>1, <1>2, TotalChange
<1>5. Total(S, gl) = Total(S, fl) - fl[t] + gl[t]
  BY <1>1, <1>8, TotalChange
<1>6. Total(S, fg) \in Nat /\ Total(S, fl) \in Nat
  BY <1>1, TotalType
<1>7. fg[t] \in Nat /\ fl[t] \in Nat /\ gg[t] \in Nat /\ gl[t] \in Nat
  BY <1>1
<1> QED
  BY <1>1, <1>3, <1>4, <1>5, <1>6, <1>7

(* Nothing nets to nothing. *)
LEMMA NetTotalZero ==
  ASSUME NEW S
  PROVE  NetTotal(S, [s \in S |-> 0]) = 0
<1> DEFINE z == [s \in S |-> 0]
<1>1. Gains(S, z) = z /\ Losses(S, z) = z
  BY DEF Gains, Losses
<1>2. Total(S, z) = 0
  BY TotalZero
<1> HIDE DEF z
<1>3. NetTotal(S, z) = 0
  BY <1>1, <1>2 DEF NetTotal
<1> QED
  BY <1>3 DEF z
=============================================================================
