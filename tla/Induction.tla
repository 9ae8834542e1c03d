----------------------------- MODULE Induction -----------------------------
(***************************************************************************)
(* Induction over the natural numbers in a form that speaks of sets and    *)
(* functions, so that it can be used for the loops of the kernel: the      *)
(* least-number principle, that a function defined by recursion has the    *)
(* values it is meant to have, and the pigeonhole principle for sequences  *)
(* of numbers; and what those loops compute with: quotients, remainders    *)
(* and sequences put together.                                             *)
(***************************************************************************)
EXTENDS Integers, FiniteSetTheorems, SequenceTheorems, WellFoundedInduction, TLAPS

LEMMA Least ==
  ASSUME NEW T \in SUBSET Nat, T # {}
  PROVE  \E m \in T : \A k \in T : m <= k
  <1> DEFINE R == OpToRel(<, Nat)
  <1>1. IsWellFoundedOn(R, Nat)
    BY NatLessThanWellFounded
  <1>2. \A x, y \in Nat : <<x, y>> \in R <=> x < y
    BY DEF OpToRel
  <1> HIDE DEF R
  <1>3. PICK m \in T : \A y \in T : ~ (<<y, m>> \in R)
    BY <1>1, WFMin
  <1>4. ASSUME NEW k \in T  PROVE m <= k
    <2>1. m \in Nat /\ k \in Nat /\ ~ (<<k, m>> \in R)
      BY <1>3
    <2>2. ~ (k < m)
      BY <1>2, <2>1
    <2> QED  BY <2>1, <2>2
  <1> QED  BY <1>4

LEMMA Induct ==
  ASSUME NEW S, 0 \in S, \A n \in Nat : n \in S => n + 1 \in S
  PROVE  \A n \in Nat : n \in S
  <1> DEFINE T == Nat \ S
  <1> SUFFICES ASSUME T # {}  PROVE FALSE
    OBVIOUS
  <1>1. PICK m \in T : \A k \in T : m <= k
    BY Least
  <1>2. m # 0 /\ m - 1 \in Nat /\ m - 1 \in S
    BY <1>1
  <1> QED  BY <1>1, <1>2

-----------------------------------------------------------------------------
\* The functions on 0 .. n that follow the recursion h[i + 1] = G[h[i]].
Beginnings(S, c, G, n) ==
  {h \in [0 .. n -> S] : h[0] = c /\ \A i \in 0 .. n - 1 : h[i + 1] = G[h[i]]}

LEMMA BeginningsAgree ==
  ASSUME NEW S, NEW c \in S, NEW G \in [S -> S], NEW m \in Nat, NEW n \in Nat,
         NEW g \in Beginnings(S, c, G, m), NEW h \in Beginnings(S, c, G, n)
  PROVE  \A i \in Nat : i <= m /\ i <= n => g[i] = h[i]
  <1> DEFINE A == {i \in Nat : i <= m /\ i <= n => g[i] = h[i]}
  <1>1. 0 \in A
    BY DEF Beginnings
  <1>2. ASSUME NEW i \in Nat, i \in A  PROVE i + 1 \in A
    <2> SUFFICES ASSUME i + 1 <= m, i + 1 <= n  PROVE g[i + 1] = h[i + 1]
      OBVIOUS
    <2>1. g[i] = h[i] /\ i \in 0 .. m - 1 /\ i \in 0 .. n - 1
      BY <1>2
    <2> QED  BY <2>1 DEF Beginnings
  <1> HIDE DEF A
  <1>3. \A i \in Nat : i \in A
    BY <1>1, <1>2, Induct
  <1> QED  BY <1>3 DEF A

LEMMA BeginningsExist ==
  ASSUME NEW S, NEW c \in S, NEW G \in [S -> S]
  PROVE  \A n \in Nat : Beginnings(S, c, G, n) # {}
  <1> DEFINE A == {n \in Nat : Beginnings(S, c, G, n) # {}}
  <1>1. 0 \in A
    <2>1. [i \in 0 .. 0 |-> c] \in Beginnings(S, c, G, 0)
      BY DEF Beginnings
    <2> QED  BY <2>1
  <1>2. ASSUME NEW n \in Nat, n \in A  PROVE n + 1 \in A
    <2>1. PICK h : h \in Beginnings(S, c, G, n)
      BY <1>2
    <2>2. /\ h \in [0 .. n -> S] /\ h[0] = c /\ \A i \in 0 .. n - 1 : h[i + 1] = G[h[i]]
          /\ G[h[n]] \in S
      BY <2>1 DEF Beginnings
    <2> DEFINE g == [i \in 0 .. n + 1 |-> IF i = n + 1 THEN G[h[n]] ELSE h[i]]
    <2>3. g \in [0 .. n + 1 -> S]
      BY <2>2
    <2>4. g[0] = c /\ g[n + 1] = G[h[n]] /\ \A i \in 0 .. n : g[i] = h[i]
      BY <2>2
    <2> HIDE DEF g
    <2>5. \A i \in 0 .. n : g[i + 1] = G[g[i]]
      <3> SUFFICES ASSUME NEW i \in 0 .. n  PROVE g[i + 1] = G[g[i]]
        OBVIOUS
      <3>1. CASE i = n
        BY <2>4, <3>1
      <3>2. CASE i \in 0 .. n - 1
        BY <2>2, <2>4, <3>2
      <3> QED  BY <3>1, <3>2
    <2>6. g \in Beginnings(S, c, G, n + 1)
      BY <2>3, <2>4, <2>5 DEF Beginnings
    <2> QED  BY <2>6
  <1> HIDE DEF A
  <1>3. \A n \in Nat : n \in A
    BY <1>1, <1>2, Induct
  <1> QED  BY <1>3 DEF A

Maps(G, S) == G \in [S -> S]

Solves(f, S, c, G) == f \in [Nat -> S] /\ f[0] = c /\ \A i \in Nat : f[i + 1] = G[f[i]]

\* A recursion has a solution.
LEMMA Recursion ==
  ASSUME NEW S, NEW c \in S, NEW G, Maps(G, S)
  PROVE  \E f : Solves(f, S, c, G)
  <1> DEFINE p == [n \in Nat |-> CHOOSE h : h \in Beginnings(S, c, G, n)]
             f == [n \in Nat |-> p[n][n]]
  <1>1. \A n \in Nat : p[n] \in Beginnings(S, c, G, n)
    <2>1. \A n \in Nat : Beginnings(S, c, G, n) # {}
      BY BeginningsExist DEF Maps
    <2> QED  BY <2>1
  <1> HIDE DEF p
  <1>2. f \in [Nat -> S]
    BY <1>1 DEF Beginnings
  <1>3. f[0] = c
    BY <1>1 DEF Beginnings
  <1>4. ASSUME NEW i \in Nat  PROVE f[i + 1] = G[f[i]]
    <2>1. p[i] \in Beginnings(S, c, G, i) /\ p[i + 1] \in Beginnings(S, c, G, i + 1)
      BY <1>1
    <2>2. p[i + 1][i] = p[i][i]
      BY <2>1, BeginningsAgree DEF Maps
    <2>3. p[i + 1][i + 1] = G[p[i + 1][i]]
      BY <2>1 DEF Beginnings
    <2> QED  BY <2>2, <2>3
  <1> HIDE DEF f
  <1>5. Solves(f, S, c, G)
    BY <1>2, <1>3, <1>4 DEF Solves
  <1> QED  BY <1>5

-----------------------------------------------------------------------------
(* Recursion that looks at the number of the step *)

CountedMaps(G, S) == \A i \in Nat : Maps(G[i], S)

CountedSolves(f, S, c, G) == f \in [Nat -> S] /\ f[0] = c /\ \A i \in Nat : f[i + 1] = G[i][f[i]]

LEMMA CountedRecursion ==
  ASSUME NEW S, NEW c \in S, NEW G, CountedMaps(G, S)
  PROVE  \E f : CountedSolves(f, S, c, G)
  <1> DEFINE P == S \X Nat
             H == [p \in P |-> <<G[p[2]][p[1]], p[2] + 1>>]
  <1>1. Maps(H, P)
    <2>1. \A p \in P : p[1] \in S /\ p[2] \in Nat
      OBVIOUS
    <2>2. \A p \in P : G[p[2]][p[1]] \in S
      BY <2>1 DEF CountedMaps, Maps
    <2> QED  BY <2>1, <2>2 DEF Maps
  <1>2. <<c, 0>> \in P
    OBVIOUS
  <1> HIDE DEF H
  <1>3. PICK h : Solves(h, P, <<c, 0>>, H)
    BY <1>1, <1>2, Recursion
  <1>4. h \in [Nat -> P] /\ h[0] = <<c, 0>> /\ \A i \in Nat : h[i + 1] = <<G[h[i][2]][h[i][1]], h[i][2] + 1>>
    BY <1>3 DEF Solves, H
  <1>5. \A i \in Nat : h[i][2] = i
    <2> DEFINE A == {i \in Nat : h[i][2] = i}
    <2>1. 0 \in A /\ \A i \in Nat : i \in A => i + 1 \in A
      BY <1>4
    <2> HIDE DEF A
    <2>2. \A i \in Nat : i \in A
      BY <2>1, Induct
    <2> QED  BY <2>2 DEF A
  <1> DEFINE f == [i \in Nat |-> h[i][1]]
  <1>6. f \in [Nat -> S] /\ f[0] = c /\ \A i \in Nat : f[i + 1] = G[i][f[i]]
    BY <1>4, <1>5
  <1> HIDE DEF f
  <1> QED  BY <1>6 DEF CountedSolves

-----------------------------------------------------------------------------
\* More numbers than there is room for: one of them comes twice.
LEMMA Twice ==
  ASSUME NEW n \in Nat, NEW T, IsFiniteSet(T), Cardinality(T) <= n,
         NEW h \in [0 .. n -> T]
  PROVE  \E i, j \in 0 .. n : i < j /\ h[i] = h[j]
  <1>1. IsFiniteSet(0 .. n) /\ Cardinality(0 .. n) = n + 1
    BY FS_Interval
  <1>2. Cardinality(T) \in Nat
    BY FS_CardinalityType
  <1>3. Cardinality(T) < Cardinality(0 .. n)
    BY <1>1, <1>2
  <1>4. PICK x, y \in 0 .. n : x # y /\ h[x] = h[y]
    BY <1>1, <1>3, FS_PigeonHole
  <1>5. x < y \/ y < x
    BY <1>4
  <1> QED  BY <1>4, <1>5

-----------------------------------------------------------------------------
(* Division *)

LEMMA Monotone ==
  ASSUME NEW a \in Int, NEW b \in Int, NEW s \in Nat, a <= b
  PROVE  a * s <= b * s
  <1>1. b * s = a * s + (b - a) * s
    OBVIOUS
  <1>2. (b - a) * s >= 0
    OBVIOUS
  <1> QED  BY <1>1, <1>2

LEMMA Divide ==
  ASSUME NEW s \in Nat \ {0}, NEW b \in Nat
  PROVE  /\ b % s \in 0 .. s - 1 /\ b \div s \in Nat
         /\ b = (b \div s) * s + (b % s)
  OBVIOUS

\* The quotient is the only number of its kind.
LEMMA Quotient ==
  ASSUME NEW s \in Nat \ {0}, NEW b \in Nat, NEW q \in Nat, NEW r \in 0 .. s - 1,
         b = q * s + r
  PROVE  b \div s = q /\ b % s = r
  <1> DEFINE p == b \div s
             t == b % s
  <1>1. /\ s \in Nat /\ p \in Nat /\ t \in 0 .. s - 1 /\ r \in 0 .. s - 1
        /\ b = p * s + t /\ b = q * s + r
    BY Divide
  <1> HIDE DEF p, t
  <1>2. ~(p + 1 <= q)
    <2> SUFFICES ASSUME p + 1 <= q  PROVE FALSE
      OBVIOUS
    <2>1. (p + 1) * s <= q * s /\ (p + 1) * s = p * s + s
      BY <1>1, Monotone
    <2> QED  BY <1>1, <2>1
  <1>3. ~(q + 1 <= p)
    <2> SUFFICES ASSUME q + 1 <= p  PROVE FALSE
      OBVIOUS
    <2>1. (q + 1) * s <= p * s /\ (q + 1) * s = q * s + s
      BY <1>1, Monotone
    <2> QED  BY <1>1, <2>1
  <1>4. p = q
    BY <1>1, <1>2, <1>3
  <1>5. t = r
    BY <1>1, <1>4
  <1> QED  BY <1>4, <1>5 DEF p, t

\* Division by one number after another.
LEMMA DivTwice ==
  ASSUME NEW n \in Nat, NEW b \in Nat \ {0}, NEW c \in Nat \ {0}
  PROVE  n \div (b * c) = (n \div b) \div c /\ b * c \in Nat \ {0}
  <1> DEFINE q == n \div b
             p == q \div c
             t == q % c
             r == n % b
  <1>1. /\ q \in Nat /\ r \in 0 .. b - 1 /\ n = q * b + r
        /\ p \in Nat /\ t \in 0 .. c - 1 /\ q = p * c + t
    BY Divide
  <1> HIDE DEF q, p, t, r
  <1>2. n = p * (b * c) + (b * t + r)
    BY <1>1
  <1>4. b * c \in Nat \ {0}
    OBVIOUS
  <1>3. b * t + r \in 0 .. b * c - 1
    <2>1. (t + 1) * b <= c * b
      BY <1>1, Monotone
    <2> QED  BY <1>1, <2>1
  <1>5. n \div (b * c) = p
    <2> DEFINE d == b * c
               s == b * t + r
    <2> HIDE DEF d, s
    <2> QED  BY <1>1, <1>2, <1>3, <1>4, Quotient DEF d, s
  <1> QED  BY <1>4, <1>5 DEF p, q

\* A number below a product has a quotient below the other factor.
LEMMA SmallQuotient ==
  ASSUME NEW n \in Nat, NEW b \in Nat \ {0}, NEW c \in Nat, n < c * b
  PROVE  n \div b < c
  <1> DEFINE q == n \div b
  <1>1. q \in Nat /\ n >= q * b
    BY Divide
  <1> HIDE DEF q
  <1> SUFFICES ASSUME q >= c  PROVE FALSE
    BY <1>1 DEF q
  <1>2. c * b <= q * b
    BY <1>1, Monotone
  <1> QED  BY <1>1, <1>2

LEMMA NoRemainder ==
  ASSUME NEW n \in Nat, NEW b \in Nat \ {0}, n < b
  PROVE  n % b = n
  BY Quotient

LEMMA Divides ==
  ASSUME NEW s \in Nat \ {0}, NEW b \in Nat
  PROVE  \E q, r \in Nat : q = b \div s /\ r = b % s /\ r < s /\ b = q * s + r
  <1>1. /\ b % s \in 0 .. s - 1 /\ b \div s \in Nat
        /\ b = (b \div s) * s + (b % s)
    BY Divide
  <1>2. b % s \in Nat /\ b % s < s
    BY <1>1
  <1> QED  BY Zenon, <1>1, <1>2

-----------------------------------------------------------------------------
(* Sequences put together *)

LEMMA OneElement ==
  ASSUME NEW S, NEW x \in S
  PROVE  <<x>> \in Seq(S) /\ Len(<<x>>) = 1 /\ <<x>>[1] = x
  OBVIOUS

\* A list put together from one element, some more and four.
IsJoined(S, v, q, s, t) ==
  /\ v \in Seq(S) /\ Len(v) = Len(s) + 5
  /\ \A i \in 1 .. Len(s) + 5 :
       v[i] = IF i = 1 THEN q[1]
              ELSE IF i <= Len(s) + 1 THEN s[i - 1] ELSE t[i - (Len(s) + 1)]

LEMMA Joined ==
  ASSUME NEW S, NEW q \in Seq(S), Len(q) = 1, NEW s \in Seq(S), NEW t \in Seq(S), Len(t) = 4
  PROVE  IsJoined(S, q \o s \o t, q, s, t)
  <1> DEFINE p == q \o s
             v == p \o t
  <1>1. Len(s) \in Nat
    BY LenProperties
  <1>2. /\ p \in Seq(S) /\ Len(p) = 1 + Len(s)
        /\ \A i \in 1 .. 1 + Len(s) : p[i] = IF i <= 1 THEN q[i] ELSE s[i - 1]
    <2>1. /\ p \in Seq(S) /\ Len(p) = Len(q) + Len(s)
          /\ \A i \in 1 .. Len(q) + Len(s) : p[i] = IF i <= Len(q) THEN q[i] ELSE s[i - Len(q)]
      BY ZenonT(20), ConcatProperties
    <2> HIDE DEF p
    <2> QED  BY Zenon, <2>1
  <1> HIDE DEF p
  <1>3. /\ v \in Seq(S) /\ Len(v) = Len(p) + 4
        /\ \A i \in 1 .. Len(p) + 4 : v[i] = IF i <= Len(p) THEN p[i] ELSE t[i - Len(p)]
    <2>1. /\ v \in Seq(S) /\ Len(v) = Len(p) + Len(t)
          /\ \A i \in 1 .. Len(p) + Len(t) : v[i] = IF i <= Len(p) THEN p[i] ELSE t[i - Len(p)]
      BY ZenonT(20), <1>2, ConcatProperties
    <2> HIDE DEF v
    <2> QED  BY Zenon, <2>1
  <1> HIDE DEF v
  <1>4. ASSUME NEW i \in 1 .. Len(s) + 5
        PROVE  v[i] = IF i = 1 THEN q[1]
                      ELSE IF i <= Len(s) + 1 THEN s[i - 1] ELSE t[i - (Len(s) + 1)]
    <2>1. v[i] = IF i <= Len(s) + 1 THEN p[i] ELSE t[i - (Len(s) + 1)]
      BY <1>1, <1>2, <1>3
    <2>2. i <= Len(s) + 1 => p[i] = IF i = 1 THEN q[1] ELSE s[i - 1]
      BY <1>1, <1>2
    <2> QED  BY <1>1, <2>1, <2>2
  <1>5. v \in Seq(S) /\ Len(v) = Len(s) + 5
    BY <1>1, <1>2, <1>3
  <1>6. IsJoined(S, v, q, s, t)
    BY <1>4, <1>5 DEF IsJoined
  <1> QED  BY <1>6 DEF p, v
=============================================================================
