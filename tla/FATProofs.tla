----------------------------- MODULE FATProofs -----------------------------
(***************************************************************************)
(* The chains of a FAT volume, for any number of clusters, files and       *)
(* descriptors and any size of a cluster: until the first scan takes what  *)
(* lies behind the root directory for an entry, the first entry of the     *)
(* table that SAL_write leaves torn, or the first time FindFreeCluster     *)
(* finds nothing, after which the volume is as FAT's fault or full say.    *)
(***************************************************************************)
EXTENDS FAT, Induction

Entry == Table \cup {EOC}

-----------------------------------------------------------------------------
(* Chains, whatever the table holds                                        *)

\* The recursion in Link has the values it is meant to have.
LEMMA LinkIs ==
  ASSUME NEW f \in [Table -> Entry], NEW c \in Entry
  PROVE  /\ Link(f, c, 0) = c
         /\ \A k \in Nat : /\ Link(f, c, k) \in Entry
                           /\ Link(f, c, k + 1) =
                                IF Link(f, c, k) = EOC THEN EOC ELSE f[Link(f, c, k)]
  <1> DEFINE G == [x \in Entry |-> IF x = EOC THEN EOC ELSE f[x]]
             Body(n) == [i \in Nat |-> IF i = 0 THEN c
                                       ELSE IF n[i - 1] = EOC THEN EOC ELSE f[n[i - 1]]]
             N == CHOOSE n : n = Body(n)
  <1>1. G \in [Entry -> Entry]
    BY DEF Entry
  <1>2. PICK h \in [Nat -> Entry] : h[0] = c /\ \A i \in Nat : h[i + 1] = G[h[i]]
    <2> HIDE DEF G
    <2>1. PICK h : Solves(h, Entry, c, G)
      BY <1>1, Recursion DEF Maps
    <2> QED  BY <2>1 DEF Solves
  <1>3. \A i \in Nat : h[i + 1] = IF h[i] = EOC THEN EOC ELSE f[h[i]]
    BY <1>2
  <1>4. h = Body(h)
    <2>1. ASSUME NEW i \in Nat
          PROVE  h[i] = IF i = 0 THEN c ELSE IF h[i - 1] = EOC THEN EOC ELSE f[h[i - 1]]
      <3>1. CASE i = 0
        BY <1>2, <3>1
      <3>2. CASE i # 0
        <4>1. i - 1 \in Nat /\ (i - 1) + 1 = i
          BY <3>2
        <4> QED  BY <1>3, <3>2, <4>1
      <3> QED  BY <3>1, <3>2
    <2> QED  BY <1>2, <2>1
  <1>5. N = Body(N)
    BY <1>4
  <1> HIDE DEF N
  <1>6. N[0] = c /\ \A i \in Nat : N[i + 1] = IF N[i] = EOC THEN EOC ELSE f[N[i]]
    <2>1. \A j \in Nat : N[j] = IF j = 0 THEN c ELSE IF N[j - 1] = EOC THEN EOC ELSE f[N[j - 1]]
      BY <1>5
    <2>2. \A i \in Nat : i + 1 \in Nat /\ i + 1 # 0 /\ (i + 1) - 1 = i
      OBVIOUS
    <2> QED  BY <2>1, <2>2
  <1>7. \A k \in Nat : N[k] = h[k]
    <2> DEFINE A == {k \in Nat : N[k] = h[k]}
    <2>1. 0 \in A /\ \A k \in Nat : k \in A => k + 1 \in A
      BY <1>2, <1>3, <1>6
    <2> HIDE DEF A
    <2>2. \A k \in Nat : k \in A
      BY <2>1, Induct
    <2> QED  BY <2>2 DEF A
  <1>8. \A k \in Nat : Link(f, c, k) = N[k]
    BY DEF Link, N
  <1> QED  BY <1>2, <1>3, <1>7, <1>8

\* Two places of chains that agree go on together.
LEMMA Together ==
  ASSUME NEW f \in [Table -> Entry], NEW c \in Entry, NEW d \in Entry,
         NEW i \in Nat, NEW j \in Nat, Link(f, c, i) = Link(f, d, j)
  PROVE  \A t \in Nat : Link(f, c, i + t) = Link(f, d, j + t)
  <1> DEFINE A == {t \in Nat : Link(f, c, i + t) = Link(f, d, j + t)}
  <1>1. 0 \in A
    OBVIOUS
  <1>2. ASSUME NEW t \in Nat, t \in A  PROVE t + 1 \in A
    <2>1. i + (t + 1) = (i + t) + 1 /\ j + (t + 1) = (j + t) + 1 /\ i + t \in Nat /\ j + t \in Nat
      OBVIOUS
    <2>2. Link(f, c, i + t) = Link(f, d, j + t)
      BY <1>2
    <2>3. Link(f, c, (i + t) + 1) =
            IF Link(f, c, i + t) = EOC THEN EOC ELSE f[Link(f, c, i + t)]
      BY <2>1, LinkIs
    <2>4. Link(f, d, (j + t) + 1) =
            IF Link(f, d, j + t) = EOC THEN EOC ELSE f[Link(f, d, j + t)]
      BY <2>1, LinkIs
    <2> QED  BY <2>1, <2>2, <2>3, <2>4
  <1> HIDE DEF A
  <1>3. \A t \in Nat : t \in A
    BY <1>1, <1>2, Induct
  <1> QED  BY <1>3 DEF A

\* A chain that has ended does not go on.
LEMMA Ended ==
  ASSUME NEW f \in [Table -> Entry], NEW c \in Entry, NEW i \in Nat, NEW k \in Nat,
         i <= k, Link(f, c, k) # EOC
  PROVE  Link(f, c, i) # EOC
  <1> SUFFICES ASSUME Link(f, c, i) = EOC  PROVE FALSE
    OBVIOUS
  <1> DEFINE A == {t \in Nat : Link(f, c, i + t) = EOC}
  <1>1. 0 \in A
    OBVIOUS
  <1>2. ASSUME NEW t \in Nat, t \in A  PROVE t + 1 \in A
    <2>1. i + (t + 1) = (i + t) + 1 /\ i + t \in Nat
      OBVIOUS
    <2>2. Link(f, c, i + t) = EOC
      BY <1>2
    <2>3. Link(f, c, (i + t) + 1) = EOC
      BY <2>1, <2>2, LinkIs
    <2> QED  BY <2>1, <2>3
  <1> HIDE DEF A
  <1>3. \A t \in Nat : t \in A
    BY <1>1, <1>2, Induct
  <1>4. k - i \in Nat /\ i + (k - i) = k
    OBVIOUS
  <1> QED  BY <1>3, <1>4 DEF A

TableSize == IsFiniteSet(Table) /\ Cardinality(Table) = TableEnd

LEMMA TableIsFinite == TableSize
  <1>1. TableEnd \in Nat
    BY FATAssumption DEF FATAssumption
  <1> QED  BY <1>1, FS_Interval DEF Table, TableSize

\* Every link of a chain is one of the first TableEnd.
LEMMA ChainIs ==
  ASSUME NEW f \in [Table -> Entry], NEW c \in Entry, NEW k \in Nat, Link(f, c, k) # EOC
  PROVE  Link(f, c, k) \in Chain(f, c)
  <1> DEFINE y == Link(f, c, k)
             T == {m \in Nat : Link(f, c, m) = y}
  <1>1. T \in SUBSET Nat /\ k \in T
    OBVIOUS
  <1>2. PICK m \in T : \A i \in T : m <= i
    BY <1>1, Least
  <1>3. m \in Nat /\ Link(f, c, m) = y /\ y # EOC
    OBVIOUS
  <1> HIDE DEF y
  <1>4. m \in Table
    <2> SUFFICES ASSUME m \notin Table  PROVE FALSE
      OBVIOUS
    <2> DEFINE h == [i \in 0 .. m |-> Link(f, c, i)]
    <2>1. ASSUME NEW i \in 0 .. m  PROVE Link(f, c, i) \in Table
      <3>1. Link(f, c, i) # EOC
        BY <1>3, Ended
      <3> QED  BY <3>1, LinkIs DEF Entry
    <2>2. h \in [0 .. m -> Table]
      BY <2>1
    <2>3. TableEnd \in Nat /\ TableEnd <= m
      BY <1>3, FATAssumption DEF FATAssumption, Table
    <2> HIDE DEF h
    <2>4. \E i, j \in 0 .. m : i < j /\ h[i] = h[j]
      BY <1>3, <2>2, <2>3, Twice, TableIsFinite DEF TableSize
    <2>5. PICK i, j \in 0 .. m : i < j /\ Link(f, c, i) = Link(f, c, j)
      BY <2>4 DEF h
    <2>6. Link(f, c, i + (m - j)) = Link(f, c, j + (m - j))
      BY <2>5, Together
    <2>7. i + (m - j) \in Nat /\ i + (m - j) < m /\ j + (m - j) = m
      BY <2>5
    <2>8. i + (m - j) \in T
      BY <1>3, <2>6, <2>7
    <2> QED  BY <1>2, <1>3, <2>7, <2>8
  <1> QED  BY <1>3, <1>4 DEF Chain, y

\* What holds of the first cluster and passes on to the next holds of all.
LEMMA ChainLeast ==
  ASSUME NEW f \in [Table -> Entry], NEW c \in Entry, NEW S, c \in S \/ c = EOC,
         \A x \in S \cap Table : f[x] \in S \/ f[x] = EOC
  PROVE  Chain(f, c) \subseteq S
  <1> DEFINE A == {k \in Nat : Link(f, c, k) \in S \/ Link(f, c, k) = EOC}
  <1>1. 0 \in A
    BY LinkIs
  <1>2. ASSUME NEW k \in Nat, k \in A  PROVE k + 1 \in A
    BY <1>2, LinkIs DEF Entry
  <1> HIDE DEF A
  <1>3. \A k \in Nat : k \in A
    BY <1>1, <1>2, Induct
  <1>4. Table \subseteq Nat
    BY DEF Table
  <1> QED  BY <1>3, <1>4 DEF A, Chain

\* A chain is closed, and each cluster but the first follows another.
LEMMA ChainStep ==
  ASSUME NEW f \in [Table -> Entry], NEW c \in Entry, c # EOC
  PROVE  /\ c \in Chain(f, c) /\ Chain(f, c) \subseteq Table
         /\ \A x \in Chain(f, c) : f[x] = EOC \/ f[x] \in Chain(f, c)
         /\ \A x \in Chain(f, c) : x = c \/ \E y \in Chain(f, c) : f[y] = x
  <1>1. c \in Chain(f, c)
    BY LinkIs, ChainIs
  <1>2. ASSUME NEW x \in Chain(f, c)
        PROVE  \E k \in Nat : x = Link(f, c, k) /\ x # EOC /\ x \in Table
    BY LinkIs DEF Chain, Entry, Table
  <1>3. ASSUME NEW x \in Chain(f, c), f[x] # EOC  PROVE f[x] \in Chain(f, c)
    <2>1. PICK k \in Nat : x = Link(f, c, k) /\ x # EOC
      BY <1>2
    <2>2. f[x] = Link(f, c, k + 1) /\ k + 1 \in Nat
      BY <2>1, LinkIs
    <2> QED  BY <1>3, <2>2, ChainIs
  <1>4. ASSUME NEW x \in Chain(f, c), x # c  PROVE \E y \in Chain(f, c) : f[y] = x
    <2>1. PICK k \in Nat : x = Link(f, c, k) /\ x # EOC
      BY <1>2
    <2>2. k # 0
      BY <1>4, <2>1, LinkIs
    <2>3. k - 1 \in Nat /\ (k - 1) + 1 = k /\ k - 1 <= k
      BY <2>2
    <2>4. Link(f, c, k - 1) # EOC
      BY <2>1, <2>3, Ended
    <2>5. x = f[Link(f, c, k - 1)]
      BY <2>1, <2>3, <2>4, LinkIs
    <2> QED  BY <2>3, <2>4, <2>5, ChainIs
  <1> QED  BY <1>1, <1>2, <1>3, <1>4

\* A set that keeps the clusters of a chain and is the same in another table
\* has the same chains.
LEMMA LinkKept ==
  ASSUME NEW f \in [Table -> Entry], NEW g \in [Table -> Entry],
         NEW S \in SUBSET Table, EOC \notin S, NEW c \in S,
         \A x \in S : f[x] # EOC => f[x] \in S /\ g[x] = f[x]
  PROVE  \A k \in Nat : Link(f, c, k) # EOC => Link(f, c, k) \in S /\ Link(g, c, k) = Link(f, c, k)
  <1> DEFINE A == {k \in Nat : Link(f, c, k) # EOC =>
                                 Link(f, c, k) \in S /\ Link(g, c, k) = Link(f, c, k)}
  <1>0. c \in Entry /\ c # EOC
    BY DEF Entry
  <1>1. 0 \in A
    BY <1>0, LinkIs
  <1>2. ASSUME NEW k \in Nat, k \in A  PROVE k + 1 \in A
    <2> SUFFICES ASSUME Link(f, c, k + 1) # EOC
                 PROVE  /\ Link(f, c, k + 1) \in S
                        /\ Link(g, c, k + 1) = Link(f, c, k + 1)
      OBVIOUS
    <2>1. Link(f, c, k) # EOC /\ Link(f, c, k + 1) = f[Link(f, c, k)]
      BY <1>0, LinkIs, SMTT(30)
    <2>2. Link(f, c, k) \in S /\ Link(g, c, k) = Link(f, c, k)
      BY <1>2, <2>1
    <2>3. Link(g, c, k + 1) = g[Link(g, c, k)]
      BY <1>0, <2>1, <2>2, LinkIs
    <2> QED  BY <2>1, <2>2, <2>3
  <1> HIDE DEF A
  <1>3. \A k \in Nat : k \in A
    BY <1>1, <1>2, Induct
  <1> QED  BY <1>3 DEF A

-----------------------------------------------------------------------------
(* The table and the directory of a volume whose structures are whole      *)

\* The entries in use.
Live(f) == {x \in Table : f[x] # 0}

\* Where f leads, something of any set is left, and something is not reached.
ChainsEnd(f)   == \A S \in SUBSET Live(f) : S # {} => \E x \in S : f[x] \notin S
ChainsBegin(f) == \A S \in SUBSET Live(f) : S # {} => \E x \in S : \A y \in S : f[y] # x

Graph(f) ==
  /\ f \in [Table -> Entry]
  /\ {0, 1} \subseteq Live(f) /\ Live(f) \subseteq {0, 1} \cup Clusters
  /\ \A x \in Live(f) : f[x] = EOC \/ f[x] \in Live(f) \cap Clusters \/ (x = 0 /\ f[x] = 1)
  /\ \A x, y \in Live(f) : f[x] = f[y] => x = y \/ f[x] = EOC
  /\ ChainsEnd(f) /\ ChainsBegin(f)

\* The directory names the first clusters of chains.
Heads(f, d) ==
  /\ \A i \in Used(d) : /\ d[i].clus \in Live(f) \cap Clusters
                         /\ \A x \in Live(f) : f[x] # d[i].clus
  /\ \A i, j \in Used(d) : i # j => d[i].clus # d[j].clus

LEMMA Numbers ==
  /\ Clusters \subseteq Table /\ EOC \notin Clusters /\ EOC # 1
  /\ EOC # 0 /\ 0 \in Table /\ 1 \in Table /\ 0 \in Entry /\ EOC \in Entry
  /\ Table \subseteq Entry /\ Clusters \subseteq Entry /\ 0 \notin Clusters /\ 1 \notin Clusters
  /\ \A x \in Clusters : x # 0 /\ x # 1 /\ x \in Nat
  BY FATAssumption DEF FATAssumption, Clusters, Table, Entry

\* A chain from a cluster in use stays among the clusters in use.
LEMMA ChainLive ==
  ASSUME NEW f, Graph(f), NEW c \in Live(f) \cap Clusters
  PROVE  Chain(f, c) \subseteq Live(f) \cap Clusters
  <1>1. f \in [Table -> Entry] /\ c \in Entry
    BY Numbers DEF Graph
  <1>2. \A x \in (Live(f) \cap Clusters) \cap Table : f[x] \in Live(f) \cap Clusters \/ f[x] = EOC
    BY Numbers DEF Graph
  <1> QED  BY <1>1, <1>2, ChainLeast

\* Chains with different first clusters have nothing in common.
LEMMA ChainsApart ==
  ASSUME NEW f, Graph(f), NEW a \in Live(f) \cap Clusters, NEW b \in Live(f) \cap Clusters,
         a # b, \A x \in Live(f) : f[x] # a /\ f[x] # b
  PROVE  Chain(f, a) \cap Chain(f, b) = {}
  <1> DEFINE S == (Live(f) \cap Clusters) \ Chain(f, b)
  <1>1. f \in [Table -> Entry] /\ a \in Entry /\ b \in Entry /\ a # EOC /\ b # EOC
    BY Numbers DEF Graph
  <1>2. Chain(f, b) \subseteq Live(f) \cap Clusters
    BY ChainLive
  <1>3. \A x \in Chain(f, b) : x = b \/ \E y \in Chain(f, b) : f[y] = x
    BY <1>1, ChainStep
  <1>4. a \in S
    BY <1>2, <1>3
  <1>5. \A x \in S \cap Table : f[x] \in S \/ f[x] = EOC
    <2>1. TAKE x \in S \cap Table
    <2>2. x \in Live(f) \cap Clusters /\ x # 0 /\ x \notin Chain(f, b)
      BY Numbers
    <2>3. f[x] = EOC \/ f[x] \in Live(f) \cap Clusters
      BY <2>2 DEF Graph
    <2>4. f[x] \notin Chain(f, b) \/ f[x] = EOC
      <3>1. SUFFICES ASSUME f[x] \in Chain(f, b), f[x] # EOC  PROVE FALSE
        OBVIOUS
      <3>2. f[x] # b
        BY <2>2
      <3>3. PICK y \in Chain(f, b) : f[y] = f[x]
        BY <1>3, <3>1, <3>2
      <3>4. y = x
        BY <1>2, <2>2, <3>1, <3>3 DEF Graph
      <3> QED  BY <2>2, <3>3, <3>4
    <2> QED  BY <2>3, <2>4
  <1> HIDE DEF S
  <1>6. Chain(f, a) \subseteq S
    BY <1>1, <1>4, <1>5, ChainLeast
  <1> QED  BY <1>6 DEF S

\* The links of a chain are different clusters.
LEMMA LinksDiffer ==
  ASSUME NEW f, Graph(f), NEW c \in Live(f) \cap Clusters, NEW i \in Nat, NEW j \in Nat,
         Link(f, c, i) = Link(f, c, j), Link(f, c, i) # EOC
  PROVE  i = j
  <1>1. f \in [Table -> Entry] /\ c \in Entry /\ c # EOC
    BY Numbers DEF Graph
  <1>2. ASSUME NEW a \in Nat, NEW b \in Nat, a < b, Link(f, c, a) = Link(f, c, b),
               Link(f, c, b) # EOC
        PROVE  FALSE
    <2> DEFINE S == {Link(f, c, k) : k \in a .. b - 1}
    <2>1. \A k \in a .. b - 1 : k \in Nat /\ Link(f, c, k) # EOC
      BY <1>1, <1>2, Ended
    <2>2. \A k \in a .. b - 1 : Link(f, c, k) \in Chain(f, c)
      BY <1>1, <2>1, ChainIs
    <2>3. S \in SUBSET Live(f)
      BY <2>2, ChainLive
    <2>4. Link(f, c, a) \in S
      BY <1>2
    <2>5. ASSUME NEW x \in S  PROVE f[x] \in S
      <3>1. PICK k \in a .. b - 1 : x = Link(f, c, k)
        OBVIOUS
      <3>2. k \in Nat /\ Link(f, c, k + 1) = f[x]
        BY <1>1, <2>1, <3>1, LinkIs
      <3>3. CASE k + 1 = b
        BY <1>2, <2>4, <3>2, <3>3
      <3>4. CASE k + 1 # b
        <4>1. k + 1 \in a .. b - 1
          BY <3>1, <3>4
        <4> QED  BY <3>2, <4>1
      <3> QED  BY <3>3, <3>4
    <2> HIDE DEF S
    <2> QED  BY <2>3, <2>4, <2>5 DEF Graph, ChainsEnd
  <1>3. ~(i < j)
    BY <1>2
  <1>4. ~(j < i)
    BY <1>2
  <1> QED  BY <1>3, <1>4

\* The chain of any cluster, in use or not, has an end for Tail to find.
LEMMA ChainEndIs ==
  ASSUME NEW f, Graph(f), NEW c \in Clusters
  PROVE  ChainEnd(f, c) \in Chain(f, c) \cap Live(f) /\ f[ChainEnd(f, c)] = EOC
  <1> DEFINE S == Chain(f, c) \cap Live(f)
  <1>1. f \in [Table -> Entry] /\ c \in Entry /\ c # EOC
    BY Numbers DEF Graph
  <1>2. /\ c \in Chain(f, c) /\ Chain(f, c) \subseteq Table
        /\ \A x \in Chain(f, c) : f[x] = EOC \/ f[x] \in Chain(f, c)
    BY <1>1, ChainStep
  <1>3. S # {}
    <2>1. CASE f[c] = 0
      BY <1>2, <2>1, Numbers DEF Graph
    <2>2. CASE f[c] # 0
      BY <1>2, <2>2 DEF Live
    <2> QED  BY <2>1, <2>2
  <1>4. PICK x \in S : f[x] \notin S
    <2>1. S \in SUBSET Live(f)
      OBVIOUS
    <2> HIDE DEF S
    <2> QED  BY <1>3, <2>1 DEF Graph, ChainsEnd
  <1>5. f[x] = EOC
    BY <1>2, <1>4 DEF Graph
  <1>6. \E t \in Chain(f, c) : f[t] = EOC
    BY <1>5
  <1>7. ChainEnd(f, c) \in Chain(f, c) /\ f[ChainEnd(f, c)] = EOC
    BY <1>6 DEF ChainEnd
  <1> QED  BY <1>2, <1>7, Numbers DEF Live

-----------------------------------------------------------------------------
(* What the operations do to the table                                     *)

\* FindFreeCluster's answer: always an entry of the table, and a free cluster when
\* it is not 0.
LEMMA FreeClusterIs ==
  ASSUME NEW f \in [Table -> Entry]
  PROVE  /\ FindFreeCluster(f) \in Table
         /\ FindFreeCluster(f) # 0 =>
              FindFreeCluster(f) \in Clusters /\ f[FindFreeCluster(f)] = 0
  <1> DEFINE n == FindFreeCluster(f)
             T == {i \in 2 .. ScanEnd - 1 : f[i] = 0}
  <1>1. CASE \A i \in 2 .. ScanEnd - 1 : f[i] # 0
    <2>1. n = 0
      BY <1>1 DEF FindFreeCluster
    <2> HIDE DEF n
    <2> QED  BY <2>1, Numbers DEF n
  <1>2. CASE \E i \in 2 .. ScanEnd - 1 : f[i] = 0
    <2>1. T \in SUBSET Nat /\ T # {}
      BY <1>2
    <2>2. PICK m \in T : \A k \in T : m <= k
      BY <2>1, Least
    <2>3. f[m] = 0 /\ m \in 2 .. ScanEnd - 1 /\ \A j \in 2 .. m - 1 : f[j] # 0
      BY <2>2, FATAssumption DEF FATAssumption
    <2>4. n \in 2 .. ScanEnd - 1 /\ f[n] = 0
      BY <1>2, <2>3 DEF FindFreeCluster
    <2> HIDE DEF n
    <2>5. n \in Table
      BY <2>4, FATAssumption DEF FATAssumption, Table
    <2>6. n \in Clusters
      BY <2>4 DEF Clusters
    <2> QED  BY <2>4, <2>5, <2>6 DEF n
  <1> QED  BY <1>1, <1>2

\* Table g is table f with the free cluster n taken, at the end of a chain or as
\* the first cluster of one.
Taken(f, g, n) ==
  /\ g \in [Table -> Entry] /\ n \in Clusters /\ f[n] = 0 /\ g[n] = EOC
  /\ \A x \in Table \ {n} : g[x] = f[x] \/ (x \in Live(f) /\ f[x] = EOC /\ g[x] = n)
  /\ \A x, y \in Table : g[x] = n /\ g[y] = n => x = y

LEMMA TakenGraph ==
  ASSUME NEW f, NEW g, NEW n, Graph(f), Taken(f, g, n)
  PROVE  Graph(g) /\ Live(g) = Live(f) \cup {n}
  <1>1. /\ f \in [Table -> Entry] /\ g \in [Table -> Entry]
        /\ n \in Table /\ n \in Clusters /\ n \notin Live(f) /\ g[n] = EOC
        /\ n # 0 /\ n # EOC /\ n # 1
    BY Numbers DEF Graph, Taken, Live
  <1>2. \A x \in Table \ {n} : g[x] = f[x] \/ (x \in Live(f) /\ f[x] = EOC /\ g[x] = n)
    BY DEF Taken
  <1>3. Live(g) = Live(f) \cup {n}
    BY <1>1, <1>2, Numbers DEF Live
  <1>4. EOC \notin Live(g) /\ {0, 1} \subseteq Live(g) /\ Live(g) \subseteq {0, 1} \cup Clusters
    BY <1>1, <1>3, Numbers DEF Graph
  <1>5. \A x \in Live(f) : /\ x \in Table \ {n}
                           /\ f[x] = EOC \/ f[x] \in Live(f) \cap Clusters \/ (x = 0 /\ f[x] = 1)
                           /\ g[x] = f[x] \/ (f[x] = EOC /\ g[x] = n)
    BY <1>1, <1>2 DEF Graph, Live
  <1>6. \A x \in Live(g) : g[x] = EOC \/ g[x] \in Live(g) \cap Clusters \/ (x = 0 /\ g[x] = 1)
    BY <1>1, <1>3, <1>5
  <1>7. ASSUME NEW x \in Live(g), NEW y \in Live(g), g[x] = g[y], g[x] # EOC  PROVE x = y
    <2>1. CASE g[x] = n
      BY <1>7, <2>1 DEF Taken, Live
    <2>2. CASE g[x] # n
      <3>1. x \in Live(f) /\ y \in Live(f) /\ f[x] = f[y] /\ f[x] # EOC
        BY <1>1, <1>3, <1>5, <1>7, <2>2
      <3> QED  BY <3>1 DEF Graph
    <2> QED  BY <2>1, <2>2
  <1>8. ASSUME NEW S \in SUBSET Live(g), S # {}  PROVE \E x \in S : g[x] \notin S
    <2>1. CASE n \in S
      BY <1>1, <1>4, <2>1
    <2>2. CASE n \notin S
      <3>1. S \in SUBSET Live(f)
        BY <1>3, <2>2
      <3>2. PICK x \in S : f[x] \notin S
        BY <1>8, <3>1 DEF Graph, ChainsEnd
      <3>3. g[x] \notin S
        BY <1>5, <2>2, <3>1, <3>2
      <3> QED  BY <3>3
    <2> QED  BY <2>1, <2>2
  <1>9. ASSUME NEW S \in SUBSET Live(g), S # {}  PROVE \E x \in S : \A y \in S : g[y] # x
    <2>1. CASE S = {n}
      BY <1>1, <2>1
    <2>2. CASE S # {n}
      <3> DEFINE R == S \ {n}
      <3>1. R \in SUBSET Live(f) /\ R # {}
        BY <1>3, <1>9, <2>2
      <3> HIDE DEF R
      <3>2. PICK x \in R : \A y \in R : f[y] # x
        BY <3>1 DEF Graph, ChainsBegin
      <3>3. x \in S /\ x # n /\ x # EOC /\ \A y \in S : y = n \/ y \in R
        BY <1>4, <3>2 DEF R
      <3>4. \A y \in S : g[y] # x
        BY <1>1, <1>5, <3>1, <3>2, <3>3
      <3> QED  BY <3>3, <3>4
    <2> QED  BY <2>1, <2>2
  <1> QED  BY <1>1, <1>3, <1>4, <1>6, <1>7, <1>8, <1>9 DEF Graph, ChainsEnd, ChainsBegin

\* Table g is table f with whole chains freed.
Returned(f, g, D) ==
  /\ g \in [Table -> Entry] /\ D \subseteq Live(f) \cap Clusters
  /\ \A x \in Live(f) : f[x] \in D => x \in D
  /\ \A x \in Table : g[x] = IF x = EOC \/ x \in D THEN 0 ELSE f[x]

LEMMA ReturnedGraph ==
  ASSUME NEW f, NEW g, NEW D, Graph(f), Returned(f, g, D)
  PROVE  Graph(g) /\ Live(g) = Live(f) \ D /\ \A x \in Live(g) : g[x] = f[x]
  <1>1. f \in [Table -> Entry] /\ g \in [Table -> Entry] /\ EOC \notin Live(f)
    BY Numbers DEF Graph, Returned
  <1>2. Live(g) = Live(f) \ D /\ \A x \in Live(g) : g[x] = f[x]
    BY <1>1 DEF Returned, Live
  <1>3. {0, 1} \subseteq Live(g) /\ Live(g) \subseteq {0, 1} \cup Clusters
    BY <1>2, Numbers DEF Graph, Returned
  <1>4. \A x \in Live(g) : g[x] = EOC \/ g[x] \in Live(g) \cap Clusters \/ (x = 0 /\ g[x] = 1)
    BY <1>2 DEF Graph, Returned
  <1>5. \A x, y \in Live(g) : g[x] = g[y] => x = y \/ g[x] = EOC
    BY <1>2 DEF Graph
  <1>6. ASSUME NEW S \in SUBSET Live(g), S # {}  PROVE \E x \in S : g[x] \notin S
    <2>1. S \in SUBSET Live(f)
      BY <1>2
    <2>2. PICK x \in S : f[x] \notin S
      BY <1>6, <2>1 DEF Graph, ChainsEnd
    <2> QED  BY <1>2, <2>2
  <1>7. ASSUME NEW S \in SUBSET Live(g), S # {}  PROVE \E x \in S : \A y \in S : g[y] # x
    <2>1. S \in SUBSET Live(f)
      BY <1>2
    <2>2. PICK x \in S : \A y \in S : f[y] # x
      BY <1>7, <2>1 DEF Graph, ChainsBegin
    <2> QED  BY <1>2, <2>2
  <1> QED  BY <1>1, <1>2, <1>3, <1>4, <1>5, <1>6, <1>7 DEF Graph, ChainsEnd, ChainsBegin

\* FAT_create and FAT_allocate_cluster take a cluster.
LEMMA CreateTakes ==
  ASSUME NEW f, Graph(f), NEW n, n = FindFreeCluster(f), n # 0
  PROVE  Taken(f, FAT_set_entries(f, n, EOC), n)
  <1>1. n \in Clusters /\ f[n] = 0 /\ f \in [Table -> Entry] /\ n \in Table /\ n # EOC
    BY FreeClusterIs, Numbers DEF Graph
  <1>2. \A x \in Table : f[x] # n
    BY <1>1, Numbers DEF Graph, Live
  <1> QED  BY <1>1, <1>2, Numbers DEF Taken, FAT_set_entries

LEMMA AllocateTakes ==
  ASSUME NEW f, Graph(f), NEW c \in Clusters, NEW n, n = FindFreeCluster(f), n # 0
  PROVE  Taken(f, FAT_set_entries(FAT_set_entries(f, ChainEnd(f, c), n), n, EOC), n)
  <1>1. n \in Clusters /\ f[n] = 0 /\ f \in [Table -> Entry] /\ n \in Table /\ n # EOC
    BY FreeClusterIs, Numbers DEF Graph
  <1>2. \A x \in Table : f[x] # n
    BY <1>1, Numbers DEF Graph, Live
  <1>3. PICK t : t = ChainEnd(f, c) /\ t \in Live(f) /\ f[t] = EOC
    BY ChainEndIs
  <1>4. t \in Table /\ t # n
    BY <1>1, <1>3 DEF Live
  <1> DEFINE g == FAT_set_entries(FAT_set_entries(f, t, n), n, EOC)
  <1>5. g \in [Table -> Entry] /\ g[n] = EOC /\ g[t] = n /\ \A x \in Table \ {n, t} : g[x] = f[x]
    BY <1>1, <1>4, Numbers DEF FAT_set_entries
  <1> HIDE DEF g
  <1>6. Taken(f, g, n)
    BY <1>1, <1>2, <1>3, <1>4, <1>5 DEF Taken
  <1> QED  BY <1>3, <1>6 DEF g

\* The links there were before a cluster is taken are there after it.
LEMMA TakenKeeps ==
  ASSUME NEW f, NEW g, NEW n, Graph(f), Taken(f, g, n), NEW c \in Live(f)
  PROVE  \A k \in Nat : Link(f, c, k) # EOC => Link(g, c, k) = Link(f, c, k)
  <1>1. f \in [Table -> Entry] /\ g \in [Table -> Entry] /\ Live(f) \in SUBSET Table
        /\ EOC \notin Live(f)
    BY Numbers DEF Graph, Taken, Live
  <1>2. \A x \in Live(f) : f[x] # EOC => f[x] \in Live(f) /\ g[x] = f[x]
    BY <1>1 DEF Graph, Taken, Live
  <1> QED  BY <1>1, <1>2, LinkKept

\* FAT_allocate_cluster makes the chain it is called for longer by one.
LEMMA AllocateLengthens ==
  ASSUME NEW f, Graph(f), NEW c \in Live(f) \cap Clusters, NEW g, NEW n,
         Taken(f, g, n), g[ChainEnd(f, c)] = n,
         NEW k \in Nat, Link(f, c, k) \in Clusters
  PROVE  Link(g, c, k + 1) \in Clusters
  <1> DEFINE t == ChainEnd(f, c)
  <1>1. /\ f \in [Table -> Entry] /\ g \in [Table -> Entry] /\ c \in Entry /\ c # EOC
        /\ n \in Clusters /\ Link(f, c, k) # EOC
    BY Numbers DEF Graph, Taken
  <1>2. t \in Chain(f, c) /\ f[t] = EOC /\ t # EOC
    BY ChainEndIs, Numbers DEF Graph
  <1>3. PICK m \in Nat : t = Link(f, c, m)
    BY <1>2 DEF Chain, Table
  <1> HIDE DEF t
  <1>4. Link(g, c, k) = Link(f, c, k)
    BY <1>1, TakenKeeps
  <1>5. CASE Link(f, c, k + 1) # EOC
    <2>1. Link(f, c, k + 1) \in Clusters
      BY <1>1, <1>5, ChainIs, ChainLive
    <2>2. Link(g, c, k + 1) = Link(f, c, k + 1)
      BY <1>5, TakenKeeps
    <2> QED  BY <2>1, <2>2
  <1>6. CASE Link(f, c, k + 1) = EOC
    <2>1. Link(f, c, m + 1) = EOC
      BY <1>1, <1>2, <1>3, LinkIs
    <2>2. ~(m + 1 <= k)
      BY <1>1, <2>1, Ended
    <2>3. ~(k + 1 <= m)
      BY <1>1, <1>2, <1>3, <1>6, Ended
    <2>4. m = k
      BY <2>2, <2>3
    <2>5. Link(g, c, k + 1) = g[t]
      BY <1>1, <1>3, <1>4, <2>4, LinkIs
    <2>6. g[t] = n
      BY DEF t
    <2> QED  BY <1>1, <2>5, <2>6
  <1> QED  BY <1>5, <1>6

-----------------------------------------------------------------------------
(* The directory, the vnodes, the open files and what the clusters hold    *)

File     == [name : Names, clus : Clusters, size : Nat]
Bytes    == [by : Names \cup {Nobody}, at : Int]
DataType == [Clusters -> [Offsets -> Bytes]]

Types ==
  /\ dir \in [Slots -> File \cup {Empty}] /\ vnode \in [Names -> {0} \cup Clusters]
  /\ open \in [Fds -> File \cup {Closed}] /\ data \in DataType

\* The clusters hold what was written to the file e.
Written(f, dt, e) ==
  \A p \in 0 .. e.size - 1 :
     /\ Link(f, e.clus, p \div BytesPerClus) \in Clusters
     /\ dt[Link(f, e.clus, p \div BytesPerClus)][p % BytesPerClus] = Byte(e.name, p)

\* The directory has the file e, of whatever size.
Filed(d, e) == \E i \in Used(d) : d[i].name = e.name /\ d[i].clus = e.clus

\* Every cluster in use is the first of a file or follows another.
Owned(f, d) ==
  \A x \in Live(f) \cap Clusters :
     \/ \E i \in Used(d) : d[i].clus = x
     \/ \E y \in Live(f) \cap Clusters : f[y] = x

\* What orderly use keeps, of a table, a directory, the clusters, the vnodes and
\* the open files.
Order(f, d, dt, v, o) ==
  /\ Owned(f, d)
  /\ \A i, j \in Used(d) : d[i].name = d[j].name => i = j
  /\ \A n \in Names : v[n] # 0 => \E i \in Used(d) : d[i].name = n /\ d[i].clus = v[n]
  /\ \A fd \in Fds : o[fd] # Closed => Filed(d, o[fd])
  /\ \A a, b \in Fds : o[a] # Closed /\ o[a].name = o[b].name => a = b
  /\ \A i \in Used(d) : Written(f, dt, d[i])
  /\ \A fd \in Fds : o[fd] # Closed => Written(f, dt, o[fd])

LEMMA HeadsTaken ==
  ASSUME NEW f, NEW g, NEW n, NEW d, Graph(f), Heads(f, d), Taken(f, g, n)
  PROVE  Heads(g, d)
  <1>1. Live(g) = Live(f) \cup {n} /\ n \in Clusters /\ g[n] = EOC /\ n \notin Live(f)
    BY TakenGraph DEF Taken, Live
  <1>2. \A x \in Live(f) : g[x] = f[x] \/ g[x] = n
    BY DEF Taken, Live
  <1>3. \A i \in Used(d) : d[i].clus # n /\ d[i].clus # EOC
    BY <1>1, Numbers DEF Heads
  <1> QED  BY <1>1, <1>2, <1>3 DEF Heads

\* The places of what was written stay when a cluster is taken, and when the
\* chains of other files are returned.
LEMMA WrittenTaken ==
  ASSUME NEW f, NEW g, NEW n, Graph(f), Taken(f, g, n), NEW dt, NEW e,
         e.clus \in Live(f) \cap Clusters, e.size \in Nat, Written(f, dt, e)
  PROVE  Written(g, dt, e)
  <1> SUFFICES ASSUME NEW p \in 0 .. e.size - 1
               PROVE  Link(g, e.clus, p \div BytesPerClus) = Link(f, e.clus, p \div BytesPerClus)
    BY DEF Written
  <1>1. Link(f, e.clus, p \div BytesPerClus) # EOC
    BY Numbers DEF Written
  <1>2. p \in Nat /\ BytesPerClus \in Nat \ {0}
    BY FATAssumption DEF FATAssumption
  <1>3. p \div BytesPerClus \in Nat
    BY <1>2, Divide
  <1> QED  BY <1>1, <1>3, TakenKeeps

LEMMA WrittenReturned ==
  ASSUME NEW f, NEW g, NEW D, Graph(f), Returned(f, g, D), NEW dt, NEW du, NEW e,
         e.clus \in Live(f) \cap Clusters, e.size \in Nat, Written(f, dt, e),
         Chain(f, e.clus) \cap D = {}, \A x \in Live(g) \cap Clusters : du[x] = dt[x]
  PROVE  Written(g, du, e)
  <1> SUFFICES ASSUME NEW p \in 0 .. e.size - 1
               PROVE  /\ Link(g, e.clus, p \div BytesPerClus) = Link(f, e.clus, p \div BytesPerClus)
                      /\ Link(f, e.clus, p \div BytesPerClus) \in Live(g) \cap Clusters
    BY DEF Written
  <1> DEFINE S == Chain(f, e.clus)
             k == p \div BytesPerClus
  <1>1. Link(f, e.clus, k) # EOC
    BY Numbers DEF Written
  <1>2. p \in Nat /\ BytesPerClus \in Nat \ {0}
    BY FATAssumption DEF FATAssumption
  <1>3. k \in Nat
    BY <1>2, Divide
  <1>4. f \in [Table -> Entry] /\ g \in [Table -> Entry] /\ e.clus \in Entry /\ e.clus # EOC
    BY Numbers DEF Graph, Returned
  <1>5. /\ S \in SUBSET Table /\ EOC \notin S /\ e.clus \in S /\ S \subseteq Live(f) \cap Clusters
        /\ \A x \in S : f[x] # EOC => f[x] \in S
    BY <1>4, ChainLive, ChainStep DEF Chain
  <1>6. Live(g) = Live(f) \ D /\ \A x \in Live(g) : g[x] = f[x]
    BY ReturnedGraph
  <1>7. \A x \in S : x \in Live(g) /\ g[x] = f[x]
    BY <1>5, <1>6
  <1> HIDE DEF S, k
  <1>8. \A x \in S : f[x] # EOC => f[x] \in S /\ g[x] = f[x]
    BY <1>5, <1>7
  <1>9. Link(f, e.clus, k) \in S /\ Link(g, e.clus, k) = Link(f, e.clus, k)
    BY <1>1, <1>3, <1>4, <1>5, <1>8, LinkKept
  <1> QED  BY <1>5, <1>7, <1>9 DEF k

-----------------------------------------------------------------------------
(* FAT_write                                                               *)

Faults  == {"none", "torn", "astray", "boot", "root"}
Volumes == [fat : [Table -> Entry], data : DataType, size : Nat, full : BOOLEAN, fault : Faults]

Fine(s) == s.fault = "none" /\ ~s.full

\* The volume in the middle of a FAT_write through fd: all is as it will be left
\* if the call ends now.
Sound(s, fd) ==
  /\ s \in Volumes
  /\ orderly /\ ~s.full => s.fault \notin {"boot", "root"}
  /\ Fine(s) =>
       /\ Graph(s.fat) /\ Heads(s.fat, dir)
       /\ orderly => Order(s.fat, dir, s.data, vnode, [open EXCEPT ![fd].size = s.size])

\* The chain is long enough for the next piece.
Ready(s, fd) ==
  orderly /\ Fine(s) =>
    Link(s.fat, open[fd].clus, s.size \div BytesPerClus) \in Clusters

LEMMA OrderAllocated ==
  ASSUME NEW f, NEW g, NEW n, NEW dt, NEW o, Graph(f), Heads(f, dir), Taken(f, g, n),
         dir \in [Slots -> File \cup {Empty}], o \in [Fds -> File \cup {Closed}],
         NEW y \in Live(f) \cap Clusters, g[y] = n, Order(f, dir, dt, vnode, o)
  PROVE  Order(g, dir, dt, vnode, o)
  <1>1. /\ Live(g) = Live(f) \cup {n}
        /\ \A x \in Live(f) : f[x] # EOC => g[x] = f[x]
    BY TakenGraph DEF Taken, Live
  <1>2. Owned(g, dir)
    <2> SUFFICES ASSUME NEW x \in Live(g) \cap Clusters, \A i \in Used(dir) : dir[i].clus # x
                 PROVE  \E z \in Live(g) \cap Clusters : g[z] = x
      BY DEF Owned
    <2>1. CASE x = n
      BY <1>1, <2>1
    <2>2. CASE x # n
      <3>1. PICK z \in Live(f) \cap Clusters : f[z] = x
        BY <1>1, <2>2 DEF Order, Owned
      <3>2. g[z] = x
        BY <1>1, <3>1, Numbers
      <3> QED  BY <1>1, <3>2
    <2> QED  BY <2>1, <2>2
  <1>3. ASSUME NEW i \in Used(dir)  PROVE Written(g, dt, dir[i])
    <2>1. dir[i].size \in Nat /\ dir[i].clus \in Live(f) \cap Clusters
      BY DEF Heads, Used, File, Empty
    <2>2. Written(f, dt, dir[i])
      BY DEF Order
    <2> QED  BY <2>1, <2>2, WrittenTaken
  <1>4. ASSUME NEW fd \in Fds, o[fd] # Closed  PROVE Written(g, dt, o[fd])
    <2>1. o[fd].size \in Nat /\ o[fd].clus \in Live(f) \cap Clusters
      BY <1>4 DEF Heads, Order, Filed, File
    <2>2. Written(f, dt, o[fd])
      BY <1>4 DEF Order
    <2> QED  BY <2>1, <2>2, WrittenTaken
  <1> QED  BY <1>2, <1>3, <1>4 DEF Order

LEMMA NewVolume ==
  ASSUME NEW s \in Volumes, NEW c, NEW w, w = FAT_allocate_cluster(s, c), NEW n, n = FindFreeCluster(s.fat)
  PROVE  /\ w \in Volumes /\ w.size = s.size /\ w.data = s.data
         /\ s.fault # "none" => w = s
         /\ s.fault = "none" => w.fault \in {"none", "torn", "astray"}
         /\ ~w.full => ~s.full
         /\ Fine(w) => /\ Fine(s) /\ n # 0
                       /\ w.fat = FAT_set_entries(FAT_set_entries(s.fat, ChainEnd(s.fat, c), n), n, EOC)
  <1> DEFINE g == FAT_set_entries(FAT_set_entries(s.fat, ChainEnd(s.fat, c), n), n, EOC)
  <1>1. /\ s.fat \in [Table -> Entry] /\ s.data \in DataType /\ s.size \in Nat
        /\ s.full \in BOOLEAN /\ s.fault \in Faults
        /\ s = [fat |-> s.fat, data |-> s.data, size |-> s.size, full |-> s.full, fault |-> s.fault]
    BY DEF Volumes
  <1>2. n \in Table /\ Setting(n) \in {"none", "torn"}
    BY <1>1, FreeClusterIs DEF Setting
  <1>3. g \in [Table -> Entry]
    BY <1>1, <1>2, Numbers DEF FAT_set_entries
  <1>4. CASE s.fault # "none"
    <2>1. w = s
      BY <1>4 DEF FAT_allocate_cluster
    <2> QED  BY <1>4, <2>1 DEF Fine
  <1>5. CASE s.fault = "none" /\ Astray(s.fat, c)
    <2>1. w = [s EXCEPT !.fault = "astray"]
      BY <1>5 DEF FAT_allocate_cluster
    <2>2. w = [fat |-> s.fat, data |-> s.data, size |-> s.size, full |-> s.full, fault |-> "astray"]
      BY <1>1, <2>1
    <2> QED  BY <1>1, <1>5, <2>2 DEF Volumes, Faults, Fine
  <1>6. CASE s.fault = "none" /\ ~Astray(s.fat, c)
    <2>1. w = [s EXCEPT !.fat = g, !.full = s.full \/ n = 0, !.fault = Setting(n)]
      BY <1>6 DEF FAT_allocate_cluster
    <2> HIDE DEF g
    <2>2. PICK b \in BOOLEAN : b = (s.full \/ n = 0)
      OBVIOUS
    <2>3. w = [fat |-> g, data |-> s.data, size |-> s.size, full |-> b, fault |-> Setting(n)]
      BY <1>1, <2>1, <2>2
    <2>4. /\ w.fat = g /\ w.data = s.data /\ w.size = s.size /\ w.full = b /\ w.fault = Setting(n)
      BY <2>3
    <2>5. w \in Volumes
      BY <1>1, <1>2, <1>3, <2>3 DEF Volumes, Faults
    <2>6. ~w.full => ~s.full /\ n # 0
      BY Zenon, <2>2, <2>4
    <2> QED  BY <1>2, <1>6, <2>4, <2>5, <2>6 DEF Fine, g
  <1> QED  BY <1>4, <1>5, <1>6

LEMMA NewSound ==
  ASSUME Types, NEW fd \in Fds, open[fd] \in File, NEW s, Sound(s, fd),
         NEW w, w = FAT_allocate_cluster(s, open[fd].clus)
  PROVE  /\ Sound(w, fd) /\ w \in Volumes /\ w.size = s.size
         /\ Fine(w) => Fine(s)
  <1> DEFINE c == open[fd].clus
             n == FindFreeCluster(s.fat)
             o == [open EXCEPT ![fd].size = s.size]
  <1>1. /\ s \in Volumes /\ w \in Volumes /\ w.size = s.size /\ w.data = s.data
        /\ s.fault # "none" => w = s
        /\ s.fault = "none" => w.fault \in {"none", "torn", "astray"}
        /\ ~w.full => ~s.full
        /\ Fine(w) => /\ Fine(s) /\ n # 0
                      /\ w.fat = FAT_set_entries(FAT_set_entries(s.fat, ChainEnd(s.fat, c), n), n, EOC)
    BY NewVolume DEF Sound
  <1>2. orderly /\ ~w.full => w.fault \notin {"boot", "root"}
    <2>1. CASE s.fault = "none"
      BY <1>1, <2>1
    <2>2. CASE s.fault # "none"
      BY <1>1, <2>2 DEF Sound
    <2> QED  BY <2>1, <2>2
  <1>3. CASE ~Fine(w)
    BY <1>1, <1>2, <1>3 DEF Sound
  <1>4. CASE Fine(w)
    <2>1. /\ Fine(s) /\ s.fat \in [Table -> Entry] /\ Graph(s.fat) /\ Heads(s.fat, dir)
          /\ orderly => Order(s.fat, dir, s.data, vnode, o)
      BY <1>1, <1>4 DEF Sound, Volumes
    <2>2. /\ n # 0
          /\ w.fat = FAT_set_entries(FAT_set_entries(s.fat, ChainEnd(s.fat, c), n), n, EOC)
      BY <1>1, <1>4
    <2>4. c \in Clusters
      BY DEF File
    <2> HIDE DEF c
    <2>5. n = FindFreeCluster(s.fat)
      OBVIOUS
    <2> HIDE DEF n
    <2>6. Taken(s.fat, w.fat, n)
      BY <2>1, <2>2, <2>4, <2>5, AllocateTakes
    <2>7. Graph(w.fat) /\ Heads(w.fat, dir)
      BY <2>1, <2>6, TakenGraph, HeadsTaken
    <2>8. ASSUME orderly  PROVE Order(w.fat, dir, w.data, vnode, o)
      <3>1. o \in [Fds -> File \cup {Closed}] /\ o[fd] \in File /\ o[fd].clus = c
        BY <1>1 DEF Types, File, Volumes, c
      <3>2. o[fd] # Closed
        BY <3>1, FATAssumption DEF FATAssumption, Closed, File
      <3>3. c \in Live(s.fat) \cap Clusters
        BY <2>1, <2>8, <3>1, <3>2 DEF Heads, Order, Filed
      <3>4. ChainEnd(s.fat, c) \in Live(s.fat) \cap Clusters
        BY <2>1, <2>4, <3>3, ChainEndIs, ChainLive
      <3>5. w.fat[ChainEnd(s.fat, c)] = n
        <4>1. ChainEnd(s.fat, c) # n /\ n \in Table /\ ChainEnd(s.fat, c) \in Table
          BY <2>6, <3>4, Numbers DEF Taken, Live
        <4> QED  BY <2>1, <2>2, <4>1 DEF FAT_set_entries
      <3>6. Order(s.fat, dir, s.data, vnode, o)
        BY <2>1, <2>8
      <3> HIDE DEF o
      <3>7. Order(w.fat, dir, s.data, vnode, o)
        BY <2>1, <2>6, <3>1, <3>4, <3>5, <3>6, OrderAllocated DEF Types
      <3> QED  BY <1>1, <3>7
    <2> QED  BY <1>1, <1>2, <2>1, <2>7, <2>8 DEF Sound
  <1> QED  BY <1>3, <1>4

\* What one piece of a FAT_write to the file e does to the clusters.
Put(f, dt, e, len) ==
  LET k == Link(f, e.clus, e.size \div BytesPerClus)
      o == e.size % BytesPerClus
  IN  [dt EXCEPT ![k] = [x \in Offsets |-> IF x \in o .. o + len - 1
                                           THEN Byte(e.name, e.size + x - o)
                                           ELSE dt[k][x]]]

PieceFits(f, e, len) ==
  /\ e \in File /\ len \in Nat /\ (e.size % BytesPerClus) + len <= BytesPerClus
  /\ Link(f, e.clus, e.size \div BytesPerClus) \in Clusters

LEMMA PutIs ==
  ASSUME NEW f, NEW dt \in DataType, NEW e, NEW len, PieceFits(f, e, len),
         NEW x \in Clusters, NEW p \in Nat
  PROVE  Put(f, dt, e, len)[x][p % BytesPerClus] =
           IF /\ x = Link(f, e.clus, e.size \div BytesPerClus)
              /\ p % BytesPerClus \in (e.size % BytesPerClus) .. (e.size % BytesPerClus) + len - 1
           THEN Byte(e.name, e.size + (p % BytesPerClus) - (e.size % BytesPerClus))
           ELSE dt[x][p % BytesPerClus]
  <1> DEFINE k == Link(f, e.clus, e.size \div BytesPerClus)
             o == e.size % BytesPerClus
             t == [y \in Offsets |-> IF y \in o .. o + len - 1
                                     THEN Byte(e.name, e.size + y - o) ELSE dt[k][y]]
  <1>1. p % BytesPerClus \in Offsets
    BY Divide, FATAssumption DEF FATAssumption, Offsets
  <1>2. k \in Clusters
    BY DEF PieceFits
  <1>3. Put(f, dt, e, len) = [dt EXCEPT ![k] = t]
    BY DEF Put
  <1> HIDE DEF k
  <1>4. CASE x = k
    BY <1>1, <1>2, <1>3, <1>4 DEF DataType, k
  <1>5. CASE x # k
    BY <1>2, <1>3, <1>5 DEF DataType, k
  <1> QED  BY <1>4, <1>5

\* A file of which e is not the other name keeps its bytes.
LEMMA PutKeeps ==
  ASSUME NEW f, NEW dt \in DataType, NEW e, NEW len, PieceFits(f, e, len), NEW d,
         Graph(f), Heads(f, d), Filed(d, e), NEW b \in File, Filed(d, b),
         b.clus = e.clus => b.name = e.name, Written(f, dt, b)
  PROVE  Written(f, Put(f, dt, e, len), b)
  <1> DEFINE B == BytesPerClus
             q == e.size \div B
             o == e.size % B
  <1> SUFFICES ASSUME NEW p \in 0 .. b.size - 1
               PROVE  Put(f, dt, e, len)[Link(f, b.clus, p \div B)][p % B]
                        = dt[Link(f, b.clus, p \div B)][p % B]
    BY DEF Written
  <1> DEFINE x == Link(f, b.clus, p \div B)
             k == Link(f, e.clus, q)
  <1>1. p \in Nat /\ B \in Nat \ {0} /\ e.size \in Nat /\ b.size \in Nat
    BY FATAssumption DEF FATAssumption, PieceFits, File
  <1>2. /\ q \in Nat /\ o \in 0 .. B - 1 /\ e.size = q * B + o
        /\ p \div B \in Nat /\ p % B \in 0 .. B - 1 /\ p = (p \div B) * B + (p % B)
    BY <1>1, Divide
  <1>3. x \in Clusters /\ dt[x][p % B] = Byte(b.name, p)
    BY DEF Written
  <1>4. k \in Clusters
    BY DEF PieceFits
  <1>5. /\ e.clus \in Live(f) \cap Clusters /\ b.clus \in Live(f) \cap Clusters
        /\ \A y \in Live(f) : f[y] # b.clus /\ f[y] # e.clus
    BY DEF Heads, Filed
  <1>6. f \in [Table -> Entry] /\ e.clus \in Entry /\ b.clus \in Entry
    BY <1>5, Numbers DEF Graph
  <1>9. Put(f, dt, e, len)[x][p % B] =
           IF x = k /\ p % B \in o .. o + len - 1
           THEN Byte(e.name, e.size + (p % B) - o) ELSE dt[x][p % B]
    BY <1>1, <1>3, PutIs
  <1> HIDE DEF q, o
  <1>7. CASE x = k /\ p % B \in o .. o + len - 1
    <2>1. x \in Chain(f, b.clus) /\ k \in Chain(f, e.clus)
      BY <1>2, <1>3, <1>4, <1>6, ChainIs, Numbers
    <2>2. b.clus = e.clus
      BY <1>5, <1>7, <2>1, ChainsApart
    <2>3. p \div B = q
      BY <1>2, <1>3, <1>5, <1>7, <2>2, LinksDiffer, Numbers
    <2>4. e.size + (p % B) - o = p
      <3> DEFINE r == p % B
                 m == q * B
      <3>1. r \in Int /\ m \in Int /\ o \in Int /\ e.size = m + o /\ p = m + r
        BY <1>1, <1>2, <2>3
      <3> HIDE DEF r, m
      <3>2. e.size + r - o = p
        BY <3>1
      <3> QED  BY <3>2 DEF r
    <2>5. Put(f, dt, e, len)[x][p % B] = Byte(e.name, e.size + (p % B) - o)
      BY <1>7, <1>9
    <2> QED  BY <1>3, <2>2, <2>4, <2>5
  <1>8. CASE ~(x = k /\ p % B \in o .. o + len - 1)
    BY <1>8, <1>9
  <1> QED  BY <1>7, <1>8

\* The file that is written to has the new bytes too.
LEMMA PutAdds ==
  ASSUME NEW f, NEW dt \in DataType, NEW e, NEW len, PieceFits(f, e, len), NEW d,
         Graph(f), Heads(f, d), Filed(d, e), Written(f, dt, e)
  PROVE  Written(f, Put(f, dt, e, len), [e EXCEPT !.size = e.size + len])
  <1> DEFINE B == BytesPerClus
             q == e.size \div B
             o == e.size % B
             b == [e EXCEPT !.size = e.size + len]
             k == Link(f, e.clus, q)
             du == Put(f, dt, e, len)
  <1>1. B \in Nat \ {0} /\ e.size \in Nat /\ len \in Nat /\ e \in File
    BY FATAssumption DEF FATAssumption, PieceFits, File
  <1>2. q \in Nat /\ o \in 0 .. B - 1 /\ e.size = q * B + o
    BY <1>1, Divide
  <1>3. b.size = e.size + len /\ b.clus = e.clus /\ b.name = e.name
    BY <1>1 DEF File
  <1>4. Written(f, du, e)
    BY <1>1, PutKeeps
  <1>5. k \in Clusters /\ o + len <= B
    BY DEF PieceFits
  <1> HIDE DEF b, du, q, o
  <1> SUFFICES ASSUME NEW p \in 0 .. e.size + len - 1
               PROVE  /\ Link(f, e.clus, p \div B) \in Clusters
                      /\ du[Link(f, e.clus, p \div B)][p % B] = Byte(e.name, p)
    <2>1. ASSUME \A p \in 0 .. e.size + len - 1 :
                    /\ Link(f, e.clus, p \div B) \in Clusters
                    /\ du[Link(f, e.clus, p \div B)][p % B] = Byte(e.name, p)
          PROVE  Written(f, du, b)
      <3> SUFFICES ASSUME NEW p \in 0 .. b.size - 1
                   PROVE  /\ Link(f, b.clus, p \div B) \in Clusters
                          /\ du[Link(f, b.clus, p \div B)][p % B] = Byte(b.name, p)
        BY DEF Written
      <3>1. p \in 0 .. e.size + len - 1
        BY <1>1, <1>3
      <3> QED  BY <1>3, <2>1, <3>1
    <2> QED  BY <2>1 DEF b, du
  <1>6. CASE p < e.size
    <2>1. p \in 0 .. e.size - 1
      BY <1>1, <1>6
    <2> QED  BY <1>4, <2>1 DEF Written
  <1>7. CASE ~(p < e.size)
    <2> DEFINE r == p - q * B
               m == q * B
    <2>1. m \in Int /\ e.size = m + o /\ p \in Int /\ r = p - m
      BY <1>1, <1>2
    <2> HIDE DEF m
    <2>2. r \in o .. o + len - 1 /\ r \in 0 .. B - 1 /\ p = m + r /\ e.size + r - o = p /\ p \in Nat
      BY <1>1, <1>2, <1>5, <1>7, <2>1
    <2> HIDE DEF r
    <2>3. p \div B = q /\ p % B = r
      BY <1>1, <1>2, <2>2, Quotient DEF m
    <2>4. du[k][p % B] = Byte(e.name, e.size + (p % B) - o)
      BY <1>5, <2>2, <2>3, PutIs DEF q, o, du
    <2> QED  BY <1>5, <2>2, <2>3, <2>4
  <1> QED  BY <1>6, <1>7

\* The file behind fd as it is in the middle of the call.
Handled(s, fd) == [open[fd] EXCEPT !.size = s.size]

LEMMA HandledIs ==
  ASSUME Types, NEW fd \in Fds, open[fd] \in File, NEW s \in Volumes
  PROVE  /\ Handled(s, fd) \in File /\ Handled(s, fd) # Closed
         /\ Handled(s, fd).size = s.size /\ Handled(s, fd).name = open[fd].name
         /\ Handled(s, fd).clus = open[fd].clus
         /\ [open EXCEPT ![fd].size = s.size] \in [Fds -> File \cup {Closed}]
         /\ [open EXCEPT ![fd].size = s.size][fd] = Handled(s, fd)
         /\ \A b \in Fds \ {fd} : [open EXCEPT ![fd].size = s.size][b] = open[b]
  <1>1. Handled(s, fd) \in File /\ Handled(s, fd).size = s.size
        /\ Handled(s, fd).name = open[fd].name /\ Handled(s, fd).clus = open[fd].clus
    BY DEF Handled, File, Volumes
  <1>2. Handled(s, fd) # Closed
    BY <1>1, FATAssumption DEF FATAssumption, File, Closed
  <1>3. /\ [open EXCEPT ![fd].size = s.size] = [open EXCEPT ![fd] = Handled(s, fd)]
        /\ open \in [Fds -> File \cup {Closed}]
    BY DEF Handled, Types
  <1>4. /\ [open EXCEPT ![fd] = Handled(s, fd)] \in [Fds -> File \cup {Closed}]
        /\ [open EXCEPT ![fd] = Handled(s, fd)][fd] = Handled(s, fd)
        /\ \A b \in Fds \ {fd} : [open EXCEPT ![fd] = Handled(s, fd)][b] = open[b]
    BY <1>1, <1>3
  <1> QED  BY <1>1, <1>2, <1>3, <1>4

LEMMA PieceVolume ==
  ASSUME NEW s \in Volumes, NEW file \in File, NEW len \in Nat,
         NEW w, w = WritePiece(s, file, len),
         NEW k, k = Link(s.fat, file.clus, s.size \div BytesPerClus)
  PROVE  /\ w \in Volumes /\ w.full = s.full
         /\ s.fault # "none" => w = s
         /\ s.fault = "none" /\ (k < 2 \/ k = EOC) => w.fault # "none"
         /\ s.fault = "none" /\ ~(k < 2 \/ k = EOC) =>
              /\ w.fault = "none" /\ w.fat = s.fat /\ w.size = s.size + len
              /\ w.data = Put(s.fat, s.data, [file EXCEPT !.size = s.size], len)
  <1> DEFINE o == s.size % BytesPerClus
             t == [x \in Offsets |-> IF x \in o .. o + len - 1
                                     THEN Byte(file.name, s.size + x - o) ELSE s.data[k][x]]
             e == [file EXCEPT !.size = s.size]
  <1>1. /\ s.fat \in [Table -> Entry] /\ s.data \in DataType /\ s.size \in Nat
        /\ s.full \in BOOLEAN /\ s.fault \in Faults
        /\ s = [fat |-> s.fat, data |-> s.data, size |-> s.size, full |-> s.full, fault |-> s.fault]
    BY DEF Volumes
  <1>2. o \in Int
    BY <1>1, Divide, FATAssumption DEF FATAssumption
  <1>3. e.size = s.size /\ e.clus = file.clus /\ e.name = file.name /\ file.name \in Names
    BY DEF File
  <1> HIDE DEF e
  <1>4. CASE s.fault # "none"
    BY <1>4 DEF WritePiece
  <1>5. CASE s.fault = "none" /\ (k < 2 \/ k = EOC)
    <2>1. PICK x : x = Outside(s.fat, file.clus, k)
      OBVIOUS
    <2>2. x \in {"astray", "boot", "root"}
      BY <2>1 DEF Outside
    <2>3. w = [s EXCEPT !.fault = x]
      BY <1>5, <2>1 DEF WritePiece
    <2>4. w = [fat |-> s.fat, data |-> s.data, size |-> s.size, full |-> s.full, fault |-> x]
      BY <1>1, <2>3
    <2> QED  BY <1>1, <1>5, <2>2, <2>4 DEF Volumes, Faults
  <1>6. CASE s.fault = "none" /\ ~(k < 2 \/ k = EOC)
    <2> DEFINE u == [s.data EXCEPT ![k] = t]
    <2>1. w = [s EXCEPT !.size = s.size + len, !.data = u]
      BY <1>1, <1>6 DEF WritePiece
    <2>2. u = Put(s.fat, s.data, e, len)
      BY <1>3 DEF Put
    <2>3. u \in DataType
      <3>1. ASSUME k \in Clusters  PROVE t \in [Offsets -> Bytes]
        <4>0. \A x \in Offsets : x \in Int
          BY FATAssumption DEF Offsets, FATAssumption
        <4>1. \A x \in Offsets : x \in Int /\ s.data[k][x] \in Bytes
          BY <1>1, <3>1, <4>0 DEF DataType
        <4>2. \A x \in Int : Byte(file.name, s.size + x - o) \in Bytes
          BY <1>1, <1>2, <1>3 DEF Byte, Bytes
        <4> QED  BY <4>1, <4>2
      <3> HIDE DEF t
      <3> QED  BY <1>1, <3>1 DEF DataType
    <2> HIDE DEF u
    <2>4. /\ w \in Volumes /\ w.full = s.full /\ w.fault = "none" /\ w.fat = s.fat /\ w.size = s.size + len
          /\ w.data = Put(s.fat, s.data, e, len)
      <3>1. w = [fat |-> s.fat, data |-> u, size |-> s.size + len, full |-> s.full, fault |-> s.fault]
        BY <1>1, <2>1
      <3>2. s.size + len \in Nat
        BY <1>1
      <3>3. w \in Volumes
        BY <1>1, <2>3, <3>1, <3>2 DEF Volumes
      <3>4. /\ w.fault = s.fault /\ w.fat = s.fat /\ w.size = s.size + len /\ w.data = u
            /\ w.full = s.full
        BY <3>1
      <3> QED  BY <1>6, <2>2, <3>3, <3>4
    <2> QED  BY <1>6, <2>4 DEF e
  <1> QED  BY <1>4, <1>5, <1>6

\* A file whose entry is there in orderly use is all the call works on.
LEMMA SoundFile ==
  ASSUME Types, NEW fd \in Fds, open[fd] \in File, NEW s, Sound(s, fd), Fine(s), orderly
  PROVE  /\ Filed(dir, Handled(s, fd)) /\ Written(s.fat, s.data, Handled(s, fd))
         /\ open[fd].clus \in Live(s.fat) \cap Clusters
  <1>1. /\ s \in Volumes /\ Heads(s.fat, dir)
        /\ Order(s.fat, dir, s.data, vnode, [open EXCEPT ![fd].size = s.size])
    BY DEF Sound
  <1>2. /\ [open EXCEPT ![fd].size = s.size][fd] = Handled(s, fd) /\ Handled(s, fd) # Closed
        /\ Handled(s, fd).clus = open[fd].clus
    BY <1>1, HandledIs
  <1>3. Filed(dir, Handled(s, fd)) /\ Written(s.fat, s.data, Handled(s, fd))
    BY <1>1, <1>2 DEF Order
  <1>4. open[fd].clus \in Live(s.fat) \cap Clusters
    BY <1>1, <1>2, <1>3 DEF Filed, Heads
  <1> QED  BY <1>3, <1>4

LEMMA OrderPut ==
  ASSUME Types, NEW fd \in Fds, open[fd] \in File, NEW s, Sound(s, fd), Fine(s), orderly,
         NEW len, PieceFits(s.fat, Handled(s, fd), len), NEW w \in Volumes, w.fat = s.fat,
         w.size = s.size + len, w.data = Put(s.fat, s.data, Handled(s, fd), len)
  PROVE  Order(w.fat, dir, w.data, vnode, [open EXCEPT ![fd].size = w.size])
  <1> DEFINE e  == Handled(s, fd)
             o1 == [open EXCEPT ![fd].size = s.size]
             o2 == [open EXCEPT ![fd].size = w.size]
  <1>1. /\ s \in Volumes /\ Graph(s.fat) /\ Heads(s.fat, dir) /\ s.data \in DataType
        /\ Order(s.fat, dir, s.data, vnode, o1)
    BY DEF Sound, Volumes
  <1>2. /\ e \in File /\ e # Closed /\ e.size = s.size /\ o1[fd] = e
        /\ \A b \in Fds \ {fd} : o1[b] = open[b]
    BY <1>1, HandledIs
  <1>3. /\ Handled(w, fd) # Closed /\ o2[fd] = Handled(w, fd) /\ \A b \in Fds \ {fd} : o2[b] = open[b]
        /\ Handled(w, fd).name = e.name /\ Handled(w, fd).clus = e.clus
    BY <1>1, HandledIs, ZenonT(40)
  <1>4. Handled(w, fd) = [e EXCEPT !.size = e.size + len]
    <2>1. e = [name |-> open[fd].name, clus |-> open[fd].clus, size |-> s.size]
      BY DEF Handled, File
    <2>2. Handled(w, fd) = [name |-> open[fd].name, clus |-> open[fd].clus, size |-> s.size + len]
      BY DEF Handled, File
    <2> QED  BY <2>1, <2>2
  <1>5. Filed(dir, e) /\ Written(s.fat, s.data, e)
    BY SoundFile
  <1> HIDE DEF e, o1, o2
  <1>6. Written(w.fat, w.data, Handled(w, fd))
    BY <1>1, <1>4, <1>5, PutAdds DEF e
  <1>7. ASSUME NEW b \in File, Filed(dir, b), Written(s.fat, s.data, b), b.clus = e.clus => b.name = e.name
        PROVE  Written(w.fat, w.data, b)
    BY <1>1, <1>5, <1>7, PutKeeps DEF e
  <1>8. ASSUME NEW b, Filed(dir, b), b.clus = e.clus  PROVE b.name = e.name
    BY <1>1, <1>5, <1>8 DEF Filed, Heads
  <1>9. ASSUME NEW i \in Used(dir)  PROVE Written(w.fat, w.data, dir[i])
    <2>1. dir[i] \in File /\ Filed(dir, dir[i]) /\ Written(s.fat, s.data, dir[i])
      BY <1>1 DEF Types, Used, Empty, Order, Filed
    <2> QED  BY <2>1, <1>7, <1>8
  <1>10. ASSUME NEW b \in Fds, o2[b] # Closed  PROVE Filed(dir, o2[b]) /\ Written(w.fat, w.data, o2[b])
    <2>1. CASE b = fd
      <3>1. Filed(dir, Handled(w, fd))
        BY <1>3, <1>5 DEF Filed
      <3> QED  BY <1>3, <1>6, <2>1, <3>1
    <2>2. CASE b # fd
      <3>1. o2[b] = o1[b] /\ o1[b] \in File
        BY <1>2, <1>3, <1>10, <2>2 DEF Types
      <3>2. Filed(dir, o1[b]) /\ Written(s.fat, s.data, o1[b])
        BY <1>1, <1>10, <3>1 DEF Order
      <3> QED  BY <1>7, <1>8, <3>1, <3>2
    <2> QED  BY <2>1, <2>2
  <1>11. \A a, b \in Fds : o2[a] # Closed /\ o2[a].name = o2[b].name => a = b
    <2>1. \A a \in Fds : o2[a].name = o1[a].name /\ (o2[a] # Closed => o1[a] # Closed)
      BY <1>2, <1>3
    <2> QED  BY <1>1, <2>1 DEF Order
  <1>12. Order(w.fat, dir, w.data, vnode, o2)
    BY <1>1, <1>9, <1>10, <1>11 DEF Order
  <1> QED  BY <1>12 DEF o2

LEMMA PieceSound ==
  ASSUME Types, NEW fd \in Fds, open[fd] \in File, NEW s, Sound(s, fd), Ready(s, fd),
         NEW len \in Nat, (s.size % BytesPerClus) + len <= BytesPerClus,
         NEW w, w = WritePiece(s, open[fd], len)
  PROVE  /\ Sound(w, fd)
         /\ Fine(w) => Fine(s) /\ w.size = s.size + len
  <1>0. PICK k : k = Link(s.fat, open[fd].clus, s.size \div BytesPerClus)
    OBVIOUS
  <1>1. /\ s \in Volumes /\ w \in Volumes /\ w.full = s.full
        /\ s.fault # "none" => w = s
        /\ s.fault = "none" /\ (k < 2 \/ k = EOC) => w.fault # "none"
        /\ s.fault = "none" /\ ~(k < 2 \/ k = EOC) =>
             /\ w.fault = "none" /\ w.fat = s.fat /\ w.size = s.size + len
             /\ w.data = Put(s.fat, s.data, Handled(s, fd), len)
    BY <1>0, PieceVolume DEF Sound, Handled
  <1>2. orderly /\ Fine(s) => k \in Clusters
    BY <1>0 DEF Ready
  <1>3. k \in Clusters => ~(k < 2 \/ k = EOC)
    BY FATAssumption DEF FATAssumption, Clusters
  <1>4. CASE s.fault # "none"
    BY <1>1, <1>4 DEF Fine
  <1>5. CASE s.fault = "none" /\ (k < 2 \/ k = EOC)
    <2>1. ~Fine(w) /\ (~orderly \/ ~Fine(s))
      BY <1>1, <1>2, <1>3, <1>5 DEF Fine
    <2>2. ~orderly \/ w.full
      BY <1>1, <1>5, <2>1 DEF Fine
    <2> QED  BY <1>1, <2>1, <2>2 DEF Sound
  <1>6. CASE s.fault = "none" /\ ~(k < 2 \/ k = EOC)
    <2>1. /\ w.fault = "none" /\ w.fat = s.fat /\ w.size = s.size + len
          /\ w.data = Put(s.fat, s.data, Handled(s, fd), len)
      BY <1>1, <1>6
    <2>2. CASE ~Fine(s)
      <3>1. ~Fine(w)
        BY <1>1, <1>6, <2>1, <2>2 DEF Fine
      <3> QED  BY <1>1, <2>1, <3>1 DEF Sound
    <2>3. CASE Fine(s)
      <3>1. ASSUME orderly
            PROVE  Order(w.fat, dir, w.data, vnode, [open EXCEPT ![fd].size = w.size])
        <4>1. PieceFits(s.fat, Handled(s, fd), len)
          BY <1>0, <1>1, <1>2, <2>3, <3>1, HandledIs DEF PieceFits
        <4> QED  BY <1>1, <2>1, <2>3, <3>1, <4>1, OrderPut
      <3>2. Sound(w, fd)
        BY <1>1, <2>1, <2>3, <3>1 DEF Sound
      <3> QED  BY <2>1, <2>3, <3>2
    <2> QED  BY <2>2, <2>3
  <1> QED  BY <1>4, <1>5, <1>6

\* Where the chain is known to be long enough: within a cluster, at the start of
\* the file, and after FAT_allocate_cluster at the end of the last cluster.
LEMMA ReadyWithin ==
  ASSUME Types, NEW fd \in Fds, open[fd] \in File, NEW s, Sound(s, fd),
         s.size % BytesPerClus # 0 \/ s.size = 0
  PROVE  Ready(s, fd)
  <1> SUFFICES ASSUME orderly, Fine(s)
               PROVE  Link(s.fat, open[fd].clus, s.size \div BytesPerClus) \in Clusters
    BY DEF Ready
  <1> DEFINE B == BytesPerClus
             q == s.size \div B
             r == s.size % B
             c == open[fd].clus
  <1>1. s \in Volumes /\ s.size \in Nat /\ B \in Nat \ {0} /\ Graph(s.fat)
    BY FATAssumption DEF Sound, Volumes, FATAssumption
  <1>2. /\ Written(s.fat, s.data, Handled(s, fd)) /\ c \in Clusters
        /\ Handled(s, fd).size = s.size /\ Handled(s, fd).clus = c
    BY <1>1, SoundFile, HandledIs
  <1>3. q \in Nat /\ r \in 0 .. B - 1 /\ s.size = q * B + r
    BY <1>1, Divide
  <1>4. CASE s.size = 0
    <2>1. 0 = 0 * B + 0 /\ 0 \in 0 .. B - 1
      BY <1>1
    <2>2. q = 0
      BY <1>1, <1>4, <2>1, Quotient
    <2> QED  BY <1>1, <1>2, <2>2, LinkIs, Numbers DEF Graph
  <1>5. CASE s.size # 0
    <2>1. r # 0
      BY <1>5
    <2> DEFINE m == q * B
    <2>2. m \in Int /\ s.size = m + r
      BY <1>1, <1>3
    <2> HIDE DEF q, r, m
    <2>3. s.size - 1 = m + (r - 1) /\ r - 1 \in 0 .. B - 1 /\ s.size - 1 \in Nat
      BY <1>1, <1>3, <1>5, <2>1, <2>2
    <2>4. (s.size - 1) \div B = q
      BY <1>1, <1>3, <2>3, Quotient DEF m
    <2>5. s.size - 1 \in 0 .. s.size - 1
      BY <1>1, <2>3
    <2>6. Link(s.fat, c, (s.size - 1) \div B) \in Clusters
      BY <1>2, <2>5 DEF Written
    <2> QED  BY <2>4, <2>6 DEF q
  <1> QED  BY <1>4, <1>5

LEMMA ReadyAfterNew ==
  ASSUME Types, NEW fd \in Fds, open[fd] \in File, NEW s, Sound(s, fd),
         s.size % BytesPerClus = 0, s.size # 0,
         NEW w, w = FAT_allocate_cluster(s, open[fd].clus)
  PROVE  Ready(w, fd)
  <1> DEFINE B == BytesPerClus
             q == s.size \div B
             c == open[fd].clus
             n == FindFreeCluster(s.fat)
  <1> SUFFICES ASSUME orderly, Fine(w)
               PROVE  Link(w.fat, c, w.size \div B) \in Clusters
    BY DEF Ready
  <1>1. s \in Volumes /\ s.size \in Nat /\ B \in Nat \ {0}
    BY FATAssumption DEF Sound, Volumes, FATAssumption
  <1>2. Fine(s)
    BY <1>1, NewVolume
  <1>3. Graph(s.fat) /\ s.fat \in [Table -> Entry]
    BY <1>2 DEF Sound, Graph
  <1>4. /\ Written(s.fat, s.data, Handled(s, fd)) /\ c \in Live(s.fat) \cap Clusters
        /\ Handled(s, fd).size = s.size /\ Handled(s, fd).clus = c
    BY <1>1, <1>2, SoundFile, HandledIs
  <1>5. /\ w.size = s.size /\ n # 0
        /\ w.fat = FAT_set_entries(FAT_set_entries(s.fat, ChainEnd(s.fat, c), n), n, EOC)
    BY <1>1, <1>2, NewVolume
  <1>6. q \in Nat /\ s.size = q * B
    <2>1. q \in Nat /\ s.size = q * B + (s.size % B)
      BY <1>1, Divide
    <2>2. q * B \in Int
      BY <1>1, <2>1
    <2> HIDE DEF q
    <2> QED  BY <2>1, <2>2
  <1>7. Taken(s.fat, w.fat, n)
    BY <1>3, <1>4, <1>5, AllocateTakes
  <1>8. w.fat[ChainEnd(s.fat, c)] = n
    <2>1. ChainEnd(s.fat, c) \in Table /\ s.fat[ChainEnd(s.fat, c)] = EOC /\ n \in Table
      BY <1>3, <1>4, ChainEndIs, FreeClusterIs DEF Live
    <2>2. ChainEnd(s.fat, c) # n
      BY <1>7, <2>1, Numbers DEF Taken
    <2> QED  BY <1>3, <1>5, <2>1, <2>2 DEF FAT_set_entries
  <1> HIDE DEF n, q
  <1>9. q # 0 /\ q - 1 \in Nat /\ (q - 1) + 1 = q
    BY <1>1, <1>6
  <1>10. Link(s.fat, c, q - 1) \in Clusters
    <2>1. s.size - 1 = (q - 1) * B + (B - 1) /\ B - 1 \in 0 .. B - 1 /\ s.size - 1 \in Nat
      BY <1>1, <1>6, <1>9
    <2>2. (s.size - 1) \div B = q - 1
      BY <1>1, <1>9, <2>1, Quotient
    <2>3. s.size - 1 \in 0 .. s.size - 1
      BY <1>1, <2>1
    <2> QED  BY <1>4, <2>2, <2>3 DEF Written
  <1>11. Link(w.fat, c, (q - 1) + 1) \in Clusters
    BY <1>3, <1>4, <1>7, <1>8, <1>9, <1>10, AllocateLengthens
  <1> QED  BY <1>5, <1>9, <1>11 DEF q

\* The loop over whole clusters: the volume after each turn.
Turns(s, file) ==
  LET loop[i \in Nat] == IF i = 0 THEN s
                         ELSE WritePiece(FAT_allocate_cluster(loop[i - 1], file.clus),
                                         file, BytesPerClus)
  IN  loop

LEMMA TurnsAre ==
  ASSUME NEW s \in Volumes, NEW file \in File
  PROVE  /\ Turns(s, file)[0] = s
         /\ \A i \in Nat : Turns(s, file)[i + 1] =
              WritePiece(FAT_allocate_cluster(Turns(s, file)[i], file.clus), file, BytesPerClus)
  <1> DEFINE Turn(v) == WritePiece(FAT_allocate_cluster(v, file.clus), file, BytesPerClus)
             G == [v \in Volumes |-> Turn(v)]
             Body(n) == [i \in Nat |-> IF i = 0 THEN s ELSE Turn(n[i - 1])]
             N == CHOOSE n : n = Body(n)
  <1>1. Maps(G, Volumes)
    <2>1. BytesPerClus \in Nat
      BY FATAssumption DEF FATAssumption
    <2>2. \A v \in Volumes : Turn(v) \in Volumes
      BY <2>1, NewVolume, PieceVolume
    <2> HIDE DEF Turn
    <2> QED  BY <2>2 DEF Maps
  <1>2. PICK h : h \in [Nat -> Volumes] /\ h[0] = s /\ \A i \in Nat : h[i + 1] = G[h[i]]
    <2> HIDE DEF G
    <2>1. PICK h : Solves(h, Volumes, s, G)
      BY <1>1, Recursion
    <2> QED  BY <2>1 DEF Solves
  <1> HIDE DEF Turn
  <1>3. \A i \in Nat : h[i + 1] = Turn(h[i])
    BY <1>2
  <1>4. h = Body(h)
    <2>1. ASSUME NEW i \in Nat  PROVE h[i] = IF i = 0 THEN s ELSE Turn(h[i - 1])
      <3>1. CASE i = 0
        BY <1>2, <3>1
      <3>2. CASE i # 0
        <4>1. i - 1 \in Nat /\ (i - 1) + 1 = i
          BY <3>2
        <4> QED  BY <1>3, <3>2, <4>1
      <3> QED  BY <3>1, <3>2
    <2> QED  BY <1>2, <2>1
  <1>5. N = Body(N)
    BY <1>4
  <1>6. Turns(s, file) = N
    BY DEF Turns, N, Turn
  <1> HIDE DEF N
  <1>7. N[0] = s /\ \A i \in Nat : N[i + 1] = Turn(N[i])
    <2>1. \A j \in Nat : N[j] = IF j = 0 THEN s ELSE Turn(N[j - 1])
      BY <1>5
    <2>2. \A i \in Nat : i + 1 \in Nat /\ i + 1 # 0 /\ (i + 1) - 1 = i
      OBVIOUS
    <2> QED  BY <2>1, <2>2
  <1> QED  BY <1>6, <1>7 DEF Turn

\* A call that has gone wrong goes on, and stays so.
LEMMA UnfineSound ==
  ASSUME NEW fd \in Fds, open[fd] \in File, NEW s, Sound(s, fd), ~Fine(s), NEW len \in Nat,
         NEW w, w = WritePiece(s, open[fd], len)
  PROVE  Sound(w, fd) /\ ~Fine(w)
  <1>1. /\ w \in Volumes /\ w.full = s.full
        /\ s.fault # "none" => w = s
    <2>1. s \in Volumes
      BY DEF Sound
    <2>2. PICK file, k : file = open[fd] /\ k = Link(s.fat, file.clus, s.size \div BytesPerClus)
      OBVIOUS
    <2>3. file \in File /\ w = WritePiece(s, file, len)
      BY <2>2
    <2>4. /\ w \in Volumes /\ w.full = s.full
          /\ s.fault # "none" => w = s
          /\ s.fault = "none" /\ (k < 2 \/ k = EOC) => w.fault # "none"
          /\ s.fault = "none" /\ ~(k < 2 \/ k = EOC) =>
               /\ w.fault = "none" /\ w.fat = s.fat /\ w.size = s.size + len
               /\ w.data = Put(s.fat, s.data, [file EXCEPT !.size = s.size], len)
      BY <2>1, <2>2, <2>3, PieceVolume
    <2> QED  BY <2>4
  <1>2. CASE s.fault # "none"
    BY <1>1, <1>2
  <1>3. CASE s.fault = "none"
    <2>1. s.full /\ w.full
      BY <1>1, <1>3 DEF Fine
    <2> QED  BY <1>1, <2>1 DEF Sound, Fine
  <1> QED  BY <1>2, <1>3

\* Each turn finds the file at the start of a cluster, and leaves it so.
LEMMA TurnsSound ==
  ASSUME Types, NEW fd \in Fds, open[fd] \in File, NEW s, Sound(s, fd),
         Fine(s) => s.size % BytesPerClus = 0
  PROVE  \A i \in Nat : LET v == Turns(s, open[fd])[i] IN
                        Sound(v, fd) /\ (Fine(v) => v.size % BytesPerClus = 0)
  <1> DEFINE file == open[fd]
             B == BytesPerClus
             N == Turns(s, file)
             Good(v) == Sound(v, fd) /\ (Fine(v) => v.size % B = 0)
             A == {i \in Nat : Good(N[i])}
  <1>1. N[0] = s /\ \A i \in Nat : N[i + 1] = WritePiece(FAT_allocate_cluster(N[i], file.clus), file, B)
    BY TurnsAre DEF Sound
  <1> HIDE DEF N
  <1>2. B \in Nat \ {0}
    BY FATAssumption DEF FATAssumption
  <1>3. ASSUME NEW v, Good(v)  PROVE Good(WritePiece(FAT_allocate_cluster(v, file.clus), file, B))
    <2>0. PICK u, w : u = FAT_allocate_cluster(v, file.clus) /\ w = WritePiece(u, file, B)
      OBVIOUS
    <2>1. v \in Volumes /\ Sound(u, fd) /\ u \in Volumes /\ u.size = v.size
          /\ (Fine(u) => Fine(v)) /\ v.size \in Nat
      <3>1. Sound(v, fd) /\ v \in Volumes
        BY <1>3 DEF Sound
      <3>2. v.size \in Nat
        BY <3>1 DEF Volumes
      <3>3. u = FAT_allocate_cluster(v, open[fd].clus)
        BY <2>0
      <3>4. Sound(u, fd) /\ u \in Volumes /\ u.size = v.size /\ (Fine(u) => Fine(v))
        BY <3>1, <3>3, NewSound
      <3> QED  BY <3>1, <3>2, <3>4
    <2>2. CASE ~Fine(u)
      <3>1. Ready(u, fd)
        BY <2>2 DEF Ready
      <3> QED  BY <1>2, <2>0, <2>1, <2>2, UnfineSound
    <2>3. CASE Fine(u)
      <3>1. v.size % B = 0 /\ v.size \in Nat
        BY <1>3, <2>1, <2>3
      <3>2. Ready(u, fd)
        <4>1. CASE v.size = 0
          BY <2>1, <4>1, ReadyWithin
        <4>2. CASE v.size # 0
          BY <1>3, <2>0, <3>1, <4>2, ReadyAfterNew
        <4> QED  BY <4>1, <4>2
      <3>3. (u.size % B) + B <= B
        BY <1>2, <2>1, <3>1
      <3>4. Sound(w, fd) /\ (Fine(w) => w.size = u.size + B)
        BY <1>2, <2>0, <2>1, <3>2, <3>3, PieceSound
      <3>5. (u.size + B) % B = 0
        <4> DEFINE q == v.size \div B
        <4>1. q \in Nat /\ v.size = q * B + 0 /\ 0 \in 0 .. B - 1
          BY <1>2, <3>1, Divide
        <4> HIDE DEF q
        <4>2. v.size + B = (q + 1) * B + 0 /\ q + 1 \in Nat /\ v.size + B \in Nat
          BY <1>2, <3>1, <4>1
        <4>3. (v.size + B) % B = 0
          BY <1>2, <4>1, <4>2, Quotient
        <4> QED  BY <2>1, <4>3
      <3> QED  BY <2>0, <3>4, <3>5
    <2> QED  BY <2>2, <2>3
  <1>4. 0 \in A
    BY <1>1
  <1> HIDE DEF Good
  <1>5. \A i \in Nat : i \in A => i + 1 \in A
    BY <1>1, <1>3
  <1> HIDE DEF A
  <1>6. \A i \in Nat : i \in A
    BY <1>4, <1>5, Induct
  <1> QED  BY <1>6 DEF A, Good, N

\* The three phases of a FAT_write, each of which finds the chain long enough.
LEMMA WriteSound ==
  ASSUME Types, Intact, full \in BOOLEAN, Graph(fat), Heads(fat, dir),
         orderly => Order(fat, dir, data, vnode, open),
         NEW fd \in Fds, NEW len \in Nat, open[fd] \in File, FAT_write(fd, len)
  PROVE  \E v : /\ Sound(v, fd) /\ fat' = v.fat /\ full' = v.full /\ fault' = v.fault
                /\ data' = Tracked(v.data) /\ open' = [open EXCEPT ![fd].size = v.size]
  <1> DEFINE file == open[fd]
             B    == BytesPerClus
             new(s) == FAT_allocate_cluster(s, file.clus)
             s0   == [fat |-> fat, data |-> data, size |-> file.size, full |-> full, fault |-> fault]
             s1   == IF s0.size > 0 /\ s0.size % B = 0 THEN new(s0) ELSE s0
             room == B - (s0.size % B)
             head == IF room = B THEN 0 ELSE IF room >= len THEN len ELSE room
             s2   == IF room = B THEN s1 ELSE WritePiece(s1, file, head)
             s3   == Turns(s2, file)[(len - head) \div B]
             rest == (len - head) % B
             s4   == IF rest = 0 THEN s3
                     ELSE WritePiece(IF s3.size > 0 THEN new(s3) ELSE s3, file, rest)
  <1>1. /\ fat' = s4.fat /\ full' = s4.full /\ fault' = s4.fault /\ data' = Tracked(s4.data)
        /\ open' = [open EXCEPT ![fd].size = s4.size]
    BY DEF FAT_write, Turns
  <1>2. file \in File /\ file.size \in Nat /\ B \in Nat \ {0}
    BY FATAssumption DEF FATAssumption, File
  <1>3. Sound(s0, fd) /\ s0.size = file.size /\ s0 \in Volumes
    <2>1. s0 \in Volumes
      BY <1>2 DEF Types, Graph, Volumes, Faults, Intact
    <2>2. [open EXCEPT ![fd].size = file.size] = open
      BY DEF Types, File
    <2>3. s0.fault \notin {"boot", "root"}
      BY DEF Intact
    <2> QED  BY <2>1, <2>2, <2>3 DEF Sound
  <1> DEFINE q == file.size \div B
             r == file.size % B
             m == q * B
  <1>4. q \in Nat /\ r \in 0 .. B - 1 /\ file.size = m + r /\ m \in Int
    <2>1. q \in Nat /\ r \in 0 .. B - 1 /\ file.size = m + r
      BY <1>2, Divide
    <2> HIDE DEF q
    <2> QED  BY <1>2, <2>1
  <1>5. head \in 0 .. len /\ r + head <= B /\ room = B - r /\ (room = B <=> r = 0)
    <2>1. room = B - r
      BY <1>3
    <2> HIDE DEF room, r
    <2> QED  BY <1>2, <1>4, <2>1
  <1>6. Sound(s1, fd) /\ s1.size = file.size /\ s1 \in Volumes
    <2>1. Sound(new(s0), fd) /\ new(s0).size = s0.size
      BY <1>2, <1>3, NewSound, NewVolume
    <2> HIDE DEF s0
    <2> QED  BY <1>3, <2>1 DEF Sound
  <1>7. Ready(s1, fd)
    <2>1. CASE file.size > 0 /\ file.size % B = 0
      <3>1. s1 = new(s0)
        BY <1>3, <2>1
      <3>2. s0.size # 0 /\ s0.size % B = 0
        BY <1>3, <2>1
      <3> HIDE DEF s0, s1
      <3> QED  BY <1>2, <1>3, <3>1, <3>2, ReadyAfterNew
    <2>2. CASE ~(file.size > 0 /\ file.size % B = 0)
      <3>1. s1 = s0
        BY <1>3, <2>2
      <3>2. s0.size % B # 0 \/ s0.size = 0
        BY <1>2, <1>3, <2>2
      <3> HIDE DEF s0, s1
      <3> QED  BY <1>2, <1>3, <3>1, <3>2, ReadyWithin
    <2> QED  BY <2>1, <2>2
  <1>8. Sound(s2, fd) /\ (Fine(s2) => s2.size = file.size + head)
    <2>1. CASE room = B
      <3>1. head = 0 /\ s2 = s1
        BY <2>1
      <3> HIDE DEF s1, s2, head
      <3> QED  BY <1>2, <1>6, <3>1
    <2>2. CASE room # B
      <3>1. s2 = WritePiece(s1, file, head)
        BY <2>2
      <3> HIDE DEF s1, s2, head, room
      <3>2. head \in Nat /\ (s1.size % B) + head <= B
        BY <1>5, <1>6
      <3> QED  BY <1>2, <1>6, <1>7, <3>1, <3>2, PieceSound
    <2> QED  BY <2>1, <2>2
  <1> HIDE DEF s0, s1, s2
  <1>9. CASE head = len
    <2>1. len - head = 0
      BY <1>9
    <2>2. 0 = 0 * B + 0 /\ 0 \in 0 .. B - 1
      BY <1>2
    <2>3. (len - head) \div B = 0 /\ rest = 0
      BY <1>2, <2>1, <2>2, Quotient
    <2>4. s4 = s2
      BY <1>2, <1>8, <2>3, TurnsAre DEF Sound
    <2> HIDE DEF s4
    <2> QED  BY <1>1, <1>8, <2>4
  <1>10. CASE head # len
    <2>1. Fine(s2) => s2.size % B = 0
      <3>1. head = IF r = 0 THEN 0 ELSE B - r
        BY <1>5, <1>10
      <3> HIDE DEF head, r, q
      <3>2. CASE r = 0
        <4>1. file.size + head = q * B + 0 /\ file.size + head \in Nat /\ 0 \in 0 .. B - 1
          BY <1>2, <1>4, <3>1, <3>2
        <4> QED  BY <1>2, <1>4, <1>8, <4>1, Quotient
      <3>3. CASE r # 0
        <4>1. file.size + head = m + B /\ m + B = (q + 1) * B + 0
          BY <1>2, <1>4, <3>1, <3>3
        <4>2. file.size + head \in Nat /\ 0 \in 0 .. B - 1 /\ q + 1 \in Nat
          BY <1>2, <1>4, <1>5
        <4>3. file.size + head = (q + 1) * B + 0
          BY <4>1
        <4> HIDE DEF m
        <4> QED  BY <1>2, <1>8, <4>2, <4>3, Quotient
      <3> QED  BY <3>2, <3>3
    <2>2. len - head \in Nat
      BY <1>5
    <2>3. (len - head) \div B \in Nat /\ rest \in 0 .. B - 1
      BY <1>2, <2>2, Divide
    <2>4. Sound(s3, fd) /\ (Fine(s3) => s3.size % B = 0)
      BY <1>2, <1>8, <2>1, <2>3, TurnsSound
    <2> HIDE DEF s3, head
    <2>5. CASE rest = 0
      BY <1>1, <2>4, <2>5
    <2>6. CASE rest # 0
      <3>0. PICK u : u = IF s3.size > 0 THEN new(s3) ELSE s3
        OBVIOUS
      <3>1. s3 \in Volumes /\ s3.size \in Nat
        BY <2>4 DEF Sound, Volumes
      <3>2. Sound(u, fd) /\ u \in Volumes /\ u.size = s3.size /\ (Fine(u) => Fine(s3))
        BY <1>2, <2>4, <3>0, <3>1, NewSound
      <3>3. s4 = WritePiece(u, file, rest) /\ rest \in Nat
        BY <2>3, <2>6, <3>0
      <3> HIDE DEF rest, s4
      <3>4. CASE ~Fine(u)
        <4>1. Sound(s4, fd)
          BY <1>2, <3>2, <3>3, <3>4, UnfineSound
        <4> QED  BY <1>1, <4>1
      <3>5. CASE Fine(u)
        <4>1. s3.size % B = 0
          BY <2>4, <3>2, <3>5
        <4>2. Ready(u, fd)
          <5>1. CASE s3.size = 0
            BY <1>2, <3>2, <5>1, ReadyWithin
          <5>2. CASE s3.size # 0
            <6>1. u = new(s3)
              BY <3>0, <3>1, <5>2
            <6> QED  BY <1>2, <2>4, <3>1, <4>1, <5>2, <6>1, ReadyAfterNew
          <5> QED  BY <5>1, <5>2
        <4>3. (u.size % B) + rest <= B
          BY <1>2, <2>3, <3>2, <4>1
        <4>4. Sound(s4, fd)
          BY <1>2, <3>2, <3>3, <4>2, <4>3, PieceSound
        <4> QED  BY <1>1, <4>4
      <3> QED  BY <3>4, <3>5
    <2> QED  BY <2>5, <2>6
  <1> QED  BY <1>9, <1>10

-----------------------------------------------------------------------------
(* The invariant                                                           *)

Whole ==
  /\ Types /\ Graph(fat) /\ Heads(fat, dir)
  /\ orderly => Order(fat, dir, data, vnode, open)

FATInv ==
  /\ orderly \in BOOLEAN /\ full \in BOOLEAN
  /\ orderly /\ ~full => fault \notin {"boot", "root"}
  /\ Intact => Whole

LEMMA FirstSlotIs ==
  ASSUME NEW S \in SUBSET Slots, S # {}
  PROVE  FirstSlot(S) \in S
  <1>1. S \in SUBSET Nat
    BY DEF Slots
  <1>2. \E m \in S : \A k \in S : m <= k
    BY <1>1, Least
  <1> QED  BY <1>2 DEF FirstSlot

LEMMA TrackedIs ==
  ASSUME NEW d \in DataType
  PROVE  Tracked(d) \in DataType /\ (orderly' => Tracked(d) = d)
  <1>1. Byte(Nobody, 0) \in Bytes
    BY DEF Byte, Bytes
  <1> QED  BY <1>1 DEF Tracked, DataType, Unwritten

LEMMA InitWhole ==
  ASSUME Init  PROVE FATInv
  <1>1. PICK media \in {1, EOC} : fat = [x \in Table |-> CASE x = 0 -> media [] x = 1 -> EOC [] OTHER -> 0]
    BY DEF Init
  <1>2. /\ fat \in [Table -> Entry] /\ Live(fat) = {0, 1} /\ fat[0] \in {1, EOC} /\ fat[1] = EOC
        /\ EOC # 0 /\ EOC # 1
    BY <1>1, Numbers DEF Live
  <1>3. Graph(fat)
    <2>1. ASSUME NEW S \in SUBSET Live(fat), S # {}
          PROVE  (\E x \in S : fat[x] \notin S) /\ (\E x \in S : \A y \in S : fat[y] # x)
      <3>1. S = {0} \/ S = {1} \/ S = {0, 1}
        BY <1>2, <2>1
      <3> QED  BY <1>2, <3>1
    <2>2. ChainsEnd(fat) /\ ChainsBegin(fat)
      BY <2>1 DEF ChainsEnd, ChainsBegin
    <2> QED  BY <1>2, <2>2 DEF Graph
  <1>4. Used(dir) = {}
    BY DEF Init, Used, Empty
  <1>5. Types
    <2>1. Byte(Nobody, 0) \in Bytes
      BY DEF Byte, Bytes
    <2> QED  BY <2>1 DEF Init, Types, DataType, Unwritten
  <1>6. Order(fat, dir, data, vnode, open)
    <2>1. Owned(fat, dir)
      BY <1>2, Numbers DEF Owned
    <2> QED  BY <1>4, <2>1 DEF Order, Init
  <1> QED  BY <1>3, <1>4, <1>5, <1>6 DEF Init, FATInv, Whole, Heads

LEMMA WriteWhole ==
  ASSUME Whole, Intact, orderly \in BOOLEAN, full \in BOOLEAN, NEW fd \in Fds, NEW len \in WriteLens,
         FAT_write(fd, len)
  PROVE  FATInv'
  <1>1. /\ open[fd] \in File /\ len \in Nat /\ Types /\ Graph(fat) /\ Heads(fat, dir)
        /\ orderly => Order(fat, dir, data, vnode, open)
    BY FATAssumption DEF FATAssumption, FAT_write, Whole, Types
  <1>2. /\ orderly' = orderly /\ dir' = dir /\ vnode' = vnode
    BY DEF FAT_write, Keeps
  <1>3. PICK v : /\ Sound(v, fd) /\ fat' = v.fat /\ full' = v.full /\ fault' = v.fault
                 /\ data' = Tracked(v.data) /\ open' = [open EXCEPT ![fd].size = v.size]
    BY <1>1, WriteSound
  <1>4. v \in Volumes /\ v.data \in DataType
    BY <1>3 DEF Sound, Volumes
  <1>5. open' \in [Fds -> File \cup {Closed}]
    BY <1>1, <1>3, <1>4, HandledIs
  <1>6. data' \in DataType /\ (orderly => data' = v.data)
    BY <1>2, <1>3, <1>4, TrackedIs
  <1>7. Types'
    BY <1>1, <1>2, <1>5, <1>6 DEF Types
  <1>8. ASSUME Fine(v)  PROVE Whole'
    BY <1>2, <1>3, <1>6, <1>7, <1>8 DEF Sound, Whole
  <1>9. Intact' => Fine(v)
    BY <1>3 DEF Intact, Fine
  <1>10. full' \in BOOLEAN
    BY <1>3, <1>4 DEF Volumes
  <1> QED  BY <1>2, <1>3, <1>8, <1>9, <1>10 DEF FATInv, Sound

LEMMA CloseWhole ==
  ASSUME Whole, Intact, orderly \in BOOLEAN, full \in BOOLEAN, NEW fd \in Fds, FAT_close(fd)
  PROVE  FATInv'
  <1>1. /\ open[fd] \in File /\ Types /\ Graph(fat) /\ Heads(fat, dir)
        /\ orderly => Order(fat, dir, data, vnode, open)
    BY DEF FAT_close, Whole, Types
  <1>2. /\ orderly' = orderly /\ fat' = fat /\ vnode' = vnode /\ data' = data /\ full' = full
        /\ fault' \in PastRoot /\ open' = [open EXCEPT ![fd] = Closed]
    BY DEF FAT_close, PastRoot
  <1>3. \A i \in Slots : \/ dir'[i] = dir[i]
                         \/ /\ dir[i].clus = open[fd].clus
                            /\ dir'[i] = [dir[i] EXCEPT !.size = open[fd].size]
    BY DEF FAT_close, FAT_upd_entry
  <1>4. \A i \in Slots : dir[i].clus = open[fd].clus => dir[i] \in File
    BY <1>1, Numbers DEF Types, File, Empty
  <1>5. \A i \in Slots : /\ dir'[i] \in File \cup {Empty}
                         /\ dir'[i].name = dir[i].name /\ dir'[i].clus = dir[i].clus
    BY <1>1, <1>3, <1>4, ZenonT(40) DEF File, Types
  <1>6. dir' \in [Slots -> File \cup {Empty}]
    <2>1. dir' = [i \in Slots |-> dir'[i]]
      BY DEF FAT_close, FAT_upd_entry
    <2> QED  BY <1>5, <2>1
  <1>7. Used(dir') = Used(dir)
    BY <1>5 DEF Used
  <1>8. Heads(fat', dir')
    BY <1>1, <1>2, <1>5, <1>7 DEF Heads, Used
  <1>9. Types'
    BY <1>1, <1>2, <1>6 DEF Types
  <1>10. ASSUME orderly  PROVE Order(fat', dir', data', vnode', open')
    <2>1. Order(fat, dir, data, vnode, open) /\ open[fd] # Closed
      BY <1>1, <1>10 DEF FAT_close
    <2>2. Owned(fat', dir')
      BY <1>2, <1>5, <1>7, <2>1 DEF Order, Owned, Used
    <2>3. ASSUME NEW i \in Used(dir)  PROVE Written(fat, data, dir'[i])
      <3>1. CASE dir'[i] = dir[i]
        BY <2>1, <3>1 DEF Order
      <3>2. CASE dir[i].clus = open[fd].clus /\ dir'[i] = [dir[i] EXCEPT !.size = open[fd].size]
        <4>1. i \in Slots /\ dir[i] \in File
          BY <1>4, <3>2 DEF Used
        <4>2. dir[i].name = open[fd].name
          BY <1>1, <2>1, <3>2 DEF Order, Filed, Heads
        <4>3. dir'[i] = open[fd]
          BY <1>1, <3>2, <4>1, <4>2 DEF File
        <4> QED  BY <2>1, <4>3 DEF Order
      <3> QED  BY <1>3, <3>1, <3>2 DEF Used
    <2>4. \A b \in Fds : open'[b] # Closed => open'[b] = open[b] /\ b # fd
      BY <1>1, <1>2 DEF Types
    <2>5. \A e : Filed(dir, e) => Filed(dir', e)
      BY <1>5, <1>7 DEF Filed, Used
    <2>6. \A a, b \in Fds : open'[a] # Closed /\ open'[a].name = open'[b].name => a = b
      <3>1. \A b \in Fds : open'[b] = IF b = fd THEN Closed ELSE open[b]
        BY <1>1, <1>2 DEF Types
      <3>2. \A b \in Fds : open[b] # Closed => open[b].name # Closed.name
        BY <1>1, FATAssumption DEF Types, File, Closed, FATAssumption
      <3> QED  BY <2>1, <3>1, <3>2 DEF Order
    <2>7. \A i, j \in Used(dir') : dir'[i].name = dir'[j].name => i = j
      BY <1>5, <1>7, <2>1 DEF Order, Used
    <2>8. \A n \in Names : vnode'[n] # 0 =>
            \E i \in Used(dir') : dir'[i].name = n /\ dir'[i].clus = vnode'[n]
      BY <1>2, <1>5, <1>7, <2>1 DEF Order, Used
    <2> QED  BY <1>2, <1>7, <2>1, <2>2, <2>3, <2>4, <2>5, <2>6, <2>7, <2>8 DEF Order
  <1>11. Whole'
    BY <1>1, <1>2, <1>8, <1>9, <1>10 DEF Whole
  <1> QED  BY <1>2, <1>11 DEF FATInv, PastRoot

LEMMA RebootWhole ==
  ASSUME Whole, Intact, orderly \in BOOLEAN, full \in BOOLEAN, Reboot
  PROVE  FATInv'
  <1>1. /\ fat' = fat /\ dir' = dir /\ data' = data /\ orderly' = orderly /\ full' = full /\ fault' = fault
        /\ vnode' \in [Names -> {0} \cup Clusters] /\ open' \in [Fds -> File \cup {Closed}]
        /\ \A n \in Names : vnode'[n] = 0
        /\ \A fd \in Fds : open'[fd] = Closed
    BY DEF Reboot
  <1>2. Types'
    BY <1>1 DEF Types, Whole
  <1>3. orderly => Order(fat', dir', data', vnode', open')
    BY <1>1 DEF Whole, Order
  <1>4. Whole'
    BY <1>1, <1>2, <1>3 DEF Whole
  <1> QED  BY <1>1, <1>4 DEF FATInv, Intact

LEMMA LookupWhole ==
  ASSUME Whole, Intact, orderly \in BOOLEAN, full \in BOOLEAN, NEW n \in Names, FAT_lookup(n)
  PROVE  FATInv'
  <1>1. UNCHANGED <<fat, dir, data, vnode, open, orderly, full>> /\ fault' \in PastRoot
    BY DEF FAT_lookup
  <1>2. Whole'
    BY <1>1 DEF Whole, Types, Graph, Heads, Order, Owned, Written, Filed, Used,
                Live, ChainsEnd, ChainsBegin
  <1> QED  BY <1>1, <1>2 DEF FATInv, PastRoot

\* Looking a name up gives a slot that has it.
LEMMA FileEntryIs ==
  ASSUME NEW n \in Names, Exists(n)
  PROVE  \E i \in Used(dir) : dir[i].name = n /\ FAT_file_entry(dir, n) = dir[i]
  <1> DEFINE S == {i \in Slots : dir[i].name = n}
  <1>1. S \in SUBSET Slots /\ S # {}
    BY DEF Exists
  <1>2. FirstSlot(S) \in S
    BY <1>1, FirstSlotIs
  <1>3. n # Nobody
    BY FATAssumption DEF FATAssumption
  <1> QED  BY <1>2, <1>3 DEF FAT_file_entry, Used

LEMMA OpenWhole ==
  ASSUME Whole, Intact, orderly \in BOOLEAN, full \in BOOLEAN, NEW fd \in Fds, NEW n \in Names, FAT_open(fd, n)
  PROVE  FATInv'
  <1> DEFINE e == [name |-> n, clus |-> Handle(n), size |-> FAT_file_entry(dir, n).size]
  <1>1. /\ Types /\ Graph(fat) /\ Heads(fat, dir)
        /\ orderly => Order(fat, dir, data, vnode, open)
    BY DEF Whole
  <1>2. /\ fat' = fat /\ dir' = dir /\ full' = full /\ fault' = fault /\ data' = Tracked(data)
        /\ orderly' = (orderly /\ ~IsOpen(n)) /\ open[fd] = Closed
        /\ vnode' = [vnode EXCEPT ![n] = Handle(n)] /\ open' = [open EXCEPT ![fd] = e]
    BY DEF FAT_open, Keeps
  <1>3. PICK i \in Used(dir) : dir[i].name = n /\ FAT_file_entry(dir, n) = dir[i]
    BY FileEntryIs DEF FAT_open
  <1>4. dir[i] \in File
    BY <1>1 DEF Types, Used, Empty
  <1>5. Handle(n) = IF vnode[n] # 0 THEN vnode[n] ELSE dir[i].clus
    BY <1>3 DEF Handle
  <1>6. Handle(n) \in Clusters /\ e \in File
    BY <1>1, <1>3, <1>4, <1>5 DEF Types, File
  <1>7. e.name = n /\ e.clus = Handle(n) /\ e.size = dir[i].size /\ e # Closed
    BY <1>3, <1>6, FATAssumption DEF File, Closed, FATAssumption
  <1> HIDE DEF e
  <1>8. Types'
    <2>1. data' \in DataType
      BY <1>1, <1>2, TrackedIs DEF Types
    <2> QED  BY <1>1, <1>2, <1>6, <2>1 DEF Types
  <1>9. ASSUME orderly'  PROVE Order(fat', dir', data', vnode', open')
    <2>1. /\ orderly /\ ~IsOpen(n) /\ data' = data /\ Order(fat, dir, data, vnode, open)
      BY <1>1, <1>2, <1>9, TrackedIs DEF Types
    <2>2. Handle(n) = dir[i].clus
      BY <1>3, <1>5, <2>1 DEF Order
    <2>3. Filed(dir, e) /\ Written(fat, data, e)
      <3>1. e = dir[i]
        BY <1>3, <1>4, <1>6, <1>7, <2>2 DEF File
      <3> QED  BY <2>1, <3>1 DEF Order, Filed
    <2>4. \A b \in Fds : open'[b] = IF b = fd THEN e ELSE open[b]
      BY <1>1, <1>2 DEF Types
    <2>5. \A m \in Names : vnode'[m] = IF m = n THEN Handle(n) ELSE vnode[m]
      BY <1>1, <1>2 DEF Types
    <2>6. \A a, b \in Fds : open'[a] # Closed /\ open'[a].name = open'[b].name => a = b
      BY <1>7, <2>1, <2>4 DEF Order, IsOpen
    <2>7. \A m \in Names : vnode'[m] # 0 =>
            \E j \in Used(dir) : dir[j].name = m /\ dir[j].clus = vnode'[m]
      BY <1>3, <2>1, <2>2, <2>5 DEF Order
    <2> QED  BY <1>2, <2>1, <2>3, <2>4, <2>6, <2>7 DEF Order
  <1>10. Whole'
    BY <1>1, <1>2, <1>8, <1>9 DEF Whole
  <1> QED  BY <1>2, <1>10 DEF FATInv, Intact

LEMMA CreateWhole ==
  ASSUME Whole, Intact, orderly \in BOOLEAN, full \in BOOLEAN, NEW n \in Names, FAT_create(n)
  PROVE  FATInv'
  <1> DEFINE c == FindFreeCluster(fat)
             i == FirstSlot(Slots \ Used(dir))
             e == [name |-> n, clus |-> c, size |-> 0]
  <1>1. /\ Types /\ Graph(fat) /\ Heads(fat, dir) /\ fat \in [Table -> Entry]
        /\ orderly => Order(fat, dir, data, vnode, open)
    BY DEF Whole, Graph
  <1>2. /\ orderly' = (orderly /\ ~Exists(n)) /\ vnode' = vnode /\ open' = open
        /\ data' = Tracked(data) /\ full' = (c = 0)
    BY DEF FAT_create, Keeps
  <1>3. CASE Used(dir) = Slots
    BY <1>2, <1>3 DEF FAT_create, FATInv, Intact
  <1>4. CASE Used(dir) # Slots
    <2>1. i \in Slots /\ i \notin Used(dir)
      BY <1>4, FirstSlotIs DEF Used
    <2>2. /\ dir' = [dir EXCEPT ![i] = e] /\ fat' = FAT_set_entries(fat, c, EOC)
          /\ fault' = Setting(c)
      BY <1>4 DEF FAT_create
    <2>3. fault' \in {"none", "torn"}
      BY <2>2 DEF Setting
    <2>4. ASSUME ~full'  PROVE Whole'
      <3>1. c \in Clusters /\ c # 0
        BY <1>1, <1>2, <2>4, FreeClusterIs
      <3>2. Taken(fat, fat', c)
        BY <1>1, <2>2, <3>1, CreateTakes
      <3>3. /\ Graph(fat') /\ Live(fat') = Live(fat) \cup {c} /\ Heads(fat', dir)
            /\ c \notin Live(fat)
        BY <1>1, <3>2, TakenGraph, HeadsTaken DEF Taken, Live
      <3>4. e \in File /\ e.name = n /\ e.clus = c /\ e.size = 0 /\ n # Nobody
        BY <3>1, FATAssumption DEF File, FATAssumption
      <3>5. \A x \in Table : fat'[x] = IF x = c THEN EOC ELSE fat[x]
        BY <1>1, <2>2 DEF FAT_set_entries
      <3> HIDE DEF e, i, c
      <3>6. \A j \in Slots : dir'[j] = IF j = i THEN e ELSE dir[j]
        BY <1>1, <2>2 DEF Types
      <3>7. Used(dir') = Used(dir) \cup {i}
        BY <2>1, <3>4, <3>6 DEF Used
      <3>8. Types'
        <4>1. data' \in DataType
          BY <1>1, <1>2, TrackedIs DEF Types
        <4> QED  BY <1>1, <1>2, <2>1, <2>2, <3>4, <4>1 DEF Types
      <3>9. Heads(fat', dir')
        <4>1. \A x \in Live(fat') : fat'[x] # c
          BY <1>1, <3>1, <3>3, <3>5, Numbers DEF Graph, Live
        <4>2. \A j \in Used(dir) : dir'[j] = dir[j] /\ dir[j].clus # c
          BY <1>1, <2>1, <3>3, <3>6 DEF Heads, Used
        <4>3. dir'[i] = e
          BY <2>1, <3>6
        <4> QED  BY <3>1, <3>3, <3>4, <3>7, <4>1, <4>2, <4>3 DEF Heads
      <3>10. ASSUME orderly'  PROVE Order(fat', dir', data', vnode', open')
        <4>1. /\ orderly /\ ~Exists(n) /\ data' = data /\ Order(fat, dir, data, vnode, open)
          BY <1>1, <1>2, <3>10, TrackedIs DEF Types
        <4>2. \A j \in Used(dir) : dir'[j] = dir[j] /\ dir[j].name # n
          BY <2>1, <3>6, <4>1 DEF Used, Exists
        <4>3. dir'[i] = e
          BY <2>1, <3>6
        <4>4. \A b : Filed(dir, b) => Filed(dir', b)
          BY <3>7, <4>2 DEF Filed
        <4>5. Owned(fat', dir')
          <5> SUFFICES ASSUME NEW x \in Live(fat') \cap Clusters,
                              \A j \in Used(dir') : dir'[j].clus # x
                       PROVE  \E z \in Live(fat') \cap Clusters : fat'[z] = x
            BY DEF Owned
          <5>1. x # c /\ x \in Live(fat) /\ \A j \in Used(dir) : dir[j].clus # x
            BY <3>3, <3>4, <3>7, <4>2, <4>3
          <5>2. PICK z \in Live(fat) \cap Clusters : fat[z] = x
            BY <4>1, <5>1 DEF Order, Owned
          <5>3. fat'[z] = x /\ z \in Live(fat')
            BY <3>3, <3>5, <5>2 DEF Live
          <5> QED  BY <5>2, <5>3
        <4>6. ASSUME NEW b, b.clus \in Live(fat) \cap Clusters, b.size \in Nat,
                     Written(fat, data, b)
              PROVE  Written(fat', data, b)
          BY <1>1, <3>2, <4>6, WrittenTaken
        <4>7. ASSUME NEW j \in Used(dir')  PROVE Written(fat', data, dir'[j])
          <5>1. CASE j = i
            <6>1. 0 .. e.size - 1 = {}
              BY <3>4
            <6> QED  BY <4>3, <5>1, <6>1 DEF Written
          <5>2. CASE j # i
            <6>1. j \in Used(dir) /\ dir'[j] = dir[j]
              BY <3>7, <4>2, <5>2
            <6>2. dir[j] \in File /\ dir[j].clus \in Live(fat) \cap Clusters
              BY <1>1, <6>1 DEF Types, Heads, Used, Empty
            <6> QED  BY <4>1, <4>6, <6>1, <6>2 DEF Order, File
          <5> QED  BY <5>1, <5>2
        <4>8. ASSUME NEW fd \in Fds, open[fd] # Closed  PROVE Written(fat', data, open[fd])
          <5>1. open[fd] \in File /\ open[fd].clus \in Live(fat) \cap Clusters
            BY <1>1, <4>1, <4>8 DEF Types, Heads, Order, Filed
          <5> QED  BY <4>1, <4>6, <4>8, <5>1 DEF Order, File
        <4>9. \A j, k \in Used(dir') : dir'[j].name = dir'[k].name => j = k
          BY <3>4, <3>7, <4>1, <4>2, <4>3 DEF Order
        <4>10. \A m \in Names : vnode[m] # 0 =>
                 \E j \in Used(dir') : dir'[j].name = m /\ dir'[j].clus = vnode[m]
          BY <3>7, <4>1, <4>2 DEF Order
        <4> QED  BY <1>2, <4>1, <4>4, <4>5, <4>7, <4>8, <4>9, <4>10 DEF Order
      <3> QED  BY <3>3, <3>8, <3>9, <3>10 DEF Whole
    <2> QED  BY <1>2, <2>3, <2>4 DEF FATInv, Intact
  <1> QED  BY <1>3, <1>4

LEMMA RemoveWhole ==
  ASSUME Whole, Intact, orderly \in BOOLEAN, full \in BOOLEAN, NEW n \in Names, FAT_remove(n)
  PROVE  FATInv'
  <1> DEFINE gone == {i \in Slots : dir[i].name = n}
             D == UNION {Chain(fat, dir[i].clus) : i \in gone}
  <1>1. /\ Types /\ Graph(fat) /\ Heads(fat, dir) /\ fat \in [Table -> Entry]
        /\ orderly => Order(fat, dir, data, vnode, open)
    BY DEF Whole, Graph
  <1>2. /\ orderly' = (orderly /\ ~IsOpen(n)) /\ open' = open
        /\ fault' \in {"none", "misread", "stray"} /\ full' = full
        /\ fat' = FAT_free_cluster_chain(fat, {dir[i].clus : i \in gone})
        /\ dir' = [i \in Slots |-> IF i \in gone THEN Empty ELSE dir[i]]
        /\ vnode' = [vnode EXCEPT ![n] = 0]
        /\ data' = Tracked([c \in Clusters |-> IF fat'[c] = 0 THEN Unwritten ELSE data[c]])
    BY DEF FAT_remove, Keeps, PastRoot
  <1>3. n # Nobody /\ gone \subseteq Used(dir)
    BY FATAssumption DEF FATAssumption, Used
  <1>4. \A i \in Used(dir) : /\ dir[i].clus \in Live(fat) \cap Clusters /\ dir[i].clus \in Entry
                             /\ dir[i].clus # EOC
                             /\ \A x \in Live(fat) : fat[x] # dir[i].clus
    BY <1>1, Numbers DEF Heads
  <1>5. \A i \in Used(dir) : Chain(fat, dir[i].clus) \subseteq Live(fat) \cap Clusters
    BY <1>1, <1>4, ChainLive
  <1>6. \A i \in Used(dir) :
          /\ dir[i].clus \in Chain(fat, dir[i].clus)
          /\ \A x \in Chain(fat, dir[i].clus) :
                /\ fat[x] = EOC \/ fat[x] \in Chain(fat, dir[i].clus)
                /\ x = dir[i].clus \/ \E y \in Chain(fat, dir[i].clus) : fat[y] = x
    BY <1>1, <1>4, ChainStep
  <1>7. \A i, j \in Used(dir) : i # j => Chain(fat, dir[i].clus) \cap Chain(fat, dir[j].clus) = {}
    BY <1>1, <1>4, ChainsApart DEF Heads
  <1>8. Returned(fat, fat', D)
    <2>1. D \subseteq Live(fat) \cap Clusters
      BY <1>3, <1>5
    <2>2. \A x \in Table : fat'[x] = IF x = EOC \/ x \in D THEN 0 ELSE fat[x]
      BY <1>2 DEF FAT_free_cluster_chain
    <2>3. fat' \in [Table -> Entry]
      <3>1. fat' = [x \in Table |-> fat'[x]]
        BY <1>2 DEF FAT_free_cluster_chain
      <3>2. \A x \in Table : fat'[x] \in Entry
        BY <1>1, <2>2, Numbers
      <3> QED  BY <3>1, <3>2
    <2>4. ASSUME NEW x \in Live(fat), fat[x] \in D  PROVE x \in D
      <3>1. PICK i \in gone : fat[x] \in Chain(fat, dir[i].clus)
        BY <2>4
      <3>2. i \in Used(dir) /\ fat[x] # dir[i].clus /\ fat[x] # EOC
        BY <1>3, <1>4, <1>5, <3>1, Numbers
      <3>3. PICK y \in Chain(fat, dir[i].clus) : fat[y] = fat[x]
        BY <1>6, <3>1, <3>2
      <3>4. y = x
        BY <1>1, <1>5, <3>2, <3>3 DEF Graph
      <3> QED  BY <3>3, <3>4
    <2> QED  BY <2>1, <2>2, <2>3, <2>4 DEF Returned
  <1>9. /\ Graph(fat') /\ Live(fat') = Live(fat) \ D
        /\ \A x \in Live(fat') : fat'[x] = fat[x]
    BY <1>1, <1>8, ReturnedGraph
  <1>10. \A i \in Slots : dir'[i] = IF i \in gone THEN Empty ELSE dir[i]
    BY <1>2
  <1>11. Used(dir') = Used(dir) \ gone /\ \A i \in Used(dir') : dir'[i] = dir[i]
    BY <1>10 DEF Used, Empty
  <1>12. \A i \in Used(dir') : Chain(fat, dir[i].clus) \cap D = {}
    BY <1>3, <1>7, <1>11
  <1> HIDE DEF D, gone
  <1>13. Heads(fat', dir')
    <2>1. ASSUME NEW i \in Used(dir')
          PROVE  /\ dir'[i].clus \in Live(fat') \cap Clusters
                 /\ \A x \in Live(fat') : fat'[x] # dir'[i].clus
      BY <1>4, <1>6, <1>9, <1>11, <1>12
    <2>2. \A i, j \in Used(dir') : i # j => dir'[i].clus # dir'[j].clus
      BY <1>1, <1>11 DEF Heads
    <2> QED  BY <2>1, <2>2 DEF Heads
  <1>14. data' \in DataType /\ (orderly' => \A x \in Live(fat') \cap Clusters : data'[x] = data[x])
    <2> DEFINE d == [c \in Clusters |-> IF fat'[c] = 0 THEN Unwritten ELSE data[c]]
    <2>1. Byte(Nobody, 0) \in Bytes
      BY DEF Byte, Bytes
    <2>2. Unwritten \in [Offsets -> Bytes]
      BY <2>1 DEF Unwritten
    <2>3. d \in DataType
      BY <1>1, <2>2 DEF Types, DataType
    <2>4. \A x \in Live(fat') \cap Clusters : d[x] = data[x]
      BY DEF Live
    <2> HIDE DEF d
    <2>5. data' = Tracked(d)
      BY <1>2 DEF d
    <2> QED  BY <2>3, <2>4, <2>5, TrackedIs
  <1>15. Types'
    <2>1. dir' \in [Slots -> File \cup {Empty}]
      BY <1>1, <1>2 DEF Types
    <2>2. vnode' \in [Names -> {0} \cup Clusters]
      BY <1>1, <1>2 DEF Types
    <2> QED  BY <1>1, <1>2, <1>14, <2>1, <2>2 DEF Types
  <1>16. ASSUME orderly'  PROVE Order(fat', dir', data', vnode', open')
    <2>1. /\ orderly /\ ~IsOpen(n) /\ Order(fat, dir, data, vnode, open)
          /\ \A x \in Live(fat') \cap Clusters : data'[x] = data[x]
      BY <1>1, <1>2, <1>14, <1>16
    <2>2. \A b : Filed(dir, b) /\ b.name # n => Filed(dir', b)
      <3>1. \A i \in Used(dir) : dir[i].name # n => i \in Used(dir')
        BY <1>11 DEF gone
      <3> QED  BY <1>11, <3>1 DEF Filed
    <2>3. Owned(fat', dir')
      <3> SUFFICES ASSUME NEW x \in Live(fat') \cap Clusters, \A i \in Used(dir') : dir'[i].clus # x
                   PROVE  \E y \in Live(fat') \cap Clusters : fat'[y] = x
        BY DEF Owned
      <3>1. x \in Live(fat) /\ x \notin D
        BY <1>9
      <3>2. \A i \in Used(dir) : dir[i].clus # x
        BY <1>6, <1>11, <3>1 DEF D
      <3>3. PICK y \in Live(fat) \cap Clusters : fat[y] = x
        BY <2>1, <3>1, <3>2 DEF Order, Owned
      <3>4. y \notin D
        <4> SUFFICES ASSUME NEW i \in gone, y \in Chain(fat, dir[i].clus)  PROVE FALSE
          BY DEF D
        <4>1. x \in Chain(fat, dir[i].clus)
          BY <1>3, <1>6, <3>3, Numbers
        <4> QED  BY <3>1, <4>1 DEF D
      <3> QED  BY <1>9, <3>3, <3>4
    <2>4. ASSUME NEW b \in File, Filed(dir', b), Written(fat, data, b)  PROVE Written(fat', data', b)
      <3>1. PICK i \in Used(dir') : b.clus = dir[i].clus /\ i \in Used(dir)
        BY <1>11, <2>4 DEF Filed
      <3>2. b.clus \in Live(fat) \cap Clusters /\ Chain(fat, b.clus) \cap D = {} /\ b.size \in Nat
        BY <1>4, <1>12, <3>1 DEF File
      <3> QED  BY <1>1, <1>8, <2>1, <2>4, <3>2, WrittenReturned
    <2>5. ASSUME NEW i \in Used(dir')  PROVE Written(fat', data', dir'[i])
      <3>1. dir'[i] = dir[i] /\ i \in Used(dir) /\ dir[i] \in File /\ Filed(dir', dir[i])
        BY <1>1, <1>11 DEF Types, Used, Empty, Filed
      <3> QED  BY <2>1, <2>4, <3>1 DEF Order
    <2>6. ASSUME NEW fd \in Fds, open[fd] # Closed
          PROVE  Filed(dir', open[fd]) /\ Written(fat', data', open[fd])
      <3>1. open[fd] \in File /\ open[fd].name # n
        BY <1>1, <2>1, <2>6 DEF Types, IsOpen
      <3> QED  BY <2>1, <2>2, <2>4, <2>6, <3>1 DEF Order
    <2>7. \A m \in Names : vnode'[m] # 0 =>
            \E i \in Used(dir') : dir'[i].name = m /\ dir'[i].clus = vnode'[m]
      <3>1. \A m \in Names : vnode'[m] # 0 => m # n /\ vnode'[m] = vnode[m]
        BY <1>1, <1>2 DEF Types
      <3>2. \A i \in Used(dir) : dir[i].name # n => i \in Used(dir')
        BY <1>11 DEF gone
      <3> QED  BY <1>11, <2>1, <3>1, <3>2 DEF Order
    <2>8. \A i, j \in Used(dir') : dir'[i].name = dir'[j].name => i = j
      BY <1>11, <2>1 DEF Order
    <2>9. \A a, b \in Fds : open'[a] # Closed /\ open'[a].name = open'[b].name => a = b
      BY <1>2, <2>1 DEF Order
    <2>10. \A fd \in Fds : open'[fd] # Closed =>
              Filed(dir', open'[fd]) /\ Written(fat', data', open'[fd])
      BY <1>2, <2>6
    <2> QED  BY <2>3, <2>5, <2>7, <2>8, <2>9, <2>10 DEF Order
  <1>17. Whole'
    BY <1>9, <1>13, <1>15, <1>16 DEF Whole
  <1> QED  BY <1>2, <1>17 DEF FATInv

LEMMA StepWhole ==
  ASSUME FATInv, [Next]_vars  PROVE FATInv'
  <1>0. Intact => Whole /\ orderly \in BOOLEAN /\ full \in BOOLEAN
    BY DEF FATInv
  <1>1. CASE UNCHANGED vars
    BY <1>1 DEF vars, FATInv, Intact, Whole, Types, Graph, Heads, Order, Owned, Written, Filed, Used,
                Live, ChainsEnd, ChainsBegin
  <1>2. ASSUME NEW n \in Names, FAT_create(n)  PROVE FATInv'
    BY <1>0, <1>2, CreateWhole DEF FAT_create
  <1>3. ASSUME NEW n \in Names, FAT_remove(n)  PROVE FATInv'
    BY <1>0, <1>3, RemoveWhole DEF FAT_remove
  <1>4. ASSUME NEW fd \in Fds, NEW n \in Names, FAT_open(fd, n)  PROVE FATInv'
    BY <1>0, <1>4, OpenWhole DEF FAT_open
  <1>5. ASSUME NEW fd \in Fds, FAT_close(fd)  PROVE FATInv'
    BY <1>0, <1>5, CloseWhole DEF FAT_close
  <1>6. ASSUME NEW fd \in Fds, NEW len \in WriteLens, FAT_write(fd, len)  PROVE FATInv'
    BY <1>0, <1>6, WriteWhole DEF FAT_write
  <1>7. CASE Reboot
    BY <1>0, <1>7, RebootWhole DEF Reboot
  <1>8. CASE Damaged
    BY <1>1, <1>8 DEF Damaged
  <1>9. ASSUME NEW n \in Names, FAT_lookup(n)  PROVE FATInv'
    BY <1>0, <1>9, LookupWhole DEF FAT_lookup
  <1> QED  BY <1>1, <1>2, <1>3, <1>4, <1>5, <1>6, <1>7, <1>8, <1>9 DEF Next

\* As long as the volume is intact: the table is a set of chains without a cycle or a crossing,
\* the directory names their first clusters, and in orderly use the clusters
\* hold what was written to the files.
THEOREM VolumeWhole == Spec => []FATInv
  <1>1. Init => FATInv
    BY InitWhole
  <1>2. FATInv /\ [Next]_vars => FATInv'
    BY StepWhole
  <1> QED  BY <1>1, <1>2, PTL DEF Spec

\* As long as the volume is intact no cluster is in the chains of two files and,
\* in orderly use, none that is in use is in no file's (FindFreeCluster, FAT_allocate_cluster,
\* FAT_free_cluster_chain).
THEOREM ClustersAreOwned == Spec => []ClustersOwned
  <1>1. ASSUME FATInv  PROVE NoSharedCluster
    <2> SUFFICES ASSUME Intact, NEW i \in Used(dir), NEW j \in Used(dir), i # j
                 PROVE  Chain(fat, dir[i].clus) \cap Chain(fat, dir[j].clus) = {}
      BY DEF NoSharedCluster
    <2>1. Graph(fat) /\ Heads(fat, dir)
      BY <1>1 DEF FATInv, Whole, Intact
    <2> QED  BY <2>1, ChainsApart DEF Heads
  <1>2. ASSUME FATInv  PROVE NoLostCluster
    <2> SUFFICES ASSUME orderly, Intact  PROVE \A c \in Clusters :
                   fat[c] # 0 => \E i \in Used(dir) : c \in Chain(fat, dir[i].clus)
      BY DEF NoLostCluster
    <2> DEFINE L == {x \in Live(fat) \cap Clusters : \A i \in Used(dir) : x \notin Chain(fat, dir[i].clus)}
    <2>1. Graph(fat) /\ Heads(fat, dir) /\ Owned(fat, dir) /\ fat \in [Table -> Entry]
      BY <1>2 DEF FATInv, Whole, Intact, Order, Graph
    <2>2. ASSUME NEW i \in Used(dir)
          PROVE  /\ dir[i].clus \in Chain(fat, dir[i].clus)
                 /\ \A x \in Chain(fat, dir[i].clus) : fat[x] = EOC \/ fat[x] \in Chain(fat, dir[i].clus)
      <3>1. dir[i].clus \in Entry /\ dir[i].clus # EOC
        BY <2>1, Numbers DEF Heads
      <3> QED  BY <2>1, <3>1, ChainStep
    <2>3. L = {}
      <3> SUFFICES ASSUME L # {}  PROVE FALSE
        OBVIOUS
      <3>1. L \in SUBSET Live(fat)
        OBVIOUS
      <3>2. PICK x \in L : \A y \in L : fat[y] # x
        <4> HIDE DEF L
        <4> QED  BY <2>1, <3>1 DEF Graph, ChainsBegin
      <3>3. \A i \in Used(dir) : dir[i].clus # x
        BY <2>2
      <3>4. PICK y \in Live(fat) \cap Clusters : fat[y] = x
        BY <2>1, <3>3 DEF Owned
      <3>5. PICK i \in Used(dir) : y \in Chain(fat, dir[i].clus)
        BY <3>2, <3>4
      <3>6. x \in Chain(fat, dir[i].clus)
        BY <2>2, <3>4, <3>5, Numbers
      <3> QED  BY <3>6
    <2> QED  BY <2>3, Numbers DEF Live
  <1>3. FATInv => ClustersOwned
    BY <1>1, <1>2 DEF ClustersOwned
  <1> QED  BY <1>3, VolumeWhole, PTL

\* In orderly use no FAT_write reaches the boot sector or the root directory as
\* long as FindFreeCluster finds clusters: FAT_absolute_offset always finds the
\* chain long enough, and no cluster 0 in it.
THEOREM DataOnlyWritten == Spec => []WritesToData
  <1>1. FATInv => WritesToData
    BY DEF FATInv, WritesToData
  <1> QED  BY <1>1, VolumeWhole, PTL

-----------------------------------------------------------------------------
(* FAT_read                                                                *)

\* How FAT_read divides len bytes from position pos.
Plan(pos, len, B, head, whole, rest, start, size) ==
  /\ head = IF B - (pos % B) = B THEN 0
            ELSE IF B - (pos % B) >= len THEN len ELSE B - (pos % B)
  /\ whole = (len - head) \div B /\ rest = (len - head) % B
  /\ start = [k \in 0 .. whole + 1 |-> IF k = 0 THEN pos ELSE pos + head + (k - 1) * B]
  /\ size = [k \in 0 .. whole + 1 |-> CASE k = 0 -> head [] k = whole + 1 -> rest [] OTHER -> B]

Cut(pos, len, B, whole, start, size) ==
  /\ \A k \in 0 .. whole + 1 : \A o \in 0 .. size[k] - 1 :
        /\ start[k] + o \in pos .. pos + len - 1 /\ start[k] \in Nat
        /\ start[k] \div B = (start[k] + o) \div B
  /\ \A q \in pos .. pos + len - 1 : \E k \in 0 .. whole + 1 :
        \E o \in 0 .. size[k] - 1 : q = start[k] + o

\* The pieces in which FAT_read takes len bytes from position pos: no piece crosses
\* the end of a cluster, and together they are the bytes asked for.
LEMMA ReadPieces ==
  ASSUME NEW pos \in Nat, NEW len \in Nat, NEW B \in Nat \ {0}, NEW head, NEW whole, NEW rest,
         NEW start, NEW size, Plan(pos, len, B, head, whole, rest, start, size)
  PROVE  Cut(pos, len, B, whole, start, size)
  <1> DEFINE Q == pos \div B
             r == pos % B
  <1>1. Q \in Nat /\ r \in 0 .. B - 1 /\ pos = Q * B + r
    BY Divide
  <1>2. head \in 0 .. len /\ r + head <= B /\ (head = len \/ pos + head = Q * B + B \/ (r = 0 /\ head = 0))
    <2> DEFINE m == Q * B
    <2>1. m \in Int /\ pos = m + r /\ head = IF B - r = B THEN 0 ELSE IF B - r >= len THEN len ELSE B - r
      <3>1. head = IF B - r = B THEN 0 ELSE IF B - r >= len THEN len ELSE B - r
        BY DEF Plan
      <3> HIDE DEF Q
      <3> QED  BY <1>1, <3>1
    <2> HIDE DEF Q, r, m
    <2>2. head \in 0 .. len /\ r + head <= B /\ (head = len \/ pos + head = m + B \/ (r = 0 /\ head = 0))
      BY <1>1, <2>1
    <2> QED  BY <2>2 DEF m
  <1>3. /\ len - head \in Nat /\ whole \in Nat /\ rest \in 0 .. B - 1
        /\ len - head = whole * B + rest
    <2>1. len - head \in Nat
      BY <1>2
    <2>2. whole = (len - head) \div B /\ rest = (len - head) % B
      BY DEF Plan
    <2> DEFINE v == len - head
    <2> HIDE DEF v
    <2>3. v \in Nat /\ whole = v \div B /\ rest = v % B
      BY <2>1, <2>2 DEF v
    <2>4. whole \in Nat /\ rest \in 0 .. B - 1 /\ v = whole * B + rest
      BY <2>3, Divide
    <2> QED  BY <2>3, <2>4 DEF v
  <1>4. head = len => whole = 0 /\ rest = 0
    <2> SUFFICES ASSUME head = len  PROVE whole = 0 /\ rest = 0
      OBVIOUS
    <2>1. 0 = 0 * B + 0 /\ 0 \in 0 .. B - 1 /\ len - head = 0
      BY <1>3
    <2>2. 0 \div B = 0 /\ 0 % B = 0
      BY <2>1, Quotient
    <2>3. 0 = whole * B + rest
      BY <1>3, <2>1
    <2>4. 0 \div B = whole /\ 0 % B = rest
      BY <1>3, <2>3, Quotient
    <2> QED  BY <2>2, <2>4
  <1>5. head # len => \E S \in Nat : pos + head = S * B
    <2> SUFFICES ASSUME head # len  PROVE \E S \in Nat : pos + head = S * B
      OBVIOUS
    <2> HIDE DEF Q, r
    <2>1. CASE pos + head = Q * B + B
      <3>1. (Q + 1) * B = Q * B + B /\ Q + 1 \in Nat
        BY <1>1
      <3> QED  BY <2>1, <3>1
    <2>2. CASE r = 0 /\ head = 0
      <3>1. pos + head = Q * B
        BY <1>1, <2>2
      <3> QED  BY <1>1, <3>1
    <2> QED  BY <1>2, <2>1, <2>2
  <1>6. /\ start[0] = pos /\ size[0] = head
        /\ \A k \in 1 .. whole + 1 : start[k] = pos + head + (k - 1) * B
        /\ \A k \in 1 .. whole : size[k] = B
        /\ size[whole + 1] = rest
    <2>1. /\ start = [k \in 0 .. whole + 1 |-> IF k = 0 THEN pos ELSE pos + head + (k - 1) * B]
          /\ size = [k \in 0 .. whole + 1 |-> CASE k = 0 -> head [] k = whole + 1 -> rest [] OTHER -> B]
      BY DEF Plan
    <2> QED  BY <1>3, <2>1
  <1>7. ASSUME NEW k \in 0 .. whole + 1, NEW o \in 0 .. size[k] - 1
        PROVE  /\ start[k] + o \in pos .. pos + len - 1 /\ start[k] \in Nat
               /\ start[k] \div B = (start[k] + o) \div B
    <2>1. CASE k = 0
      <3>1. start[k] = pos /\ size[k] = head
        BY <1>6, <2>1
      <3> DEFINE m == Q * B
      <3>2. m \in Int /\ pos = m + r
        <4> HIDE DEF Q
        <4> QED  BY <1>1
      <3> HIDE DEF r, m
      <3>3. r + o \in 0 .. B - 1 /\ pos + o = m + (r + o) /\ pos + o \in Nat /\ pos + o \in pos .. pos + len - 1
        BY <1>1, <1>2, <3>1, <3>2
      <3>4. (pos + o) \div B = Q
        <4>1. pos + o = Q * B + (r + o)
          BY <3>3 DEF m
        <4> HIDE DEF Q
        <4> QED  BY <1>1, <3>3, <4>1, Quotient, ZenonT(40)
      <3> QED  BY <3>1, <3>3, <3>4
    <2>2. CASE k # 0
      <3>1. k \in 1 .. whole + 1 /\ size[k] \in 0 .. B
        BY <1>3, <1>6, <2>2
      <3>2. head # len
        BY <1>3, <1>4, <1>6, <3>1
      <3>3. PICK S \in Nat : pos + head = S * B
        BY <1>5, <3>2
      <3> DEFINE t == S + (k - 1)
                 a == (k - 1) * B
                 z == whole * B
      <3>4. t \in Nat /\ a \in Nat /\ z \in Nat /\ start[k] = pos + head + a
        BY <1>3, <1>6, <3>1
      <3>5. t * B = start[k]
        <4>1. t * B = S * B + (k - 1) * B
          BY <3>1
        <4> QED  BY <3>3, <3>4, <4>1
      <3>6. a + size[k] <= z + rest
        <4>1. CASE k = whole + 1
          BY <1>3, <1>6, <4>1
        <4>2. CASE k # whole + 1
          <5>1. size[k] = B /\ k \in Int /\ k <= whole
            BY <1>3, <1>6, <3>1, <4>2
          <5>2. k * B <= z
            BY <1>3, <5>1, Monotone
          <5>3. k * B = a + B
            BY <5>1
          <5>4. a + B <= z
            BY <5>2, <5>3
          <5> HIDE DEF a, z
          <5> QED  BY <1>3, <3>4, <5>1, <5>4
        <4> QED  BY <4>1, <4>2
      <3>7. o \in 0 .. B - 1 /\ o < size[k]
        BY <3>1
      <3> HIDE DEF a, z, t
      <3>8. len - head = z + rest
        BY <1>3 DEF z
      <3>9. start[k] + o \in pos .. pos + len - 1 /\ start[k] \in Nat /\ start[k] + o \in Nat
        BY <1>2, <1>3, <3>1, <3>4, <3>6, <3>7, <3>8
      <3>10. start[k] = t * B + 0 /\ start[k] + o = t * B + o /\ 0 \in 0 .. B - 1
        BY <3>5, <3>9
      <3>11. start[k] \div B = t
        BY <3>4, <3>9, <3>10, Quotient
      <3>12. (start[k] + o) \div B = t
        BY <3>4, <3>7, <3>9, <3>10, Quotient
      <3> QED  BY <3>9, <3>11, <3>12
    <2> QED  BY <2>1, <2>2
  <1>8. ASSUME NEW q \in pos .. pos + len - 1
        PROVE  \E k \in 0 .. whole + 1 : \E o \in 0 .. size[k] - 1 : q = start[k] + o
    <2>1. CASE q < pos + head
      <3>1. q - pos \in 0 .. size[0] - 1 /\ q = start[0] + (q - pos) /\ 0 \in 0 .. whole + 1
        BY <1>2, <1>3, <1>6, <2>1
      <3> QED  BY <3>1
    <2>2. CASE ~(q < pos + head)
      <3> DEFINE v == q - pos - head
                 j == v \div B
                 o == v % B
      <3>1. v \in Nat /\ v < len - head /\ q = pos + head + v
        BY <1>2, <2>2
      <3>2. j \in Nat /\ o \in 0 .. B - 1 /\ v = j * B + o
        <4> HIDE DEF v
        <4> QED  BY <3>1, Divide
      <3> HIDE DEF v, j, o
      <3>3. j <= whole
        <4> SUFFICES ASSUME whole + 1 <= j  PROVE FALSE
          BY <1>3, <3>2
        <4> DEFINE a == j * B
                   z == whole * B
        <4>1. (whole + 1) * B <= a /\ (whole + 1) * B = z + B /\ a \in Int /\ z \in Int
          BY <1>3, <3>2, Monotone
        <4>2. v = a + o /\ len - head = z + rest
          BY <1>3, <3>2
        <4>3. z + B <= a
          BY <4>1
        <4> HIDE DEF a, z
        <4> QED  BY <1>3, <3>1, <3>2, <4>1, <4>2, <4>3
      <3>4. j + 1 \in 1 .. whole + 1 /\ (j + 1) - 1 = j
        BY <1>3, <3>2, <3>3
      <3>5. q = start[j + 1] + o
        <4> DEFINE a == j * B
        <4>1. start[j + 1] = pos + head + a /\ a \in Int
          BY <1>6, <3>2, <3>4
        <4>2. v = a + o
          BY <3>2
        <4> HIDE DEF a
        <4> QED  BY <1>2, <3>1, <3>2, <4>1, <4>2
      <3>6. o \in 0 .. size[j + 1] - 1
        <4>1. CASE j = whole
          <5> DEFINE z == whole * B
          <5>1. z \in Int /\ v = z + o /\ len - head = z + rest /\ size[j + 1] = rest
            BY <1>3, <1>6, <3>2, <4>1
          <5> HIDE DEF z
          <5> QED  BY <1>3, <3>1, <3>2, <5>1
        <4>2. CASE j # whole
          BY <1>3, <1>6, <3>2, <3>3, <4>2
        <4> QED  BY <4>1, <4>2
      <3>7. j + 1 \in 0 .. whole + 1
        BY <1>3, <3>4
      <3> QED  BY <3>5, <3>6, <3>7
    <2> QED  BY <2>1, <2>2
  <1> QED  BY <1>7, <1>8 DEF Cut

\* A FAT_read of a file finds what was written.
LEMMA ReadIs ==
  ASSUME NEW e \in File, Written(fat, data, e), NEW p \in 0 .. e.size - 1
  PROVE  FAT_read(e, p, e.size - p) = {Byte(e.name, q) : q \in p .. e.size - 1}
  <1> DEFINE B == BytesPerClus
             len == e.size - p
             room  == B - (p % B)
             head  == IF room = B THEN 0 ELSE IF room >= len THEN len ELSE room
             whole == (len - head) \div B
             rest  == (len - head) % B
             start == [k \in 0 .. whole + 1 |-> IF k = 0 THEN p ELSE p + head + (k - 1) * B]
             size  == [k \in 0 .. whole + 1 |-> CASE k = 0 -> head [] k = whole + 1 -> rest [] OTHER -> B]
             Got(k, o) == IF At(e, start[k]) \in Clusters
                          THEN data[At(e, start[k])][(start[k] + o) % B] ELSE Byte(Nobody, 0)
  <1>1. FAT_read(e, p, e.size - p) = UNION {{Got(k, o) : o \in 0 .. size[k] - 1} : k \in 0 .. whole + 1}
    BY DEF FAT_read
  <1>2. p \in Nat /\ len \in Nat /\ B \in Nat \ {0} /\ e.size \in Nat /\ p + len = e.size
    BY FATAssumption DEF FATAssumption, File
  <1>3. Plan(p, len, B, head, whole, rest, start, size)
    BY DEF Plan
  <1> HIDE DEF head, whole, rest, start, size, len
  <1>4. /\ \A k \in 0 .. whole + 1 : \A o \in 0 .. size[k] - 1 :
               /\ start[k] + o \in p .. p + len - 1 /\ start[k] \in Nat
               /\ start[k] \div B = (start[k] + o) \div B
        /\ \A q \in p .. p + len - 1 : \E k \in 0 .. whole + 1 :
               \E o \in 0 .. size[k] - 1 : q = start[k] + o
    <2>1. Cut(p, len, B, whole, start, size)
      BY <1>2, <1>3, ReadPieces
    <2> QED  BY <2>1 DEF Cut
  <1>5. ASSUME NEW k \in 0 .. whole + 1, NEW o \in 0 .. size[k] - 1
        PROVE  Got(k, o) = Byte(e.name, start[k] + o)
    <2>1. start[k] + o \in 0 .. e.size - 1
      BY <1>2, <1>4
    <2>2. At(e, start[k]) = Link(fat, e.clus, (start[k] + o) \div B)
      BY <1>4 DEF At
    <2> QED  BY <2>1, <2>2 DEF Written
  <1> HIDE DEF Got
  <1>6. ASSUME NEW b \in FAT_read(e, p, e.size - p)
        PROVE  b \in {Byte(e.name, q) : q \in p .. e.size - 1}
    <2>1. PICK k \in 0 .. whole + 1 : \E o \in 0 .. size[k] - 1 : b = Got(k, o)
      BY <1>1, <1>6
    <2>2. PICK o \in 0 .. size[k] - 1 : b = Got(k, o)
      BY <2>1
    <2>3. b = Byte(e.name, start[k] + o) /\ start[k] + o \in p .. e.size - 1
      BY <1>2, <1>4, <1>5, <2>2
    <2> QED  BY <2>3
  <1>7. ASSUME NEW q \in p .. e.size - 1  PROVE Byte(e.name, q) \in FAT_read(e, p, e.size - p)
    <2>1. PICK k \in 0 .. whole + 1 : \E o \in 0 .. size[k] - 1 : q = start[k] + o
      BY <1>2, <1>4
    <2>2. PICK o \in 0 .. size[k] - 1 : q = start[k] + o
      BY <2>1
    <2>3. Got(k, o) = Byte(e.name, q)
      BY <1>5, <2>2
    <2> QED  BY <1>1, <2>3
  <1> QED  BY <1>6, <1>7

\* In orderly use of an intact volume FAT_read returns the bytes that were written
\* for the positions it is asked for, of that very file, when none of the file's
\* bytes lies behind the end of the disk.
THEOREM FilesKeepBytes == Spec => []OwnBytes
  <1>1. ASSUME FATInv  PROVE OwnBytes
    <2> SUFFICES ASSUME orderly, Intact,
                        NEW e \in {dir[i] : i \in Slots} \cup {open[fd] : fd \in Fds},
                        NEW p \in 0 .. e.size - 1
                 PROVE  FAT_read(e, p, e.size - p) = {Byte(e.name, q) : q \in p .. e.size - 1}
      BY DEF OwnBytes
    <2>1. Types /\ Order(fat, dir, data, vnode, open)
      BY <1>1 DEF FATInv, Whole, Intact
    <2>2. e # Empty /\ e # Closed
      BY DEF Empty, Closed
    <2>3. e \in File /\ Written(fat, data, e)
      <3>1. CASE \E i \in Slots : e = dir[i]
        <4>1. PICK i \in Slots : e = dir[i]
          BY <3>1
        <4>2. dir[i] \in File
          BY <2>1, <2>2, <4>1 DEF Types
        <4>3. i \in Used(dir)
          BY <4>2, FATAssumption DEF File, Used, FATAssumption
        <4> QED  BY <2>1, <4>1, <4>2, <4>3 DEF Order
      <3>2. CASE \E fd \in Fds : e = open[fd]
        <4>1. PICK fd \in Fds : e = open[fd]
          BY <3>2
        <4> QED  BY <2>1, <2>2, <4>1 DEF Types, Order
      <3> QED  BY <3>1, <3>2
    <2> QED  BY <2>3, ReadIs
  <1> QED  BY <1>1, VolumeWhole, PTL
=============================================================================
