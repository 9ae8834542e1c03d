--------------------------- MODULE FATTreeProofs ---------------------------
(***************************************************************************)
(* Directories hold what was created in them, for volumes and directories  *)
(* of any size, trees of any depth and any set of names.                   *)
(***************************************************************************)
EXTENDS FATTree, Induction

-----------------------------------------------------------------------------
(* The invariant                                                           *)

Dot  == FAT_conv_fname(<<".">>)
Dots == FAT_conv_fname(<<".", ".">>)

Names   == {<<>>, Dot, Dots} \cup {FAT_conv_fname(n) : n \in FileNames}
Entries == [name : Names, clus : Nat]
Places  == {Root} \cup TreeClusters
Files   == [name : FileNames, parent : Places, clus : TreeClusters, dir : BOOLEAN]

\* Each place has its entries.
Shaped(es) ==
  /\ es \in [Places -> UNION {[Slots(c) -> Entries] : c \in Places}]
  /\ \A c \in Places : es[c] \in [Slots(c) -> Entries]

\* The entries that stand for a file, and for a directory in itself.
Stands(f)  == [name |-> FAT_conv_fname(f.name), clus |-> f.clus]
Itself(f)  == [name |-> Dot, clus |-> f.clus]
Upwards(f) == [name |-> Dots, clus |-> f.parent]

DirsIn(T) == {Root} \cup {f.clus : f \in {g \in T : g.dir}}

Belongs(T, d, e) ==
  \/ e = Free
  \/ \E f \in T : f.parent = d /\ e = Stands(f)
  \/ \E f \in T : f.dir /\ f.clus = d /\ (e = Itself(f) \/ e = Upwards(f))

\* A tree: everything is in a directory and has a cluster of its own.
IsTree(T) ==
  /\ T \in SUBSET Files /\ IsFiniteSet(T)
  /\ \A f \in T : f.parent \in DirsIn(T)
  /\ \A f, g \in T : f.clus = g.clus => f = g

\* The directories of the tree hold the entries of their files, and no others.
Holds(T, es) ==
  /\ \A d \in DirsIn(T) : \A i \in Slots(d) : Belongs(T, d, es[d][i])
  /\ \A f \in T : \E i \in Slots(f.parent) : es[f.parent][i] = Stands(f)
  /\ \A f \in T : f.dir => /\ \E i \in Slots(f.clus) : es[f.clus][i] = Itself(f)
                           /\ \E i \in Slots(f.clus) : es[f.clus][i] = Upwards(f)

Clusters(T) == {f.clus : f \in T}

TreeInv ==
  /\ Shaped(entries) /\ IsTree(tree) /\ Holds(tree, entries)
  /\ used \subseteq TreeClusters /\ used = Clusters(tree) \cup orphans
  /\ Clusters(tree) \cap orphans = {}

-----------------------------------------------------------------------------
(* Names and entries                                                       *)

LEMMA TreeNumbers ==
  /\ TreeClusters \subseteq Nat \ {0} /\ Root = 0 /\ Root \notin TreeClusters /\ Places \subseteq Nat
  /\ IsFiniteSet(TreeClusters) /\ PerCluster \in Nat /\ PerCluster >= 2 /\ RootEntries \in Nat
  /\ NameLen \in Nat /\ NameLen >= 2
  BY TreeAssumption DEF TreeAssumption, Root, Places

\* The two ways in which FAT_conv_fname fills a name up.
Short(s) == [i \in 1 .. NameLen |-> IF i <= Len(s) THEN s[i] ELSE " "]

LEMMA Converted ==
  ASSUME NEW s
  PROVE  /\ DOMAIN FAT_conv_fname(s) = 1 .. NameLen
         /\ Len(s) < 3 /\ s[1] = "." => FAT_conv_fname(s) = Short(s)
  <1> DEFINE l    == Len(s)
             base == CHOOSE k \in 0 .. BaseLen :
                       /\ k = BaseLen \/ k = l \/ (k < l /\ s[k + 1] = ".")
                       /\ \A i \in 1 .. k : i <= l /\ s[i] # "."
             last == IF l < NameLen THEN l ELSE NameLen
             v    == [i \in 1 .. NameLen |->
                        IF i <= base THEN s[i]
                        ELSE IF i > BaseLen /\ i - BaseLen + base + 1 <= last
                             THEN s[i - BaseLen + base + 1] ELSE " "]
  <1>1. FAT_conv_fname(s) = IF l < 3 /\ s[1] = "." THEN Short(s) ELSE v
    BY DEF FAT_conv_fname, Short
  <1>2. DOMAIN Short(s) = 1 .. NameLen /\ DOMAIN v = 1 .. NameLen
    BY DEF Short
  <1> HIDE DEF v
  <1> QED  BY <1>1, <1>2

LEMMA SecondOf ==
  ASSUME NEW s, NEW l \in {1, 2}, l = Len(s), s[1] = "."
  PROVE  /\ l = 1 => FAT_conv_fname(s)[2] = " "
         /\ l = 2 => FAT_conv_fname(s)[2] = s[2]
  <1>1. 2 \in 1 .. NameLen
    BY TreeNumbers
  <1>2. FAT_conv_fname(s) = Short(s)
    <2>1. Len(s) < 3
      OBVIOUS
    <2> QED  BY <2>1, Converted
  <1>3. Short(s)[2] = IF 2 <= l THEN s[2] ELSE " "
    BY <1>1 DEF Short
  <1>4. (l = 2 => 2 <= l) /\ (l = 1 => ~(2 <= l))
    OBVIOUS
  <1>5. l = 1 => FAT_conv_fname(s)[2] = " "
    BY Zenon, <1>2, <1>3, <1>4
  <1>6. l = 2 => FAT_conv_fname(s)[2] = s[2]
    BY Zenon, <1>2, <1>3, <1>4
  <1> QED  BY <1>5, <1>6

LEMMA NamesApart ==
  /\ Dot # <<>> /\ Dots # <<>> /\ Dot # Dots
  /\ \A n \in FileNames : /\ FAT_conv_fname(n) \notin {<<>>, Dot, Dots}
                          /\ \A m \in FileNames : FAT_conv_fname(m) = FAT_conv_fname(n) => m = n
  <1>1. 1 \in 1 .. NameLen /\ 2 \in 1 .. NameLen
    BY TreeNumbers
  <1>2. 1 \notin DOMAIN <<>>
    OBVIOUS
  <1>3. ASSUME NEW n  PROVE FAT_conv_fname(n) # <<>>
    BY <1>1, <1>2, Converted
  <1>4. Dot[2] = " "
    <2>1. Len(<<".">>) = 1 /\ <<".">>[1] = "."
      OBVIOUS
    <2>2. PICK s : s = <<".">>
      OBVIOUS
    <2>3. FAT_conv_fname(s)[2] = " "
      BY <2>1, <2>2, SecondOf
    <2> QED  BY Zenon, <2>2, <2>3 DEF Dot
  <1>5. Dots[2] = "."
    <2>1. Len(<<".", ".">>) = 2 /\ <<".", ".">>[1] = "." /\ <<".", ".">>[2] = "."
      OBVIOUS
    <2> QED  BY <2>1, SecondOf DEF Dots
  <1>6. Dot # Dots
    <2>1. " " # "."
      OBVIOUS
    <2> QED  BY <1>4, <1>5, <2>1
  <1>7. \A n \in FileNames : FAT_conv_fname(n) \notin {Dot, Dots}
    BY TreeAssumption DEF TreeAssumption, Dot, Dots
  <1>8. \A n, m \in FileNames : FAT_conv_fname(m) = FAT_conv_fname(n) => m = n
    BY TreeAssumption DEF TreeAssumption
  <1> QED  BY <1>3, <1>6, <1>7, <1>8 DEF Dot, Dots

LEMMA FirstIs ==
  ASSUME NEW S \in SUBSET Nat, S # {}
  PROVE  FirstOf(S) \in S /\ \A j \in S : FirstOf(S) <= j
  <1>1. \E i \in S : \A j \in S : i <= j
    BY Least
  <1> QED  BY <1>1 DEF FirstOf

LEMMA SlotsAre ==
  /\ \A d : Slots(d) \in SUBSET Nat
  /\ \A d : d # Root => 0 \in Slots(d) /\ 1 \in Slots(d)
  BY TreeNumbers DEF Slots

LEMMA FreeIs == Free \in Entries /\ Free.name = <<>>
  BY DEF Free, Entries, Names

Puts(es, d, g, r) == r = [es EXCEPT ![d] = g]

LEMMA Replaced ==
  ASSUME NEW es, Shaped(es), NEW d \in Places, NEW g \in [Slots(d) -> Entries],
         NEW r, Puts(es, d, g, r)
  PROVE  Shaped(r) /\ r[d] = g /\ \A c \in Places : c # d => r[c] = es[c]
  <1> DEFINE U == UNION {[Slots(c) -> Entries] : c \in Places}
  <1>1. es \in [Places -> U] /\ \A c \in Places : es[c] \in [Slots(c) -> Entries]
    BY DEF Shaped
  <1>2. g \in U
    OBVIOUS
  <1> HIDE DEF U
  <1>3. r \in [Places -> U] /\ r[d] = g /\ \A c \in Places : c # d => r[c] = es[c]
    BY <1>1, <1>2 DEF Puts
  <1>4. \A c \in Places : r[c] \in [Slots(c) -> Entries]
    BY <1>1, <1>3
  <1> QED  BY <1>3, <1>4 DEF Shaped, U

\* FAT_write_entry fills one free entry of the directory, the first.
LEMMA Written ==
  ASSUME NEW es, Shaped(es), NEW d \in Places, NEW e \in Entries, Room(es, d) # {},
         NEW r, r = FAT_write_entry(es, d, e)
  PROVE  \E i \in Room(es, d) :
           /\ \A j \in Room(es, d) : i <= j
           /\ Shaped(r) /\ r[d][i] = e
           /\ \A j \in Slots(d) : j # i => r[d][j] = es[d][j]
           /\ \A c \in Places : c # d => r[c] = es[c]
  <1>1. PICK i : i = FirstOf(Room(es, d))
    OBVIOUS
  <1>2. i \in Room(es, d) /\ i \in Slots(d) /\ \A j \in Room(es, d) : i <= j
    <2>1. Room(es, d) \in SUBSET Nat /\ Room(es, d) \subseteq Slots(d)
      BY SlotsAre DEF Room
    <2> QED  BY <1>1, <2>1, FirstIs
  <1>3. PICK g : g = [es[d] EXCEPT ![i] = e]
    OBVIOUS
  <1>4. g \in [Slots(d) -> Entries] /\ g[i] = e /\ \A j \in Slots(d) : j # i => g[j] = es[d][j]
    <2>1. es[d] \in [Slots(d) -> Entries]
      BY DEF Shaped
    <2> QED  BY <1>2, <1>3, <2>1
  <1>5. Puts(es, d, g, r)
    BY <1>1, <1>3 DEF FAT_write_entry, Puts
  <1>6. Shaped(r) /\ r[d] = g /\ \A c \in Places : c # d => r[c] = es[c]
    BY <1>4, <1>5, Replaced
  <1> QED  BY <1>2, <1>4, <1>6

\* FAT_init_dir leaves the two entries of a directory in its cluster, and
\* nothing of what was there before.
LEMMA Initialised ==
  ASSUME NEW es, Shaped(es), NEW c \in TreeClusters, NEW parent \in Places,
         NEW dot, dot = [name |-> Dot, clus |-> c], NEW up, up = [name |-> Dots, clus |-> parent],
         NEW r, r = FAT_init_dir(es, c, parent)
  PROVE  /\ Shaped(r) /\ r[c][0] = dot /\ r[c][1] = up
         /\ \A i \in Slots(c) : i # 0 /\ i # 1 => r[c][i] = Free
         /\ \A d \in Places : d # c => r[d] = es[d]
  <1>1. c \in Places /\ c # Root /\ 0 \in Slots(c) /\ 1 \in Slots(c) /\ Slots(c) \in SUBSET Nat
    BY TreeNumbers, SlotsAre DEF Places
  <1>2. dot \in Entries /\ up \in Entries /\ dot # Free /\ Free \in Entries
    <2>1. c \in Nat /\ parent \in Nat
      BY TreeNumbers, <1>1
    <2>2. dot.name = Dot
      OBVIOUS
    <2> QED  BY <2>1, <2>2, FreeIs, NamesApart DEF Entries, Names
  <1>3. PICK g : g = [i \in Slots(c) |-> Free]
    OBVIOUS
  <1>4. g \in [Slots(c) -> Entries]
    BY <1>2, <1>3
  <1>5. PICK zero : zero = [es EXCEPT ![c] = g]
    OBVIOUS
  <1>6. Shaped(zero) /\ zero[c] = g /\ \A d \in Places : d # c => zero[d] = es[d]
    <2>1. Puts(es, c, g, zero)
      BY <1>5 DEF Puts
    <2> QED  BY <1>1, <1>4, <2>1, Replaced
  <1>7. Room(zero, c) = Slots(c)
    BY <1>3, <1>6 DEF Room
  <1>8. PICK i, first :
          /\ i \in Slots(c) /\ first = FAT_write_entry(zero, c, dot) /\ \A j \in Slots(c) : i <= j
          /\ Shaped(first) /\ first[c][i] = dot
          /\ \A j \in Slots(c) : j # i => first[c][j] = Free
          /\ \A d \in Places : d # c => first[d] = es[d]
    <2>1. Room(zero, c) # {}
      BY <1>1, <1>7
    <2>2. PICK first : first = FAT_write_entry(zero, c, dot)
      OBVIOUS
    <2>3. \E i \in Room(zero, c) :
            /\ \A j \in Room(zero, c) : i <= j
            /\ Shaped(first) /\ first[c][i] = dot
            /\ \A j \in Slots(c) : j # i => first[c][j] = zero[c][j]
            /\ \A d \in Places : d # c => first[d] = zero[d]
      BY <1>1, <1>2, <1>6, <2>1, <2>2, Written
    <2> QED  BY <1>3, <1>6, <1>7, <2>2, <2>3
  <1>9. i = 0
    BY <1>1, <1>8
  <1>10. Room(first, c) = Slots(c) \ {0} /\ \A j \in Room(first, c) : j >= 1
    <2>1. Room(first, c) = Slots(c) \ {0}
      BY <1>1, <1>2, <1>8, <1>9 DEF Room
    <2> QED  BY <1>1, <2>1
  <1>11. PICK k, second :
          /\ k \in Room(first, c) /\ second = FAT_write_entry(first, c, up) /\ \A j \in Room(first, c) : k <= j
          /\ Shaped(second) /\ second[c][k] = up
          /\ \A j \in Slots(c) : j # k => second[c][j] = first[c][j]
          /\ \A d \in Places : d # c => second[d] = first[d]
    <2>1. Room(first, c) # {}
      BY <1>1, <1>10
    <2>2. PICK second : second = FAT_write_entry(first, c, up)
      OBVIOUS
    <2>3. \E k \in Room(first, c) :
            /\ \A j \in Room(first, c) : k <= j
            /\ Shaped(second) /\ second[c][k] = up
            /\ \A j \in Slots(c) : j # k => second[c][j] = first[c][j]
            /\ \A d \in Places : d # c => second[d] = first[d]
      <3>1. Shaped(first) /\ up \in Entries /\ c \in Places
        BY <1>1, <1>2, <1>8
      <3> QED  BY <2>1, <2>2, <3>1, Written
    <2> QED  BY <2>2, <2>3
  <1>12. k = 1
    <2>1. 1 \in Room(first, c) /\ k \in Nat
      BY <1>1, <1>10, <1>11
    <2> QED  BY <1>10, <1>11, <2>1
  <1>13. FAT_init_dir(es, c, parent) = second
    BY <1>3, <1>5, <1>8, <1>11 DEF FAT_init_dir, Dot, Dots
  <1>14. second[c][0] = dot /\ second[c][1] = up
    <2>1. 0 # 1 /\ 0 \in Slots(c)
      BY <1>1
    <2> QED  BY Zenon, <2>1, <1>8, <1>9, <1>11, <1>12
  <1>15. \A j \in Slots(c) : j # 0 /\ j # 1 => second[c][j] = Free
    <2>1. ASSUME NEW j \in Slots(c), j # 0, j # 1  PROVE second[c][j] = Free
      <3>1. second[c][j] = first[c][j]
        BY <1>11, <1>12, <2>1
      <3>2. first[c][j] = Free
        BY <1>8, <1>9, <2>1
      <3> QED  BY <3>1, <3>2
    <2> QED  BY <2>1
  <1>16. \A d \in Places : d # c => second[d] = es[d]
    BY <1>8, <1>11
  <1> QED  BY Zenon, <1>11, <1>13, <1>14, <1>15, <1>16

-----------------------------------------------------------------------------
(* Looking up                                                              *)

\* There is an entry of the name, and those there are have one cluster.
Leads(d, name, c) ==
  /\ \E i \in Slots(d) : entries[d][i].name = name
  /\ \A i \in Slots(d) : entries[d][i].name = name => entries[d][i].clus = c

\* The first entry of the name is found.
LEMMA FindsFirst ==
  ASSUME NEW d, NEW name, Named(d, name) # {}
  PROVE  \E i \in Named(d, name) : FAT_lookup(d, name) = entries[d][i].clus
  <1>1. PICK hits : hits = Named(d, name)
    OBVIOUS
  <1>2. hits # {} /\ hits \in SUBSET Nat
    BY <1>1, SlotsAre DEF Named
  <1>3. FirstOf(hits) \in hits
    BY <1>2, FirstIs
  <1>4. FAT_file_entry(d, name) = entries[d][FirstOf(hits)]
    BY <1>1, <1>2 DEF FAT_file_entry
  <1> QED  BY <1>1, <1>3, <1>4 DEF FAT_lookup

LEMMA Finds ==
  ASSUME NEW d, NEW name, NEW c, Leads(d, FAT_conv_fname(name), c)  PROVE FAT_lookup(d, name) = c
  <1>1. Named(d, name) # {} /\ \A i \in Named(d, name) : entries[d][i].clus = c
    BY DEF Leads, Named
  <1> QED  BY <1>1, FindsFirst

LEMMA FindsNothing ==
  ASSUME NEW d, NEW name, Named(d, name) = {}, Strangers(d, name) = {}
  PROVE  FAT_lookup(d, name) = 0
  BY DEF FAT_lookup, FAT_file_entry, Free

\* What has the name of a file in a directory is the entry of that file.
LEMMA HasName ==
  ASSUME NEW T, NEW es, IsTree(T), Holds(T, es), NEW d \in DirsIn(T), NEW i \in Slots(d),
         NEW n \in FileNames, es[d][i].name = FAT_conv_fname(n)
  PROVE  \E f \in T : f.parent = d /\ f.name = n /\ es[d][i] = Stands(f) /\ es[d][i].clus = f.clus
  <1>1. FAT_conv_fname(n) # <<>> /\ FAT_conv_fname(n) # Dot /\ FAT_conv_fname(n) # Dots
    BY NamesApart
  <1>2. PICK e : e = es[d][i]
    OBVIOUS
  <1>3. Belongs(T, d, e) /\ e.name = FAT_conv_fname(n)
    BY <1>2 DEF Holds
  <1>4. e # Free
    BY <1>1, <1>3 DEF Free
  <1>5. ASSUME NEW f \in T, e = Itself(f) \/ e = Upwards(f)  PROVE FALSE
    BY <1>1, <1>3, <1>5 DEF Itself, Upwards
  <1>6. PICK f \in T : f.parent = d /\ e = Stands(f)
    BY <1>3, <1>4, <1>5 DEF Belongs
  <1>7. e.name = FAT_conv_fname(f.name) /\ e.clus = f.clus
    BY <1>6 DEF Stands
  <1>8. f.name = n
    <2>1. f.name \in FileNames
      BY DEF IsTree, Files
    <2> QED  BY <1>3, <1>7, <2>1, NamesApart
  <1> QED  BY <1>2, <1>6, <1>7, <1>8

\* The clusters of the files that have a name in a directory.
Created(T, d, n) == {f.clus : f \in {g \in T : g.parent = d /\ g.name = n}}

LEMMA EntriesOf ==
  ASSUME NEW T, NEW es, IsTree(T), Holds(T, es), NEW d \in DirsIn(T), NEW n \in FileNames,
         NEW hits, hits = {i \in Slots(d) : es[d][i].name = FAT_conv_fname(n)}
  PROVE  {es[d][i].clus : i \in hits} = Created(T, d, n)
  <1>1. ASSUME NEW i \in hits  PROVE es[d][i].clus \in Created(T, d, n)
    <2>1. i \in Slots(d) /\ es[d][i].name = FAT_conv_fname(n)
      OBVIOUS
    <2>2. PICK f \in T : f.parent = d /\ f.name = n /\ es[d][i].clus = f.clus
      BY <2>1, HasName
    <2> QED  BY <2>2 DEF Created
  <1>2. ASSUME NEW f \in T, f.parent = d, f.name = n  PROVE \E i \in hits : es[d][i].clus = f.clus
    <2>1. PICK i \in Slots(d) : es[d][i] = Stands(f)
      BY <1>2 DEF Holds
    <2>2. es[d][i].name = FAT_conv_fname(n) /\ es[d][i].clus = f.clus
      BY <1>2, <2>1 DEF Stands
    <2> QED  BY <2>2
  <1>3. PICK S : S = {es[d][i].clus : i \in hits}
    OBVIOUS
  <1>4. \A x \in S : x \in Created(T, d, n)
    BY <1>1, <1>3
  <1>5. \A x \in Created(T, d, n) : x \in S
    BY <1>2, <1>3 DEF Created
  <1> QED  BY <1>3, <1>4, <1>5

LEMMA LooksUp ==
  ASSUME TreeInv, NEW d \in DirsIn(tree), NEW n \in FileNames
  PROVE  /\ {entries[d][i].clus : i \in Named(d, n)} = Created(tree, d, n)
         /\ Strangers(d, n) = {} =>
              FAT_lookup(d, n) \in (IF Created(tree, d, n) = {} THEN {0} ELSE Created(tree, d, n))
  <1>1. PICK S, C : S = Named(d, n) /\ C = Created(tree, d, n)
    OBVIOUS
  <1>2. {entries[d][i].clus : i \in S} = C
    <2>1. S = {i \in Slots(d) : entries[d][i].name = FAT_conv_fname(n)}
      BY <1>1 DEF Named
    <2> QED  BY <1>1, <2>1, EntriesOf DEF TreeInv
  <1>3. CASE S = {}
    <2>1. C = {}
      BY <1>2, <1>3
    <2>2. Strangers(d, n) = {} => FAT_lookup(d, n) = 0
      BY <1>1, <1>3, FindsNothing
    <2> QED  BY <1>1, <1>2, <2>1, <2>2
  <1>4. CASE S # {}
    <2>1. PICK i \in S : FAT_lookup(d, n) = entries[d][i].clus
      BY <1>1, <1>4, FindsFirst
    <2>2. FAT_lookup(d, n) \in C
      BY <1>2, <2>1
    <2> QED  BY <1>1, <1>2, <2>2
  <1> QED  BY <1>3, <1>4

LEMMA KeepsTree ==
  ASSUME TreeInv  PROVE TreeKept
  <1>1. IsTree(tree) /\ Holds(tree, entries) /\ Dirs = DirsIn(tree)
    BY DEF TreeInv, Dirs, DirsIn
  <1>2. ASSUME NEW d \in Dirs, NEW n \in FileNames
        PROVE  LET created == {f.clus : f \in {g \in tree : g.parent = d /\ g.name = n}} IN
               /\ {entries[d][i].clus : i \in Named(d, n)} = created
               /\ Strangers(d, n) = {} =>
                    FAT_lookup(d, n) \in (IF created = {} THEN {0} ELSE created)
    BY <1>1, LooksUp DEF Created
  <1>3. ASSUME NEW f \in tree, f.dir
        PROVE  FAT_lookup(f.clus, <<".">>) = f.clus /\ FAT_lookup(f.clus, <<".", ".">>) = f.parent
    <2>1. f.clus \in DirsIn(tree) /\ f.clus # Root
      BY <1>1, <1>3, TreeNumbers DEF DirsIn, IsTree, Files
    <2>2. ASSUME NEW i \in Slots(f.clus)
          PROVE  /\ entries[f.clus][i].name = Dot => entries[f.clus][i].clus = f.clus
                 /\ entries[f.clus][i].name = Dots => entries[f.clus][i].clus = f.parent
      <3>1. PICK e : e = entries[f.clus][i]
        OBVIOUS
      <3>2. Belongs(tree, f.clus, e)
        BY <1>1, <2>1, <3>1 DEF Holds
      <3>3. CASE e = Free
        BY <3>1, <3>3, NamesApart DEF Free
      <3>4. CASE \E g \in tree : g.parent = f.clus /\ e = Stands(g)
        <4>1. PICK g \in tree : e = Stands(g)
          BY <3>4
        <4>2. e.name = FAT_conv_fname(g.name) /\ g.name \in FileNames
          BY <1>1, <4>1 DEF Stands, IsTree, Files
        <4> QED  BY <3>1, <4>2, NamesApart
      <3>5. CASE \E g \in tree : g.dir /\ g.clus = f.clus /\ (e = Itself(g) \/ e = Upwards(g))
        <4>1. e = Itself(f) \/ e = Upwards(f)
          BY <1>1, <3>5 DEF IsTree
        <4>2. \/ e.name = Dot /\ e.clus = f.clus
              \/ e.name = Dots /\ e.clus = f.parent
          BY <4>1 DEF Itself, Upwards
        <4> QED  BY <3>1, <4>2, NamesApart
      <3> QED  BY <3>2, <3>3, <3>4, <3>5 DEF Belongs
    <2>3. /\ \E i \in Slots(f.clus) : entries[f.clus][i].name = Dot
          /\ \E i \in Slots(f.clus) : entries[f.clus][i].name = Dots
      <3>1. /\ \E i \in Slots(f.clus) : entries[f.clus][i] = Itself(f)
            /\ \E i \in Slots(f.clus) : entries[f.clus][i] = Upwards(f)
        BY <1>1, <1>3 DEF Holds
      <3> QED  BY <3>1 DEF Itself, Upwards
    <2>4. FAT_lookup(f.clus, <<".">>) = f.clus
      <3>1. Leads(f.clus, Dot, f.clus)
        BY <2>2, <2>3 DEF Leads
      <3> QED  BY <3>1, Finds DEF Dot
    <2>5. FAT_lookup(f.clus, <<".", ".">>) = f.parent
      <3>1. Leads(f.clus, Dots, f.parent)
        BY <2>2, <2>3 DEF Leads
      <3> QED  BY <3>1, Finds DEF Dots
    <2> QED  BY <2>4, <2>5
  <1>4. \A f, g \in tree : f.clus = g.clus => f = g
    BY <1>1 DEF IsTree
  <1>5. used = {f.clus : f \in tree} \cup orphans
    BY DEF TreeInv, Clusters
  <1> QED  BY <1>2, <1>3, <1>4, <1>5 DEF TreeKept

-----------------------------------------------------------------------------
(* The steps                                                               *)

LEMMA TreeStarts ==
  ASSUME TreeInit  PROVE TreeInv
  <1>1. tree = {} /\ used = {} /\ orphans = {}
    BY DEF TreeInit
  <1>2. Shaped(entries)
    <2> DEFINE U == UNION {[Slots(c) -> Entries] : c \in Places}
    <2>1. entries = [c \in Places |-> [i \in Slots(c) |-> Free]]
      BY DEF TreeInit, Places
    <2>2. \A c \in Places : [i \in Slots(c) |-> Free] \in [Slots(c) -> Entries]
      BY FreeIs
    <2>3. \A c \in Places : [i \in Slots(c) |-> Free] \in U
      BY <2>2
    <2> QED  BY <2>1, <2>2, <2>3 DEF Shaped
  <1>3. DirsIn(tree) = {Root} /\ Root \in Places
    BY <1>1 DEF DirsIn, Places
  <1>4. IsTree(tree)
    BY <1>1, FS_EmptySet DEF IsTree
  <1>5. Holds(tree, entries)
    <2>1. \A i \in Slots(Root) : entries[Root][i] = Free
      BY <1>3 DEF TreeInit, Places
    <2> QED  BY <1>1, <1>3, <2>1 DEF Holds, Belongs
  <1> QED  BY <1>1, <1>2, <1>4, <1>5 DEF TreeInv, Clusters

\* A file's cluster is no directory.
LEMMA FillKeeps ==
  ASSUME TreeInv, NEW f \in tree, NEW n \in FileNames, Fill(f, n)  PROVE TreeInv'
  <1>1. PICK g : g = [i \in Slots(f.clus) |-> [name |-> FAT_conv_fname(n), clus |-> f.clus]]
    OBVIOUS
  <1>2. f \in Files /\ f.clus \in Places /\ f.clus # Root /\ f.clus \in Nat
    BY TreeNumbers DEF TreeInv, IsTree, Files, Places
  <1>3. g \in [Slots(f.clus) -> Entries]
    <2>1. [name |-> FAT_conv_fname(n), clus |-> f.clus] \in Entries
      BY <1>2 DEF Entries, Names
    <2> QED  BY <1>1, <2>1
  <1>4. Puts(entries, f.clus, g, entries')
    BY <1>1 DEF Fill, Puts
  <1>5. Shaped(entries') /\ \A c \in Places : c # f.clus => entries'[c] = entries[c]
    BY <1>2, <1>3, <1>4, Replaced DEF TreeInv
  <1>6. UNCHANGED <<used, tree, orphans>> /\ ~f.dir
    BY DEF Fill
  <1>7. IsTree(tree) /\ Holds(tree, entries)
    BY DEF TreeInv
  <1>8. ASSUME NEW d \in DirsIn(tree)  PROVE entries'[d] = entries[d]
    <2>1. d \in Places /\ d # f.clus
      <3>1. CASE d = Root
        BY <1>2, <3>1 DEF Places
      <3>2. CASE \E h \in tree : h.dir /\ h.clus = d
        BY <1>6, <1>7, <3>2 DEF IsTree, Files, Places
      <3> QED  BY <3>1, <3>2 DEF DirsIn
    <2> QED  BY <1>5, <2>1
  <1>9. Holds(tree, entries')
    <2>1. \A h \in tree : h.parent \in DirsIn(tree) /\ (h.dir => h.clus \in DirsIn(tree))
      BY <1>7 DEF IsTree, DirsIn
    <2> QED  BY <1>7, <1>8, <2>1 DEF Holds
  <1> QED  BY <1>5, <1>6, <1>7, <1>9 DEF TreeInv

\* A file more in the tree, with a cluster of its own.
LEMMA OneMore ==
  ASSUME NEW T, IsTree(T), NEW f \in Files, f.parent \in DirsIn(T), f.clus \notin Clusters(T)
  PROVE  /\ IsTree(T \cup {f})
         /\ DirsIn(T \cup {f}) = DirsIn(T) \cup (IF f.dir THEN {f.clus} ELSE {})
         /\ Clusters(T \cup {f}) = Clusters(T) \cup {f.clus}
  <1> DEFINE T2 == T \cup {f}
  <1>1. DirsIn(T2) = DirsIn(T) \cup (IF f.dir THEN {f.clus} ELSE {})
    BY DEF DirsIn
  <1>2. Clusters(T2) = Clusters(T) \cup {f.clus}
    BY DEF Clusters
  <1>3. T2 \in SUBSET Files /\ IsFiniteSet(T2)
    BY FS_AddElement DEF IsTree
  <1>4. \A g \in T2 : g.parent \in DirsIn(T2)
    BY <1>1 DEF IsTree
  <1>5. \A g, h \in T2 : g.clus = h.clus => g = h
    BY DEF IsTree, Clusters
  <1>6. IsTree(T2)
    BY <1>3, <1>4, <1>5 DEF IsTree
  <1> QED  BY <1>1, <1>2, <1>6

\* The entries of the tree with one file more.
Extends(T, es, f, es2) ==
  /\ \E i \in Slots(f.parent) : /\ es[f.parent][i] = Free /\ es2[f.parent][i] = Stands(f)
                                /\ \A j \in Slots(f.parent) : j # i => es2[f.parent][j] = es[f.parent][j]
  /\ \A d \in DirsIn(T) : d # f.parent => es2[d] = es[d]
  /\ f.dir => /\ \E i \in Slots(f.clus) : es2[f.clus][i] = Itself(f)
              /\ \E i \in Slots(f.clus) : es2[f.clus][i] = Upwards(f)
              /\ \A i \in Slots(f.clus) : es2[f.clus][i] \in {Free, Itself(f), Upwards(f)}

LEMMA HoldsMore ==
  ASSUME NEW T, IsTree(T), NEW f \in Files, f.parent \in DirsIn(T), f.clus \notin Clusters(T), f.clus # Root,
         NEW es, Holds(T, es), NEW es2, Extends(T, es, f, es2),
         DirsIn(T \cup {f}) = DirsIn(T) \cup (IF f.dir THEN {f.clus} ELSE {})
  PROVE  Holds(T \cup {f}, es2)
  <1>1. PICK T2 : T2 = T \cup {f}
    OBVIOUS
  <1>2. PICK k \in Slots(f.parent) :
          /\ es[f.parent][k] = Free /\ es2[f.parent][k] = Stands(f)
          /\ \A j \in Slots(f.parent) : j # k => es2[f.parent][j] = es[f.parent][j]
    BY DEF Extends
  <1>3. \A d \in DirsIn(T) : d # f.parent => es2[d] = es[d]
    BY DEF Extends
  <1>4. f.clus \notin DirsIn(T)
    BY DEF DirsIn, Clusters
  <1>5. f \in T2 /\ \A g \in T : g \in T2
    BY <1>1
  \* What was there is there, but for the free entry that is taken.
  <1>6. ASSUME NEW d \in DirsIn(T), NEW i \in Slots(d)
        PROVE  es2[d][i] = es[d][i] \/ (d = f.parent /\ es[d][i] = Free /\ es2[d][i] = Stands(f))
    BY <1>2, <1>3
  <1>7. ASSUME NEW d \in DirsIn(T2), NEW i \in Slots(d)  PROVE Belongs(T2, d, es2[d][i])
    <2>1. CASE d \in DirsIn(T)
      <3>1. Belongs(T, d, es[d][i])
        BY <2>1 DEF Holds
      <3>2. Belongs(T2, d, es[d][i])
        BY <1>5, <3>1 DEF Belongs
      <3>3. CASE es2[d][i] = es[d][i]
        BY <3>2, <3>3
      <3>4. CASE d = f.parent /\ es2[d][i] = Stands(f)
        BY <1>5, <3>4 DEF Belongs
      <3> QED  BY <1>6, <2>1, <3>3, <3>4
    <2>2. CASE d \notin DirsIn(T)
      <3>1. f.dir /\ d = f.clus
        BY <1>1, <2>2
      <3>2. es2[d][i] \in {Free, Itself(f), Upwards(f)}
        BY <3>1 DEF Extends
      <3> QED  BY <1>5, <3>1, <3>2 DEF Belongs
    <2> QED  BY <2>1, <2>2
  <1>8. ASSUME NEW g \in T2  PROVE \E i \in Slots(g.parent) : es2[g.parent][i] = Stands(g)
    <2>1. CASE g = f
      BY <1>2, <2>1
    <2>2. CASE g \in T
      <3>1. g.parent \in DirsIn(T)
        BY <2>2 DEF IsTree
      <3>2. PICK i \in Slots(g.parent) : es[g.parent][i] = Stands(g)
        BY <2>2 DEF Holds
      <3>3. Stands(g) # Free
        <4>1. g.name \in FileNames
          BY <2>2 DEF IsTree, Files
        <4> QED  BY <4>1, NamesApart DEF Stands, Free
      <3> QED  BY <1>6, <3>1, <3>2, <3>3
    <2> QED  BY <1>1, <2>1, <2>2
  <1>9. ASSUME NEW g \in T2, g.dir
        PROVE  /\ \E i \in Slots(g.clus) : es2[g.clus][i] = Itself(g)
               /\ \E i \in Slots(g.clus) : es2[g.clus][i] = Upwards(g)
    <2>1. CASE g = f
      BY <1>9, <2>1 DEF Extends
    <2>2. CASE g \in T
      <3>1. g.clus \in DirsIn(T)
        BY <1>9, <2>2 DEF DirsIn
      <3>2. PICK i, j \in Slots(g.clus) : es[g.clus][i] = Itself(g) /\ es[g.clus][j] = Upwards(g)
        BY <1>9, <2>2 DEF Holds
      <3>3. Itself(g) # Free /\ Upwards(g) # Free
        BY NamesApart DEF Itself, Upwards, Free
      <3> QED  BY <1>6, <3>1, <3>2, <3>3
    <2> QED  BY <1>1, <2>1, <2>2
  <1> QED  BY <1>1, <1>7, <1>8, <1>9 DEF Holds

LEMMA CreateKeeps ==
  ASSUME TreeInv, NEW d \in Dirs, NEW n \in FileNames, NEW dir \in BOOLEAN, FAT_create(d, n, dir)
  PROVE  TreeInv'
  <1>1. CASE UNCHANGED <<entries, used, tree, orphans>>
    BY <1>1 DEF TreeInv
  <1>2. CASE ~(TreeClusters \subseteq used) /\ Room(entries, d) # {}
    <2>1. PICK c : c = FirstOf(TreeClusters \ used)
      OBVIOUS
    <2>2. c \in TreeClusters /\ c \notin used /\ c # Root /\ c \in Places /\ c \in Nat
      <3>1. TreeClusters \ used \in SUBSET Nat /\ TreeClusters \ used # {}
        BY <1>2, TreeNumbers
      <3>2. c \in TreeClusters \ used
        BY <2>1, <3>1, FirstIs
      <3> QED  BY <3>2, TreeNumbers DEF Places
    <2>3. PICK f : f = [name |-> n, parent |-> d, clus |-> c, dir |-> dir]
      OBVIOUS
    <2>4. PICK e, added, es2 :
            /\ e = [name |-> FAT_conv_fname(n), clus |-> c]
            /\ added = FAT_write_entry(entries, d, e)
            /\ es2 = IF dir THEN FAT_init_dir(added, c, d) ELSE added
      OBVIOUS
    <2>5. /\ entries' = es2 /\ used' = used \cup {c} /\ tree' = tree \cup {f}
          /\ orphans' = orphans
      BY <1>2, <2>1, <2>3, <2>4 DEF FAT_create
    <2>6. Shaped(entries) /\ IsTree(tree) /\ Holds(tree, entries) /\ used = Clusters(tree) \cup orphans
          /\ d \in DirsIn(tree) /\ Clusters(tree) \cap orphans = {} /\ used \subseteq TreeClusters
      BY DEF TreeInv, Dirs, DirsIn
    <2>7. d \in Places /\ d # c
      <3>1. DirsIn(tree) \subseteq {Root} \cup Clusters(tree) /\ Clusters(tree) \subseteq TreeClusters
        BY <2>6 DEF DirsIn, Clusters, IsTree, Files
      <3> QED  BY <2>2, <2>6, <3>1 DEF Places
    <2>8. f \in Files /\ f.parent = d /\ f.clus = c /\ f.name = n /\ f.dir = dir /\ Stands(f) = e /\ e \in Entries
      BY <2>2, <2>3, <2>4, <2>7 DEF Files, Stands, Entries, Names
    <2>10. /\ IsTree(tree \cup {f}) /\ Clusters(tree \cup {f}) = Clusters(tree) \cup {c}
           /\ DirsIn(tree \cup {f}) = DirsIn(tree) \cup (IF f.dir THEN {f.clus} ELSE {})
      BY <2>2, <2>6, <2>8, OneMore
    <2>11. PICK i \in Room(entries, d) :
             /\ Shaped(added) /\ added[d][i] = e
             /\ \A j \in Slots(d) : j # i => added[d][j] = entries[d][j]
             /\ \A x \in Places : x # d => added[x] = entries[x]
      BY <1>2, <2>4, <2>6, <2>7, <2>8, Written
    <2>12. /\ Shaped(es2) /\ \A x \in Places : x # c => es2[x] = added[x]
           /\ dir => /\ es2[c][0] = Itself(f) /\ es2[c][1] = Upwards(f)
                     /\ \A j \in Slots(c) : j # 0 /\ j # 1 => es2[c][j] = Free
      <3>1. CASE ~dir
        BY <2>4, <2>11, <3>1
      <3>2. CASE dir
        <4>1. PICK dot, up : dot = [name |-> Dot, clus |-> c] /\ up = [name |-> Dots, clus |-> d]
          OBVIOUS
        <4>2. dot = Itself(f) /\ up = Upwards(f)
          BY <2>8, <4>1 DEF Itself, Upwards
        <4>3. es2 = FAT_init_dir(added, c, d)
          BY <2>4, <3>2
        <4>4. /\ Shaped(es2) /\ es2[c][0] = dot /\ es2[c][1] = up
              /\ \A j \in Slots(c) : j # 0 /\ j # 1 => es2[c][j] = Free
              /\ \A x \in Places : x # c => es2[x] = added[x]
          BY <2>2, <2>7, <2>11, <4>1, <4>3, Initialised
        <4> QED  BY <4>2, <4>4
      <3> QED  BY <3>1, <3>2
    <2>13. Extends(tree, entries, f, es2)
      <3>1. es2[d] = added[d] /\ i \in Slots(d) /\ entries[d][i] = Free
        BY <2>7, <2>11, <2>12 DEF Room
      <3>2. \E j \in Slots(f.parent) :
              /\ entries[f.parent][j] = Free /\ es2[f.parent][j] = Stands(f)
              /\ \A k \in Slots(f.parent) : k # j => es2[f.parent][k] = entries[f.parent][k]
        BY <2>8, <2>11, <3>1
      <3>3. ASSUME NEW x \in DirsIn(tree), x # f.parent  PROVE es2[x] = entries[x]
        <4>1. x \in Places /\ x # c /\ x # d
          <5>1. x \in {Root} \cup Clusters(tree) /\ Clusters(tree) \subseteq TreeClusters
            BY <2>6 DEF DirsIn, Clusters, IsTree, Files
          <5> QED  BY <2>2, <2>6, <2>8, <3>3, <5>1 DEF Places
        <4> QED  BY <2>11, <2>12, <4>1
      <3>4. ASSUME f.dir
            PROVE  /\ \E j \in Slots(f.clus) : es2[f.clus][j] = Itself(f)
                   /\ \E j \in Slots(f.clus) : es2[f.clus][j] = Upwards(f)
                   /\ \A j \in Slots(f.clus) : es2[f.clus][j] \in {Free, Itself(f), Upwards(f)}
        <4>1. 0 \in Slots(c) /\ 1 \in Slots(c)
          BY <2>2, SlotsAre
        <4> QED  BY <2>8, <2>12, <3>4, <4>1
      <3> QED  BY <3>2, <3>3, <3>4 DEF Extends
    <2>14. Holds(tree \cup {f}, es2)
      BY <2>2, <2>6, <2>8, <2>10, <2>13, HoldsMore
    <2>15. /\ used' \subseteq TreeClusters /\ used' = Clusters(tree') \cup orphans'
           /\ Clusters(tree') \cap orphans' = {}
      BY <2>2, <2>5, <2>6, <2>10
    <2> QED  BY <2>5, <2>10, <2>12, <2>14, <2>15 DEF TreeInv
  <1> QED  BY <1>1, <1>2 DEF FAT_create

-----------------------------------------------------------------------------
(* What is below a directory                                               *)

Children(T, X) == {f.clus : f \in {g \in T : g.parent \in X}}

\* Level by level.
Levels(T, c) == CHOOSE b : b = [n \in Nat |-> IF n = 0 THEN {c} ELSE b[n - 1] \cup Children(T, b[n - 1])]

LEMMA LevelsAre ==
  ASSUME NEW T, NEW c \in Clusters(T)
  PROVE  /\ Levels(T, c)[0] = {c}
         /\ \A n \in Nat : /\ Levels(T, c)[n] \in SUBSET Clusters(T)
                           /\ Levels(T, c)[n + 1] = Levels(T, c)[n] \cup Children(T, Levels(T, c)[n])
  <1> DEFINE S == SUBSET Clusters(T)
             Step(X) == X \cup Children(T, X)
             G == [X \in S |-> Step(X)]
             Body(b) == [n \in Nat |-> IF n = 0 THEN {c} ELSE b[n - 1] \cup Children(T, b[n - 1])]
             N == CHOOSE b : b = Body(b)
  <1>1. \A X \in S : Step(X) \in S
    BY DEF Children, Clusters
  <1>2. {c} \in S
    OBVIOUS
  <1> HIDE DEF S, Step
  <1>3. Maps(G, S)
    BY <1>1 DEF Maps
  <1>4. PICK h : h \in [Nat -> S] /\ h[0] = {c} /\ \A n \in Nat : h[n + 1] = Step(h[n])
    <2>1. PICK h : Solves(h, S, {c}, G)
      BY <1>2, <1>3, Recursion
    <2>2. h \in [Nat -> S] /\ h[0] = {c} /\ \A n \in Nat : h[n + 1] = G[h[n]]
      BY <2>1 DEF Solves
    <2>3. \A n \in Nat : h[n] \in S
      BY <2>2
    <2> QED  BY <2>2, <2>3
  <1>5. h = Body(h)
    <2>1. ASSUME NEW n \in Nat
          PROVE  h[n] = IF n = 0 THEN {c} ELSE h[n - 1] \cup Children(T, h[n - 1])
      <3>1. CASE n = 0
        BY <1>4, <3>1
      <3>2. CASE n # 0
        <4>1. n - 1 \in Nat /\ (n - 1) + 1 = n
          BY <3>2
        <4>2. h[n] = Step(h[n - 1])
          BY <1>4, <4>1
        <4> QED  BY <3>2, <4>2 DEF Step
      <3> QED  BY <3>1, <3>2
    <2> QED  BY <1>4, <2>1
  <1>6. N = Body(N)
    BY <1>5
  <1>7. Levels(T, c) = N
    BY DEF Levels
  <1> HIDE DEF N
  <1>8. N[0] = {c} /\ \A n \in Nat : N[n + 1] = N[n] \cup Children(T, N[n])
    <2>1. N[0] = {c}
      BY <1>6
    <2>2. ASSUME NEW n \in Nat  PROVE N[n + 1] = N[n] \cup Children(T, N[n])
      <3>1. n + 1 \in Nat /\ n + 1 # 0 /\ (n + 1) - 1 = n
        OBVIOUS
      <3>2. PICK m : m = n + 1
        OBVIOUS
      <3>3. N[m] = N[m - 1] \cup Children(T, N[m - 1])
        BY <1>6, <3>1, <3>2
      <3> QED  BY <3>1, <3>2, <3>3
    <2> QED  BY <2>1, <2>2
  <1>9. \A n \in Nat : N[n] \in S
    <2> DEFINE A == {n \in Nat : N[n] \in S}
    <2>1. 0 \in A
      BY <1>2, <1>8
    <2>2. \A n \in Nat : n \in A => n + 1 \in A
      BY <1>1, <1>8 DEF Step
    <2> HIDE DEF A
    <2>3. \A n \in Nat : n \in A
      BY <2>1, <2>2, Induct
    <2> QED  BY <2>3 DEF A
  <1> QED  BY <1>7, <1>8, <1>9 DEF S

LEMMA FewClusters ==
  ASSUME NEW T, IsFiniteSet(T)
  PROVE  IsFiniteSet(Clusters(T)) /\ Cardinality(Clusters(T)) <= Cardinality(T)
  <1>1. PICK h : h = [f \in T |-> f.clus]
    OBVIOUS
  <1>2. h \in Surjection(T, Clusters(T))
    BY <1>1 DEF Surjection, Clusters
  <1> QED  BY <1>2, FS_Surjection

\* A set of clusters that nothing leads out of.
Closed(T, X) == Children(T, X) \subseteq X

\* While a level is not closed, each adds one cluster at least.
LEMMA LevelGrows ==
  ASSUME NEW T, IsFiniteSet(T), NEW c \in Clusters(T)
  PROVE  Closed(T, Levels(T, c)[Cardinality(T)])
  <1>1. PICK N : N = Levels(T, c)
    OBVIOUS
  <1>2. N[0] = {c} /\ \A n \in Nat : N[n] \in SUBSET Clusters(T) /\ N[n + 1] = N[n] \cup Children(T, N[n])
    BY <1>1, LevelsAre
  <1>3. \A n \in Nat : IsFiniteSet(N[n]) /\ Cardinality(N[n]) \in Nat /\ Cardinality(N[n]) <= Cardinality(T)
    <2>1. IsFiniteSet(Clusters(T)) /\ Cardinality(Clusters(T)) <= Cardinality(T)
      BY FewClusters
    <2>2. ASSUME NEW n \in Nat
          PROVE  IsFiniteSet(N[n]) /\ Cardinality(N[n]) \in Nat /\ Cardinality(N[n]) <= Cardinality(T)
      <3>1. IsFiniteSet(N[n]) /\ Cardinality(N[n]) <= Cardinality(Clusters(T))
        BY <1>2, <2>1, FS_Subset
      <3>2. Cardinality(N[n]) \in Nat /\ Cardinality(Clusters(T)) \in Nat /\ Cardinality(T) \in Nat
        BY <2>1, <3>1, FS_CardinalityType
      <3> QED  BY <2>1, <3>1, <3>2
    <2> QED  BY <2>2
  <1> DEFINE A == {n \in Nat : Closed(T, N[n]) \/ Cardinality(N[n]) >= n + 1}
  <1>4. 0 \in A
    <2>1. Cardinality({c}) = 1
      BY FS_Singleton
    <2>2. Cardinality(N[0]) >= 0 + 1
      BY <1>2, <2>1
    <2> QED  BY <2>2
  <1>5. ASSUME NEW n \in Nat, n \in A  PROVE n + 1 \in A
    <2>1. CASE Closed(T, N[n])
      <3>1. N[n + 1] = N[n]
        BY <1>2, <2>1 DEF Closed
      <3> QED  BY <2>1, <3>1
    <2>2. CASE ~Closed(T, N[n])
      <3>1. N[n] \in SUBSET N[n + 1] /\ N[n] # N[n + 1]
        BY <1>2, <2>2 DEF Closed
      <3>2. Cardinality(N[n]) <= Cardinality(N[n + 1]) /\ Cardinality(N[n + 1]) # Cardinality(N[n])
        BY <1>3, <3>1, FS_Subset
      <3>3. Cardinality(N[n]) >= n + 1
        BY <1>5, <2>2
      <3>4. Cardinality(N[n]) \in Nat /\ Cardinality(N[n + 1]) \in Nat
        BY <1>3
      <3>5. Cardinality(N[n + 1]) >= n + 1 + 1
        BY <3>2, <3>3, <3>4
      <3> QED  BY <3>5
    <2> QED  BY <2>1, <2>2
  <1> HIDE DEF A
  <1>6. \A n \in Nat : n \in A
    BY <1>4, <1>5, Induct
  <1>7. Cardinality(T) \in Nat
    BY FS_CardinalityType
  <1>8. Cardinality(T) \in A
    BY <1>6, <1>7
  <1>9. ~(Cardinality(N[Cardinality(T)]) >= Cardinality(T) + 1)
    <2>1. PICK k, m \in Nat : k = Cardinality(T) /\ m = Cardinality(N[k]) /\ m <= k
      BY <1>3, <1>7
    <2>2. ~(m >= k + 1)
      BY <2>1
    <2> QED  BY <2>1, <2>2
  <1> QED  BY <1>1, <1>8, <1>9 DEF A

\* Below a cluster there is what is in a directory below it, and no more.
LEMMA BelowIs ==
  ASSUME IsTree(tree), NEW c \in Clusters(tree)
  PROVE  /\ c \in Below(c) /\ Below(c) \subseteq Clusters(tree)
         /\ \A f \in tree : f.parent \in Below(c) => f.clus \in Below(c)
         /\ \A f \in tree : f.clus \in Below(c) => f.clus = c \/ f.parent \in Below(c)
  <1>1. PICK N, k : N = Levels(tree, c) /\ k = Cardinality(tree)
    OBVIOUS
  <1>2. N[0] = {c} /\ \A n \in Nat : N[n] \in SUBSET Clusters(tree) /\ N[n + 1] = N[n] \cup Children(tree, N[n])
    BY <1>1, LevelsAre
  <1>3. IsFiniteSet(tree) /\ k \in Nat
    BY <1>1, FS_CardinalityType DEF IsTree
  <1>4. Below(c) = N[k]
    BY <1>1 DEF Below, Levels, Children
  <1>5. Closed(tree, N[k])
    BY <1>1, <1>3, LevelGrows
  <1> DEFINE A == {n \in Nat : /\ c \in N[n]
                               /\ \A f \in tree : f.clus \in N[n] => f.clus = c \/ f.parent \in N[n]}
  <1>6. 0 \in A
    BY <1>2
  <1>7. ASSUME NEW n \in Nat, n \in A  PROVE n + 1 \in A
    <2>1. ASSUME NEW f \in tree, f.clus \in N[n + 1]  PROVE f.clus = c \/ f.parent \in N[n + 1]
      <3>1. CASE f.clus \in N[n]
        BY <1>2, <1>7, <3>1
      <3>2. CASE f.clus \in Children(tree, N[n])
        <4>1. PICK g \in tree : g.clus = f.clus /\ g.parent \in N[n]
          BY <3>2 DEF Children
        <4>2. g = f
          BY <4>1 DEF IsTree
        <4> QED  BY <1>2, <4>1, <4>2
      <3> QED  BY <1>2, <2>1, <3>1, <3>2
    <2>2. c \in N[n + 1]
      BY <1>2, <1>7
    <2> QED  BY <2>1, <2>2
  <1> HIDE DEF A
  <1>8. k \in A
    BY <1>3, <1>6, <1>7, Induct
  <1> QED  BY <1>2, <1>3, <1>4, <1>5, <1>8 DEF A, Closed, Children

-----------------------------------------------------------------------------
(* Removal                                                                 *)

Without(T, gone) == {g \in T : g.clus \notin gone}

\* What goes with some files: they, and what is below them.
GoesWith(T, F, gone) ==
  /\ F \subseteq T /\ Clusters(F) \subseteq gone /\ gone \subseteq Clusters(T)
  /\ \A g \in T : g.parent \in gone => g.clus \in gone
  /\ \A g \in T : g.clus \in gone => g \in F \/ g.parent \in gone

Alike(T, d, n) == {g \in T : g.parent = d /\ g.name = n}

\* The entries of name n in d go, all others stay.
Clears(T, es, d, n, es2) ==
  /\ \A i \in Slots(d) :
       es2[d][i] = IF es[d][i].name = FAT_conv_fname(n) THEN Free ELSE es[d][i]
  /\ \A x \in DirsIn(T) : x # d => es2[x] = es[x]

LEMMA SomeLess ==
  ASSUME NEW T, IsTree(T), NEW F, NEW gone, GoesWith(T, F, gone)
  PROVE  /\ IsTree(Without(T, gone))
         /\ Clusters(Without(T, gone)) = Clusters(T) \ gone
         /\ \A d \in DirsIn(Without(T, gone)) : d \in DirsIn(T) /\ d \notin gone
  <1>1. PICK T2 : T2 = Without(T, gone)
    OBVIOUS
  <1>2. T2 \subseteq T /\ \A g \in T : g \in T2 <=> g.clus \notin gone
    BY <1>1 DEF Without
  <1>3. Root \notin gone
    BY TreeNumbers DEF GoesWith, Clusters, IsTree, Files
  <1>4. ASSUME NEW g \in T2  PROVE g.parent \in DirsIn(T2)
    <2>1. g \in T /\ g.parent \in DirsIn(T) /\ g.parent \notin gone
      BY <1>2 DEF IsTree, GoesWith
    <2>2. CASE g.parent = Root
      BY <2>2 DEF DirsIn
    <2>3. CASE \E h \in T : h.dir /\ h.clus = g.parent
      <3>1. PICK h \in T : h.dir /\ h.clus = g.parent
        BY <2>3
      <3>2. h \in T2
        BY <1>2, <2>1, <3>1
      <3> QED  BY <3>1, <3>2 DEF DirsIn
    <2> QED  BY <2>1, <2>2, <2>3 DEF DirsIn
  <1>5. T2 \in SUBSET Files /\ IsFiniteSet(T2)
    BY <1>2, FS_Subset DEF IsTree
  <1>6. \A g, h \in T2 : g.clus = h.clus => g = h
    BY <1>2 DEF IsTree
  <1>7. Clusters(T2) = Clusters(T) \ gone
    BY <1>2 DEF Clusters
  <1>8. ASSUME NEW d \in DirsIn(T2)  PROVE d \in DirsIn(T) /\ d \notin gone
    <2>1. CASE d = Root
      BY <1>3, <2>1 DEF DirsIn
    <2>2. CASE \E h \in T2 : h.dir /\ h.clus = d
      BY <1>2, <2>2 DEF DirsIn
    <2> QED  BY <2>1, <2>2 DEF DirsIn
  <1> QED  BY <1>1, <1>4, <1>5, <1>6, <1>7, <1>8 DEF IsTree

LEMMA HoldsLess ==
  ASSUME NEW T, IsTree(T), NEW at \in DirsIn(T), NEW n \in FileNames,
         NEW gone, GoesWith(T, Alike(T, at, n), gone),
         NEW es, Holds(T, es), NEW es2, Clears(T, es, at, n, es2),
         \A d \in DirsIn(Without(T, gone)) : d \in DirsIn(T) /\ d \notin gone
  PROVE  Holds(Without(T, gone), es2)
  <1>1. PICK T2 : T2 = Without(T, gone)
    OBVIOUS
  <1>2. T2 \subseteq T /\ \A g \in T : g \in T2 <=> g.clus \notin gone
    BY <1>1 DEF Without
  <1>3. \A d \in DirsIn(T2) : d \in DirsIn(T) /\ d \notin gone
    BY <1>1
  <1>4. \A g \in T : g.parent = at /\ g.name = n => g.clus \in gone
    BY DEF GoesWith, Alike, Clusters
  <1>5. ASSUME NEW d \in DirsIn(T), NEW i \in Slots(d)
        PROVE  \/ es2[d][i] = es[d][i]
               \/ d = at /\ es[d][i].name = FAT_conv_fname(n) /\ es2[d][i] = Free
    BY DEF Clears
  <1>6. ASSUME NEW d \in DirsIn(T2), NEW i \in Slots(d)  PROVE Belongs(T2, d, es2[d][i])
    <2>1. d \in DirsIn(T) /\ d \notin gone /\ Belongs(T, d, es[d][i])
      BY <1>3 DEF Holds
    <2>2. CASE es2[d][i] = Free
      BY <2>2 DEF Belongs
    <2>3. CASE es2[d][i] = es[d][i] /\ es[d][i] # Free /\ es2[d][i] # Free
      <3>1. CASE \E g \in T : g.parent = d /\ es[d][i] = Stands(g)
        <4>1. PICK g \in T : g.parent = d /\ es[d][i] = Stands(g)
          BY <3>1
        <4>2. g \notin Alike(T, at, n)
          <5>1. ASSUME g.parent = at, g.name = n  PROVE es2[d][i] = Free
            <6>1. es[d][i].name = FAT_conv_fname(n)
              BY <4>1, <5>1 DEF Stands
            <6> QED  BY <4>1, <5>1, <6>1 DEF Clears
          <5> QED  BY <2>3, <5>1 DEF Alike
        <4>3. g.clus \notin gone
          BY <2>1, <4>1, <4>2 DEF GoesWith
        <4>4. g \in T2
          BY <1>2, <4>3
        <4> QED  BY <2>3, <4>1, <4>4 DEF Belongs
      <3>2. CASE \E g \in T : g.dir /\ g.clus = d /\ (es[d][i] = Itself(g) \/ es[d][i] = Upwards(g))
        <4>1. PICK g \in T : g.dir /\ g.clus = d /\ (es[d][i] = Itself(g) \/ es[d][i] = Upwards(g))
          BY <3>2
        <4>2. g \in T2
          BY <1>2, <2>1, <4>1
        <4> QED  BY <2>3, <4>1, <4>2 DEF Belongs
      <3> QED  BY <2>1, <2>3, <3>1, <3>2 DEF Belongs
    <2> QED  BY <1>5, <2>1, <2>2, <2>3
  <1>7. ASSUME NEW g \in T2  PROVE \E i \in Slots(g.parent) : es2[g.parent][i] = Stands(g)
    <2>1. g \in T /\ g.clus \notin gone /\ g.parent \in DirsIn(T) /\ g.name \in FileNames
      BY <1>2 DEF IsTree, Files
    <2>2. PICK i \in Slots(g.parent) : es[g.parent][i] = Stands(g)
      BY <2>1 DEF Holds
    <2>3. ASSUME g.parent = at, es[g.parent][i].name = FAT_conv_fname(n)  PROVE FALSE
      <3>1. FAT_conv_fname(g.name) = FAT_conv_fname(n)
        BY <2>2, <2>3 DEF Stands
      <3>2. g.name = n
        BY <2>1, <3>1, NamesApart
      <3> QED  BY <1>4, <2>1, <2>3, <3>2
    <2> QED  BY <1>5, <2>1, <2>2, <2>3
  <1>8. ASSUME NEW g \in T2, g.dir
        PROVE  /\ \E i \in Slots(g.clus) : es2[g.clus][i] = Itself(g)
               /\ \E i \in Slots(g.clus) : es2[g.clus][i] = Upwards(g)
    <2>1. g \in T /\ g.clus \in DirsIn(T)
      BY <1>2, <1>8 DEF DirsIn
    <2>2. PICK i, j \in Slots(g.clus) : es[g.clus][i] = Itself(g) /\ es[g.clus][j] = Upwards(g)
      BY <1>8, <2>1 DEF Holds
    <2>3. es[g.clus][i].name # FAT_conv_fname(n) /\ es[g.clus][j].name # FAT_conv_fname(n)
      BY <2>2, NamesApart DEF Itself, Upwards
    <2> QED  BY <1>5, <2>1, <2>2, <2>3
  <1> QED  BY <1>1, <1>6, <1>7, <1>8 DEF Holds

LEMMA RemoveKeeps ==
  ASSUME TreeInv, NEW d \in Dirs, NEW n \in FileNames, FAT_remove(d, n)  PROVE TreeInv'
  <1>1. Shaped(entries) /\ IsTree(tree) /\ Holds(tree, entries) /\ used = Clusters(tree) \cup orphans
        /\ d \in DirsIn(tree) /\ Clusters(tree) \cap orphans = {} /\ used \subseteq TreeClusters
    BY DEF TreeInv, Dirs, DirsIn
  <1>2. CASE Strangers(d, n) # {}
    BY <1>1, <1>2 DEF FAT_remove, TreeInv
  <1>3. CASE Strangers(d, n) = {}
    <2>1. PICK hits, gone, C :
            /\ hits = Named(d, n) /\ gone = UNION {Below(entries[d][i].clus) : i \in hits}
            /\ C = {entries[d][i].clus : i \in hits}
      OBVIOUS
    <2>2. hits = {i \in Slots(d) : entries[d][i].name = FAT_conv_fname(n)}
      BY <2>1 DEF Named
    <2>3. C = Clusters(Alike(tree, d, n)) /\ C \subseteq Clusters(tree)
      <3>1. C = Created(tree, d, n)
        BY <1>1, <2>1, LooksUp
      <3> QED  BY <3>1 DEF Created, Clusters, Alike
    <2>4. gone = UNION {Below(c) : c \in C}
      BY <2>1
    <2>5. GoesWith(tree, Alike(tree, d, n), gone)
      <3>1. ASSUME NEW c \in C
            PROVE  /\ c \in Below(c) /\ Below(c) \subseteq Clusters(tree)
                   /\ \A f \in tree : f.parent \in Below(c) => f.clus \in Below(c)
                   /\ \A f \in tree : f.clus \in Below(c) => f.clus = c \/ f.parent \in Below(c)
        BY <1>1, <2>3, BelowIs
      <3>2. C \subseteq gone /\ gone \subseteq Clusters(tree)
        BY <2>4, <3>1
      <3>3. \A f \in tree : f.parent \in gone => f.clus \in gone
        BY <2>4, <3>1
      <3>4. ASSUME NEW f \in tree, f.clus \in gone  PROVE f \in Alike(tree, d, n) \/ f.parent \in gone
        <4>1. PICK c \in C : f.clus \in Below(c)
          BY <2>4, <3>4
        <4>2. f.clus = c \/ f.parent \in gone
          BY <2>4, <3>1, <4>1
        <4>3. ASSUME f.clus = c  PROVE f \in Alike(tree, d, n)
          <5>1. PICK g \in Alike(tree, d, n) : g.clus = c
            BY <2>3 DEF Clusters
          <5>2. g = f
            BY <1>1, <4>3, <5>1 DEF IsTree, Alike
          <5> QED  BY <5>1, <5>2
        <4> QED  BY <4>2, <4>3
      <3>5. Alike(tree, d, n) \subseteq tree
        BY DEF Alike
      <3> QED  BY <2>3, <3>2, <3>3, <3>4, <3>5 DEF GoesWith
    <2>6. PICK g : g = [i \in Slots(d) |-> IF i \in hits THEN Free ELSE entries[d][i]]
      OBVIOUS
    <2>7. d \in Places
      BY <1>1 DEF DirsIn, IsTree, Files, Places
    <2>8. Puts(entries, d, g, entries')
      <3>1. entries' = [entries EXCEPT ![d] = [i \in Slots(d) |-> IF i \in hits THEN Free ELSE @[i]]]
        BY <1>3, <2>1 DEF FAT_remove
      <3>2. [i \in Slots(d) |-> IF i \in hits THEN Free ELSE entries[d][i]] = g
        BY <2>6
      <3> QED  BY <3>1, <3>2 DEF Puts
    <2>9. used' = used \ C /\ tree' = Without(tree, gone) /\ orphans' = orphans \cup (gone \ C)
      BY <1>3, <2>1 DEF FAT_remove, Without
    <2>10. g \in [Slots(d) -> Entries]
      <3>1. entries[d] \in [Slots(d) -> Entries]
        BY <1>1, <2>7 DEF Shaped
      <3> QED  BY <2>6, <3>1, FreeIs
    <2>11. /\ Shaped(entries') /\ entries'[d] = g
           /\ \A c \in Places : c # d => entries'[c] = entries[c]
      BY <1>1, <2>7, <2>8, <2>10, Replaced
    <2>12. Clears(tree, entries, d, n, entries')
      <3>1. ASSUME NEW i \in Slots(d)
            PROVE  entries'[d][i] = IF entries[d][i].name = FAT_conv_fname(n) THEN Free ELSE entries[d][i]
        BY <2>2, <2>6, <2>11
      <3>2. ASSUME NEW x \in DirsIn(tree), x # d  PROVE entries'[x] = entries[x]
        <4>1. x \in Places
          BY <1>1 DEF DirsIn, IsTree, Files, Places
        <4> QED  BY <2>11, <3>2, <4>1
      <3> QED  BY <3>1, <3>2 DEF Clears
    <2>13. /\ IsTree(Without(tree, gone)) /\ Clusters(Without(tree, gone)) = Clusters(tree) \ gone
           /\ \A x \in DirsIn(Without(tree, gone)) : x \in DirsIn(tree) /\ x \notin gone
      BY <1>1, <2>5, SomeLess
    <2>14. Holds(Without(tree, gone), entries')
      BY <1>1, <2>5, <2>12, <2>13, HoldsLess
    <2>15. used' \subseteq TreeClusters /\ used' = Clusters(tree') \cup orphans'
           /\ Clusters(tree') \cap orphans' = {}
      <3>1. C \subseteq gone /\ gone \subseteq Clusters(tree)
        BY <2>3, <2>5 DEF GoesWith
      <3> QED  BY <1>1, <2>9, <2>13, <3>1
    <2> QED  BY <2>9, <2>11, <2>13, <2>14, <2>15 DEF TreeInv
  <1> QED  BY <1>2, <1>3

-----------------------------------------------------------------------------
(* Directories                                                             *)

\* FAT_create, FAT_init_dir, FAT_write_entry, FAT_file_entry and FAT_remove
\* (fat.c): whatever a cluster held before, a directory has the entries of the
\* files created in it and not removed, however often a name was created, and
\* leads to itself and to the directory it is in; FAT_lookup finds a file of
\* the name, and nothing if there is none, but for a scan of the root directory
\* that meets the name behind its last entry; no two files share a cluster,
\* and the table marks as used what they have and what the removal of
\* directories left behind.
THEOREM DirectoriesAreKept == TreeSpec => []TreeKept
  <1>1. TreeInit => TreeInv
    BY TreeStarts
  <1>2. TreeInv /\ [TreeNext]_treeVars => TreeInv'
    <2> SUFFICES ASSUME TreeInv, [TreeNext]_treeVars  PROVE TreeInv'
      OBVIOUS
    <2>1. CASE UNCHANGED treeVars
      BY <2>1 DEF treeVars, TreeInv
    <2>2. ASSUME NEW d \in Dirs, NEW n \in FileNames, NEW dir \in BOOLEAN, FAT_create(d, n, dir)
          PROVE  TreeInv'
      BY <2>2, CreateKeeps
    <2>3. ASSUME NEW d \in Dirs, NEW n \in FileNames, FAT_remove(d, n)  PROVE TreeInv'
      BY <2>3, RemoveKeeps
    <2>4. ASSUME NEW f \in tree, NEW n \in FileNames, Fill(f, n)  PROVE TreeInv'
      BY <2>4, FillKeeps
    <2> QED  BY <2>1, <2>2, <2>3, <2>4 DEF TreeNext
  <1>3. TreeInv => TreeKept
    BY KeepsTree
  <1> QED  BY <1>1, <1>2, <1>3, PTL DEF TreeSpec
=============================================================================
