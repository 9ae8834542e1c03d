------------------------------ MODULE FATTree ------------------------------
(***************************************************************************)
(* Directories of a FAT volume (fat.c: FAT_create, FAT_init_dir,           *)
(* FAT_write_entry, FAT_file_entry, FAT_lookup, FAT_remove): entries in    *)
(* the clusters of directories, clusters that a directory, a file and a    *)
(* directory again use one after the other.  Files have one cluster here;  *)
(* module FAT has their chains.  A directory that outgrows its cluster     *)
(* ends the model: FAT_write_entry then writes behind the cluster instead  *)
(* of following the chain.                                                 *)
(*                                                                         *)
(* FAT_absolute_offset bounds a scan of the root directory by              *)
(* bytes_per_sector entries and one more, not by num_root_entries: where   *)
(* the root directory is shorter, the scan goes on through the first       *)
(* clusters.  What FAT_remove does to an entry it meets there also ends    *)
(* the model.                                                              *)
(***************************************************************************)
EXTENDS Integers, Sequences, FiniteSets

CONSTANTS
  FileNames,               \* names as clients write them, sequences of characters
  BaseLen, NameLen,        \* 8 and 11
  TreeClusters,            \* the clusters of the volume
  PerCluster, RootEntries, \* entries in a cluster and in the root directory
  RootReach                \* bytes_per_sector + 1

Root == 0

\* FAT_conv_fname: the base and the extension padded with blanks, without the
\* dot; `.' and `..' stay.  An extension behind a base of full length loses
\* what would be its last character.
FAT_conv_fname(name) ==
  LET l    == Len(name)
      base == CHOOSE k \in 0 .. BaseLen :
                /\ k = BaseLen \/ k = l \/ (k < l /\ name[k + 1] = ".")
                /\ \A i \in 1 .. k : i <= l /\ name[i] # "."
      last == IF l < NameLen THEN l ELSE NameLen
  IN  IF l < 3 /\ name[1] = "."
      THEN [i \in 1 .. NameLen |-> IF i <= l THEN name[i] ELSE " "]
      ELSE [i \in 1 .. NameLen |->
              IF i <= base THEN name[i]
              ELSE IF i > BaseLen /\ i - BaseLen + base + 1 <= last
                   THEN name[i - BaseLen + base + 1] ELSE " "]

ASSUME TreeAssumption ==
  /\ TreeClusters \subseteq Nat \ {0, 1} /\ IsFiniteSet(TreeClusters)
  /\ PerCluster \in Nat /\ PerCluster >= 2 /\ {RootEntries, RootReach} \subseteq Nat
  /\ BaseLen \in Nat \ {0} /\ NameLen \in Nat /\ BaseLen < NameLen
  /\ \A m, n \in FileNames : FAT_conv_fname(m) = FAT_conv_fname(n) => m = n
  /\ \A n \in FileNames : FAT_conv_fname(n) \notin {FAT_conv_fname(<<".">>), FAT_conv_fname(<<".", ".">>)}

VARIABLES
  entries,     \* what is in each cluster, and in the root directory, by entry
  used,        \* the clusters whose entry in the table is not 0
  tree,        \* ghost: the files and directories there are
  orphans,     \* ghost: clusters of what was in a directory that was removed
  treeFault    \* why the model has stopped

treeVars == <<entries, used, tree, orphans, treeFault>>

Free     == [name |-> <<>>, clus |-> 0]
Slots(d) == IF d = Root THEN 0 .. RootEntries - 1 ELSE 0 .. PerCluster - 1
Dirs     == {Root} \cup {f.clus : f \in {g \in tree : g.dir}}

FirstOf(S) == CHOOSE i \in S : \A j \in S : i <= j

Named(d, name) == {i \in Slots(d) : entries[d][i].name = FAT_conv_fname(name)}

\* The places in clusters that a scan of d takes for entries of d, and their
\* numbers for it: none unless d is the root directory and shorter than the scan.
EntryNum(p) == RootEntries + (p[1] - 2) * PerCluster + p[2]
Reached(d)  == {p \in TreeClusters \X (0 .. PerCluster - 1) : d = Root /\ EntryNum(p) < RootReach}

Strangers(d, name) == {p \in Reached(d) : entries[p[1]][p[2]].name = FAT_conv_fname(name)}

FAT_file_entry(d, name) ==
  LET hits == Named(d, name)
      past == Strangers(d, name)
  IN  IF hits # {} THEN entries[d][FirstOf(hits)]
      ELSE IF past = {} THEN Free
      ELSE LET p == CHOOSE x \in past : \A y \in past : EntryNum(x) <= EntryNum(y)
           IN  entries[p[1]][p[2]]

\* The cluster of what the name stands for, 0 if there is no such entry.
FAT_lookup(d, name) == FAT_file_entry(d, name).clus

Room(es, d) == {i \in Slots(d) : es[d][i] = Free}

FAT_write_entry(es, d, entry) == [es EXCEPT ![d][FirstOf(Room(es, d))] = entry]

\* Wrong on purpose: the cluster keeps what was in it.
init_dir_stale(es, c, parent) ==
  LET dot == [es EXCEPT ![c][0] = [name |-> FAT_conv_fname(<<".">>), clus |-> c]]
  IN  [dot EXCEPT ![c][1] = [name |-> FAT_conv_fname(<<".", ".">>), clus |-> parent]]

FAT_init_dir(es, c, parent) ==
  LET zero == [es EXCEPT ![c] = [i \in Slots(c) |-> Free]]
      dot  == FAT_write_entry(zero, c, [name |-> FAT_conv_fname(<<".">>), clus |-> c])
  IN  FAT_write_entry(dot, c, [name |-> FAT_conv_fname(<<".", ".">>), clus |-> parent])

\* Nobody looks whether the directory has the name.  Without a free cluster the
\* code uses number 0, which for a new directory erases the root directory.
FAT_create(d, name, dir) ==
  /\ treeFault = "none"
  /\ IF TreeClusters \subseteq used
     THEN treeFault' = "full" /\ UNCHANGED <<entries, used, tree, orphans>>
     ELSE IF Room(entries, d) = {}
     THEN treeFault' = "outgrown" /\ UNCHANGED <<entries, used, tree, orphans>>
     ELSE LET c     == FirstOf(TreeClusters \ used)
              entry == [name |-> FAT_conv_fname(name), clus |-> c]
              added == FAT_write_entry(entries, d, entry)
          IN  /\ entries' = IF dir THEN FAT_init_dir(added, c, d) ELSE added
              /\ used' = used \cup {c}
              /\ tree' = tree \cup {[name |-> name, parent |-> d, clus |-> c, dir |-> dir]}
              /\ UNCHANGED <<orphans, treeFault>>

\* What is below a cluster in the tree.
Below(c) ==
  LET b[n \in Nat] == IF n = 0 THEN {c}
                      ELSE b[n - 1] \cup {f.clus : f \in {g \in tree : g.parent \in b[n - 1]}}
  IN  b[Cardinality(tree)]

\* Every entry of the name goes, with its cluster; what is in a directory is
\* not looked at.  The scan takes in all entries.
FAT_remove(d, name) ==
  /\ treeFault = "none" /\ FAT_lookup(d, name) # 0
  /\ IF Strangers(d, name) # {}
     THEN treeFault' = "misread" /\ UNCHANGED <<entries, used, tree, orphans>>
     ELSE LET hits == Named(d, name)
              gone == UNION {Below(entries[d][i].clus) : i \in hits}
          IN  /\ entries' = [entries EXCEPT ![d] =
                               [i \in Slots(d) |-> IF i \in hits THEN Free ELSE @[i]]]
              /\ used' = used \ {entries[d][i].clus : i \in hits}
              /\ tree' = {f \in tree : f.clus \notin gone}
              /\ orphans' = orphans \cup (gone \ {entries[d][i].clus : i \in hits})
              /\ UNCHANGED treeFault

\* FAT_write as far as it matters here: the bytes of a file may look like
\* entries of a directory.
Fill(f, name) ==
  /\ treeFault = "none" /\ ~f.dir
  /\ entries' = [entries EXCEPT ![f.clus] =
       [i \in Slots(f.clus) |-> [name |-> FAT_conv_fname(name), clus |-> f.clus]]]
  /\ UNCHANGED <<used, tree, orphans, treeFault>>

TreeInit ==
  /\ entries = [c \in {Root} \cup TreeClusters |-> [i \in Slots(c) |-> Free]]
  /\ used = {} /\ tree = {} /\ orphans = {} /\ treeFault = "none"

TreeNext ==
  \/ \E d \in Dirs, n \in FileNames :
       (\E dir \in BOOLEAN : FAT_create(d, n, dir)) \/ FAT_remove(d, n)
  \/ \E f \in tree, n \in FileNames : Fill(f, n)

TreeSpec == TreeInit /\ [][TreeNext]_treeVars

-----------------------------------------------------------------------------
(* Properties                                                              *)

\* Whatever was in a cluster before, and however often a name was created: the
\* entries of a name in a directory are those of the files that were created
\* there by this name and not removed.  FAT_lookup finds one of them, and
\* nothing if there is none, unless it is a scan of the root directory that
\* meets the name in the first clusters.  The `..' of a directory is the
\* directory it is in.  No two files have a cluster in common, and the table
\* marks as used theirs and those that the removal of a directory left behind.
TreeKept ==
  treeFault = "none" =>
    /\ \A d \in Dirs, n \in FileNames :
         LET created == {f.clus : f \in {g \in tree : g.parent = d /\ g.name = n}} IN
         /\ {entries[d][i].clus : i \in Named(d, n)} = created
         /\ Strangers(d, n) = {} =>
              FAT_lookup(d, n) \in (IF created = {} THEN {0} ELSE created)
    /\ \A f \in tree : f.dir => /\ FAT_lookup(f.clus, <<".">>) = f.clus
                                /\ FAT_lookup(f.clus, <<".", ".">>) = f.parent
    /\ \A f, g \in tree : f.clus = g.clus => f = g
    /\ used = {f.clus : f \in tree} \cup orphans

\* What FAT_lookup finds in a directory was created there: fails for a root
\* directory shorter than the scan.
FoundWhereCreated ==
  treeFault = "none" =>
    \A d \in Dirs, n \in FileNames :
      FAT_lookup(d, n) # 0 => \E f \in tree : f.parent = d /\ f.name = n

\* FAT_remove of a name in the root directory removes entries of the root
\* directory: fails likewise.
RemovesOwn == treeFault # "misread"
=============================================================================
