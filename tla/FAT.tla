-------------------------------- MODULE FAT --------------------------------
(***************************************************************************)
(* A mounted FAT12/16 volume (kernel/src/fat.c) as the VFS uses it: the    *)
(* allocation table, the root directory, the data clusters, the vnodes     *)
(* that cache a FAT handle each (kernel/src/vfs.c) and the open files.     *)
(*                                                                         *)
(* The volume has the data clusters 2..LastCluster.  The sectors of the    *)
(* table hold TableEnd entries, of which the ones past LastCluster are     *)
(* padding; FindFreeCluster looks at the entries below ScanEnd, which the  *)
(* code computes as num_sectors * sectors_per_cluster: it hands out        *)
(* clusters that are behind the end of the disk.  Names are told apart as  *)
(* FAT_conv_fname leaves them.                                             *)
(*                                                                         *)
(* FAT_absolute_offset bounds a scan of the root directory by RootReach    *)
(* entries, the volume's own number being RootSlots: a scan that goes past *)
(* the last entry takes the bytes of the first clusters for entries.  What *)
(* it finds there depends on what files hold; a match (fault "misread")    *)
(* ends the model.                                                         *)
(***************************************************************************)
EXTENDS Integers

CONSTANTS LastCluster, TableEnd, ScanEnd,
          EOC,          \* the entry 0xFFF / 0xFFFF that ends a chain
          BytesPerClus, \* bytes_p_clus
          RootSlots,    \* num_root_entries
          RootReach,    \* bytes_per_sector + 1
          Torn,         \* the entries of a FAT12 table that lie across two sectors
          Names, Fds,
          WriteLens,    \* lengths passed to FAT_write
          MaxSize       \* bound: no file is written beyond this size

Nobody == "-"   \* the name of an unused slot

ASSUME FATAssumption ==
  /\ LastCluster \in Nat /\ TableEnd \in Nat /\ ScanEnd \in Nat /\ EOC \in Nat
  /\ 1 < LastCluster /\ LastCluster < EOC /\ LastCluster < TableEnd
  /\ ScanEnd <= TableEnd /\ ScanEnd <= EOC
  /\ BytesPerClus \in Nat \ {0} /\ RootSlots \in Nat \ {0} /\ RootReach \in Nat
  /\ WriteLens \subseteq Nat /\ MaxSize \in Nat
  /\ Nobody \notin Names

VARIABLES
  fat,     \* the allocation table, as FAT_get_entry reads it
  dir,     \* the slots of the root directory
  data,    \* ghost: the file and the position that each byte of a cluster was last
           \* written for since the cluster was free
  vnode,   \* the cluster cached in the vnode of a name, 0 if there is none
  open,    \* the open files
  orderly, \* ghost: no file was created or opened twice or removed while open
  full,    \* ghost: FindFreeCluster has answered 0
  fault    \* ghost: the first access outside the structures of the volume

vars == <<fat, dir, data, vnode, open, orderly, full, fault>>

Clusters == 2 .. ScanEnd - 1    \* what FindFreeCluster hands out
OnDisk   == 2 .. LastCluster
Table    == 0 .. TableEnd - 1
Slots    == 0 .. RootSlots - 1
Offsets  == 0 .. BytesPerClus - 1

Empty  == [name |-> Nobody, clus |-> 0, size |-> 0]
Byte(name, position) == [by |-> name, at |-> position]
Unwritten == [o \in Offsets |-> Byte(Nobody, 0)]
Closed == [name |-> Nobody, clus |-> 0, size |-> 0]

-----------------------------------------------------------------------------
(* Cluster chains                                                          *)

\* The k-th link of the chain that starts at c; EOC once the chain has ended.
Link(f, c, k) ==
  LET n[i \in Nat] == IF i = 0 THEN c
                      ELSE IF n[i - 1] = EOC THEN EOC ELSE f[n[i - 1]]
  IN  n[k]

Chain(f, c) == {Link(f, c, k) : k \in Table} \ {EOC}

\* Wrong on purpose: the last cluster of any chain counts as used, no other does.
FindNotEnd(f) ==
  IF \E i \in 2 .. ScanEnd - 1 : f[i] # EOC
  THEN CHOOSE i \in 2 .. ScanEnd - 1 :
         f[i] # EOC /\ \A j \in 2 .. i - 1 : f[j] = EOC
  ELSE 0

FindFreeCluster(f) ==
  IF \E i \in 2 .. ScanEnd - 1 : f[i] = 0
  THEN CHOOSE i \in 2 .. ScanEnd - 1 :
         f[i] = 0 /\ \A j \in 2 .. i - 1 : f[j] # 0
  ELSE 0

\* SAL_write loses the second byte of an entry that lies across two sectors:
\* it reads back as something else, unless it is 0.
Setting(n) == IF n \in Torn THEN "torn" ELSE "none"

FAT_set_entries(f, c, v) == [f EXCEPT ![c] = v]

ChainEnd(f, c) == CHOOSE t \in Chain(f, c) : f[t] = EOC

\* Wrong on purpose: the new cluster is not linked to the chain.
AllocateUnlinked(s, c) ==
  LET n == FindFreeCluster(s.fat)
  IN  IF s.fault # "none" THEN s
      ELSE [s EXCEPT !.fat = FAT_set_entries(@, n, EOC), !.full = @ \/ n = 0, !.fault = Setting(n)]

\* A chain that was freed goes on at entry 0 and from there to the number that
\* the media byte makes, 1 standing for it: behind the table.
Astray(f, c) == 1 \in Chain(f, c)

\* s is a volume in the middle of a FAT_write to the file that starts at c.
\* A write that went astray ends what is modelled of the call; FindFreeCluster's
\* 0 does not, it becomes the next cluster of the chain.
FAT_allocate_cluster(s, c) ==
  LET n == FindFreeCluster(s.fat)
  IN  IF s.fault # "none" THEN s
      ELSE IF Astray(s.fat, c) THEN [s EXCEPT !.fault = "astray"]
      ELSE [s EXCEPT !.fat = FAT_set_entries(FAT_set_entries(@, ChainEnd(@, c), n), n, EOC),
                     !.full = @ \/ n = 0, !.fault = Setting(n)]

\* For each of the starting clusters: all entries of the chain are zeroed, and
\* then the entry whose number is the end-of-chain mark.
FAT_free_cluster_chain(f, starts) ==
  [x \in Table |-> IF x = EOC \/ \E c \in starts : x \in Chain(f, c) THEN 0 ELSE f[x]]

-----------------------------------------------------------------------------
(* The root directory                                                      *)

\* The first of a set of slots.
FirstSlot(S) == CHOOSE i \in S : \A j \in S : i <= j

Used(d) == {i \in Slots : d[i].name # Nobody}

\* What can come of a scan that goes on past the last entry.
PastRoot == {"none"} \cup (IF RootSlots < RootReach THEN {"misread"} ELSE {})

\* FAT_file_entry: the first entry with this name.
FAT_file_entry(d, n) == d[FirstSlot({i \in Slots : d[i].name = n})]

\* FAT_upd_entry looks the entry up by the first cluster.
FAT_upd_entry(d, file) ==
  [i \in Slots |->
     IF /\ d[i].clus = file.clus
        /\ \A j \in Slots : j < i => d[j].clus # file.clus
     THEN [d[i] EXCEPT !.size = file.size]
     ELSE d[i]]

-----------------------------------------------------------------------------
(* Operations                                                              *)

Intact    == fault = "none" /\ ~full
Exists(n) == \E i \in Slots : dir[i].name = n
IsOpen(n) == \E fd \in Fds : open[fd].name = n

\* A call that may end the orderly use of the volume; what is in the clusters
\* is followed until then.
Keeps(order) == orderly' = (orderly /\ order)
Tracked(d) == IF orderly' THEN d ELSE [c \in Clusters |-> Unwritten]

\* VFS_create, FAT_create: nobody looks whether the name is taken, nor whether
\* there is a free cluster.  In a full directory the entry goes into a cluster
\* behind it.
FAT_create(n) ==
  LET c == FindFreeCluster(fat)
      i == FirstSlot(Slots \ Used(dir))
  IN
  /\ Intact
  /\ Keeps(~Exists(n))
  /\ IF Used(dir) = Slots
     THEN fault' = "dir_full" /\ UNCHANGED <<fat, dir>>
     ELSE /\ dir' = [dir EXCEPT ![i] = [name |-> n, clus |-> c, size |-> 0]]
          /\ fat' = FAT_set_entries(fat, c, EOC)
          /\ fault' = Setting(c)
  /\ full' = (c = 0)
  /\ data' = Tracked(data)
  /\ UNCHANGED <<vnode, open>>

\* VFS_lookup: the vnode of the name, made by FAT_lookup the first time.
Handle(n) == IF vnode[n] # 0 THEN vnode[n] ELSE FAT_file_entry(dir, n).clus

\* VFS_open: the cluster comes from the vnode, the size from the directory.
FAT_open(fd, n) ==
  /\ Intact
  /\ open[fd] = Closed
  /\ Exists(n)
  /\ Keeps(~IsOpen(n))
  /\ vnode' = [vnode EXCEPT ![n] = Handle(n)]
  /\ open' = [open EXCEPT ![fd] = [name |-> n, clus |-> Handle(n),
                                   size |-> FAT_file_entry(dir, n).size]]
  /\ data' = Tracked(data)
  /\ UNCHANGED <<fat, dir, full, fault>>

\* FAT_lookup of a name that the root directory does not have.
FAT_lookup(n) ==
  /\ Intact
  /\ ~Exists(n)
  /\ fault' \in PastRoot
  /\ UNCHANGED <<fat, dir, data, vnode, open, orderly, full>>

FAT_close(fd) ==
  /\ Intact
  /\ open[fd] # Closed
  /\ dir' = FAT_upd_entry(dir, open[fd])
  /\ open' = [open EXCEPT ![fd] = Closed]
  /\ fault' \in IF \E i \in Slots : dir[i].clus = open[fd].clus THEN {"none"} ELSE PastRoot
  /\ UNCHANGED <<fat, data, vnode, orderly, full>>

\* VFS_remove: every entry of that name goes, and so does the vnode.  The scan
\* takes in all there is to it.
FAT_remove(n) ==
  LET gone == {i \in Slots : dir[i].name = n} IN
  /\ Intact
  /\ Exists(n)
  /\ Keeps(~IsOpen(n))
  /\ fat' = FAT_free_cluster_chain(fat, {dir[i].clus : i \in gone})
  /\ dir' = [i \in Slots |-> IF i \in gone THEN Empty ELSE dir[i]]
  /\ vnode' = [vnode EXCEPT ![n] = 0]
  /\ fault' \in IF EOC \in Table THEN PastRoot ELSE {"stray"}
  /\ data' = Tracked([c \in Clusters |-> IF fat'[c] = 0 THEN Unwritten ELSE data[c]])
  /\ UNCHANGED <<open, full>>

\* Where a piece goes for which the chain has no cluster: offset 0 of the device
\* when it is too short, the root directory for cluster 0.
Outside(f, c, k) == IF Astray(f, c) /\ k # 0 THEN "astray" ELSE IF k = EOC THEN "boot" ELSE "root"

\* Wrong on purpose: the offset within the cluster is forgotten.
PieceAtClusterStart(s, file, len) ==
  LET k == Link(s.fat, file.clus, s.size \div BytesPerClus)
  IN  IF s.fault # "none" THEN s
      ELSE IF k < 2 \/ k = EOC THEN [s EXCEPT !.fault = Outside(s.fat, file.clus, k)]
      ELSE [s EXCEPT !.size = @ + len,
                     !.data[k] = [x \in Offsets |->
                                    IF x < len THEN Byte(file.name, s.size + x) ELSE @[x]]]

\* SAL_write of len bytes at FAT_absolute_offset(size).
WritePiece(s, file, len) ==
  LET k == Link(s.fat, file.clus, s.size \div BytesPerClus)
      o == s.size % BytesPerClus
  IN  IF s.fault # "none" THEN s
      ELSE IF k < 2 \/ k = EOC THEN [s EXCEPT !.fault = Outside(s.fat, file.clus, k)]
      ELSE [s EXCEPT !.size = @ + len,
                     !.data[k] = [x \in Offsets |->
                                    IF x \in o .. o + len - 1
                                    THEN Byte(file.name, s.size + x - o) ELSE @[x]]]

FAT_write(fd, len) ==
  LET file == open[fd]
      B    == BytesPerClus
      new(s) == FAT_allocate_cluster(s, file.clus)
      s0   == [fat |-> fat, data |-> data, size |-> file.size, full |-> full, fault |-> fault]
      s1   == IF s0.size > 0 /\ s0.size % B = 0 THEN new(s0) ELSE s0
      \* start on unaligned to cluster
      room == B - (s0.size % B)
      head == IF room = B THEN 0 ELSE IF room >= len THEN len ELSE room
      s2   == IF room = B THEN s1 ELSE WritePiece(s1, file, head)
      \* whole clusters
      loop[i \in Nat] == IF i = 0 THEN s2 ELSE WritePiece(new(loop[i - 1]), file, B)
      s3   == loop[(len - head) \div B]
      \* end on unaligned to cluster
      rest == (len - head) % B
      s4   == IF rest = 0 THEN s3
              ELSE WritePiece(IF s3.size > 0 THEN new(s3) ELSE s3, file, rest)
  IN
  /\ Intact
  /\ file # Closed
  /\ file.size + len <= MaxSize
  /\ Keeps(TRUE)
  /\ fat' = s4.fat /\ full' = s4.full /\ fault' = s4.fault
  /\ data' = Tracked(s4.data)
  /\ open' = [open EXCEPT ![fd].size = s4.size]
  /\ UNCHANGED <<dir, vnode>>

\* The cluster by which FAT_absolute_offset finds position p of a file.
At(file, p) == Link(fat, file.clus, p \div BytesPerClus)

\* FAT_read of len bytes from position pos, none of them past the size: the
\* rest of a cluster, whole clusters, the beginning of one.  Each piece is one
\* SAL_read; the answer is what the bytes were written for.
FAT_read(file, pos, len) ==
  LET B     == BytesPerClus
      room  == B - (pos % B)
      head  == IF room = B THEN 0 ELSE IF room >= len THEN len ELSE room
      whole == (len - head) \div B
      start == [k \in 0 .. whole + 1 |-> IF k = 0 THEN pos ELSE pos + head + (k - 1) * B]
      size  == [k \in 0 .. whole + 1 |-> CASE k = 0 -> head
                                          [] k = whole + 1 -> (len - head) % B
                                          [] OTHER -> B]
  IN  UNION { { LET c == At(file, start[k]) IN
                IF c \in Clusters THEN data[c][(start[k] + o) % B] ELSE Byte(Nobody, 0)
                : o \in 0 .. size[k] - 1 } : k \in 0 .. whole + 1 }

\* The machine is switched off and on between two calls.
Reboot ==
  /\ Intact
  /\ vnode' = [n \in Names |-> 0]
  /\ open' = [fd \in Fds |-> Closed]
  /\ UNCHANGED <<fat, dir, data, orderly, full, fault>>

\* Parts of the volume are overwritten, or the end of a chain is linked to entry
\* 0: the behaviour is not followed further.
Damaged == ~Intact /\ UNCHANGED vars

\* A freshly formatted volume.  Entry 1 holds an end of chain; entry 0 has the
\* media byte below ones, which is one too for 0xF8, and for 0xF0 (the floppy)
\* the number of no cluster, for which 1 stands.
Init ==
  /\ \E media \in {1, EOC} : fat = [x \in Table |-> CASE x = 0 -> media
                                                      [] x = 1 -> EOC
                                                      [] OTHER -> 0]
  /\ dir = [i \in Slots |-> Empty]
  /\ data = [c \in Clusters |-> Unwritten]
  /\ vnode = [n \in Names |-> 0]
  /\ open = [fd \in Fds |-> Closed]
  /\ orderly = TRUE
  /\ full = FALSE
  /\ fault = "none"

Next == \/ \E n \in Names : FAT_create(n) \/ FAT_remove(n) \/ FAT_lookup(n)
        \/ \E fd \in Fds, n \in Names : FAT_open(fd, n)
        \/ \E fd \in Fds : FAT_close(fd)
        \/ \E fd \in Fds, len \in WriteLens : FAT_write(fd, len)
        \/ Reboot
        \/ Damaged

Spec == Init /\ [][Next]_vars

-----------------------------------------------------------------------------
(* Properties                                                              *)

\* Whatever clients do, recreating, reopening and removing open files
\* included: no cluster is in the chains of two directory entries
\* (FindFreeCluster, FAT_allocate_cluster, FAT_free_cluster_chain).
NoSharedCluster ==
  Intact => \A i, j \in Used(dir) :
              i # j => Chain(fat, dir[i].clus) \cap Chain(fat, dir[j].clus) = {}

\* In orderly use, a cluster that is not free belongs to a file: FAT_remove returns every
\* cluster that FAT_create and FAT_write took, those past the size too.
NoLostCluster ==
  orderly /\ Intact => \A c \in Clusters :
              fat[c] # 0 => \E i \in Used(dir) : c \in Chain(fat, dir[i].clus)

\* Together: the directory tells whose every cluster is, until a scan takes the
\* bytes behind the root directory for an entry, an entry of the table lies
\* across two sectors, or FindFreeCluster finds nothing.
ClustersOwned == NoSharedCluster /\ NoLostCluster

\* In orderly use and for as long, a FAT_read from any position to the size of a
\* file none of whose bytes lies behind the end of the disk, the size being that
\* of the directory or of an open file, returns the bytes that were written for those positions of
\* that very file: FAT_write's three phases put enough clusters into the chain,
\* FAT_read's take the same way, and no other file's call, no removal and no
\* reboot reaches them.
OwnBytes ==
  orderly /\ Intact => \A e \in {dir[i] : i \in Slots} \cup {open[fd] : fd \in Fds} :
              (\A q \in 0 .. e.size - 1 : At(e, q) \notin Clusters \ OnDisk) =>
              \A p \in 0 .. e.size - 1 : FAT_read(e, p, e.size - p) =
                { Byte(e.name, q) : q \in p .. e.size - 1 }

\* In orderly use, as long as FindFreeCluster finds a cluster, no FAT_write reaches the
\* boot sector (where FAT_absolute_offset's `returns 0 on failure' leads) or the
\* root directory (where cluster 0 does).
WritesToData == orderly /\ ~full => fault \notin {"boot", "root"}

\* No FAT_write reaches them at all: fails when FindFreeCluster has answered 0.
NeverOutside == orderly => fault \notin {"boot", "root"}

\* FindFreeCluster `searches the FAT for a free cluster': what it returns is
\* a cluster of the volume.  Fails.
ClusterOnDisk == \A c \in Clusters : fat[c] # 0 => c \in OnDisk

\* FindFreeCluster `returns 0 on failure', that is when no cluster is free; the
\* last cluster of the chain it was to lengthen counts as free from then on.
\* Fails when num_sectors is 0.
FullMeansFull == full => \A c, d \in OnDisk : fat[c] = 0 /\ fat[d] = 0 => c = d

\* A scan for entries of the root directory sees no others: fails where the
\* root directory is shorter than RootReach.
ScansOwn == fault # "misread"

\* FAT_free_cluster_chain marks `all the FAT entries' of the chain `as free',
\* and nothing that lies outside the table.
FreesInTable == fault # "stray"

\* Entry 0 stays what it is: fails when a file is written to that was removed
\* while open, and on a full volume.
MediaEntry == fat[0] \in {1, EOC}
=============================================================================
