-------------------------------- MODULE VFS --------------------------------
(***************************************************************************)
(* The virtual file system (kernel/src/vfs.c) over its three drivers: the  *)
(* FAT volume at the root, the virtual files of vfm.c under VIRT and the   *)
(* devices of dev.c under DEV.  Paths are looked up through a tree of      *)
(* vnodes that remembers what the drivers found; open files are numbered   *)
(* by a list of pointers to descriptors in the kernel heap.  Positions and *)
(* contents of files are left to the drivers.                              *)
(*                                                                         *)
(* The FAT driver stores the first 8 + 3 characters of a name, so several  *)
(* spellings find the same file ("A" and "A."), as "." finds its own       *)
(* directory; a vnode keeps the spelling it was looked up by.              *)
(***************************************************************************)
EXTENDS Integers, Sequences, FiniteSets, SequencesExt

CONSTANTS DirNames, FileNames,   \* names in the root directory and below it
          Spellings,  \* FAT_conv_fname: name -> the name stored, where they differ
          MaxFiles,   \* bound: files ever created
          MaxVnodes,  \* bound: vnodes ever made; none is ever freed
          MaxFds,     \* bound: length of descriptor_list
          Blocks      \* where kmalloc can put a descriptor

ASSUME VFSAssumption ==
  /\ DirNames \cap FileNames = {} /\ DirNames \cap {"VIRT", "DEV"} = {}
  /\ "USER" \in DirNames /\ "." \notin DirNames \cup FileNames /\ MaxFiles >= 2
  /\ {MaxFiles, MaxVnodes, MaxFds} \subseteq Nat /\ MaxFds >= 2
  /\ "NULL" \notin Blocks

VARIABLES
  fs,               \* the drivers' directory entries: a set of [id, dir, name, slot]
  created,          \* ghost: how many files there have been
  vnodes,           \* the vnodes in the order they were made; 1 is vfs_root
  descriptor_list,  \* file descriptor + 1 -> block of its t_FileDescriptor
  heap,             \* block -> the descriptor in it, or Free
  held,             \* ghost: descriptors the clients have open, [fd, id]
  fault             \* how the kernel went down, or "none"

vars == <<fs, created, vnodes, descriptor_list, heap, held, fault>>

ROOT == -1  VIRT == -2  DEV == -3  STDIN == -4  STDOUT == -5

NoNode == 0
Free   == [file |-> 0, driver |-> "none"]

\* What a vnode keeps of a file: its number, its directory, the name asked for.
File(i, d, n) == [id |-> i, dir |-> d, name |-> n]

Entry(i, d, n, s) == [id |-> i, dir |-> d, name |-> n, slot |-> s]

Paths == {<<n>> : n \in DirNames \cup FileNames \cup {"VIRT", "DEV"}}
         \cup {<<d, n>> : d \in DirNames \cup {"VIRT"}, n \in FileNames \cup {"."}}
         \cup {<<d, ".", n>> : d \in DirNames, n \in FileNames}
         \cup {<<"DEV", n>> : n \in {"STDIN", "STDOUT"}}

-----------------------------------------------------------------------------
(* The tree of vnodes                                                      *)

VFS_make_vnode(v, p, h) ==
  Append(v, [parent |-> p, handle |-> h, driver |-> v[p].driver, children |-> <<>>])

\* Wrong on purpose: the new vnode takes the place of the ones there are.
insert_vnode_alone(v, p, c) == [v EXCEPT ![p].children = <<c>>]

VFS_insert_vnode(v, p, c) == [v EXCEPT ![p].children = Append(@, c)]

\* The name the driver compares with those of its entries.
Key(driver, n) ==
  IF driver = "fat" /\ n \in DOMAIN Spellings THEN Spellings[n] ELSE n

Matches(driver, d, n) == {f \in fs : f.dir = d /\ f.name = Key(driver, n)}

\* f_Lookup of the driver finds the first of the entries that match.
f_Lookup(driver, d, n) ==
  LET found == Matches(driver, d, n)
  IN  {File(f.id, d, n) : f \in {g \in found : \A h \in found : g.slot <= h.slot}}

Cached(v, p, n) == {c \in ToSet(v[p].children) : v[c].handle.name = n}

\* The vnode the driver finds becomes the last child of its parent.
Fetch(v, p, n) ==
  LET found == f_Lookup(v[p].driver, v[p].handle.id, n) IN
  IF found = {} THEN [v |-> v, node |-> NoNode]
  ELSE LET c == Len(v) + 1
       IN  [v |-> VFS_insert_vnode(VFS_make_vnode(v, p, CHOOSE f \in found : TRUE), p, c),
            node |-> c]

\* Wrong on purpose: the driver is asked every time.
lookup_uncached(v, p, n) == Fetch(v, p, n)

VFS_lookup(v, p, n) ==
  IF Cached(v, p, n) # {}
  THEN [v |-> v, node |-> CHOOSE c \in Cached(v, p, n) : TRUE]
  ELSE Fetch(v, p, n)

\* Each name of the path is looked up below the vnode of the one before it,
\* until one is not found.
VFS_walk_path(v, path) ==
  LET walk[i \in 0 .. Len(path)] ==
        IF i = 0 THEN [v |-> v, node |-> 1]
        ELSE LET w == walk[i - 1] IN
             IF w.node = NoNode THEN w ELSE VFS_lookup(w.v, w.node, path[i])
  IN  walk[Len(path)]

-----------------------------------------------------------------------------
(* The descriptors                                                         *)

\* The first empty slot, or one more.
VFS_add_descriptor(l, b) ==
  IF "NULL" \in ToSet(l) THEN [l EXCEPT ![SelectInSeq(l, LAMBDA x : x = "NULL")] = b]
                         ELSE Append(l, b)

Slot(l, b) == IF "NULL" \in ToSet(l) THEN SelectInSeq(l, LAMBDA x : x = "NULL")
                                     ELSE Len(VFS_add_descriptor(l, b))

\* The kernel goes down; the vnodes the walk has made stay.
Fails(why) == fault' = why /\ UNCHANGED <<fs, created, descriptor_list, heap, held>>

Driver(w) == w.v[w.node].driver

\* f_Open of a device is NULL.  kmalloc gives out any block that is free.
VFS_open(path) ==
  LET w == VFS_walk_path(vnodes, path) IN
  /\ fault = "none" /\ Len(w.v) <= MaxVnodes
  /\ vnodes' = w.v
  /\ CASE w.node = NoNode     -> Fails("null_vnode")
       [] w.node # NoNode /\ Driver(w) = "dev" -> Fails("null_call")
       [] OTHER ->
            /\ Len(descriptor_list) < MaxFds
            /\ \E b \in Blocks :
                 /\ heap[b] = Free
                 /\ heap' = [heap EXCEPT ![b] = [file   |-> w.v[w.node].handle.id,
                                                 driver |-> Driver(w)]]
                 /\ descriptor_list' = VFS_add_descriptor(descriptor_list, b)
                 /\ held' = held \cup {[fd |-> Slot(descriptor_list, b) - 1,
                                        id |-> w.v[w.node].handle.id]}
            /\ UNCHANGED <<fs, created, fault>>

\* Wrong on purpose: the descriptor behind the last number is freed.
close_last(h) ==
  LET b == descriptor_list[Len(descriptor_list)] IN
  /\ fault = "none"
  /\ heap' = [heap EXCEPT ![b] = Free]
  /\ held' = held \ {h}
  /\ UNCHANGED <<fs, created, vnodes, descriptor_list, fault>>

\* The descriptor is freed; the list keeps the pointer to it.
VFS_close(h) ==
  LET b == descriptor_list[h.fd + 1] IN
  /\ fault = "none"
  /\ UNCHANGED vnodes
  /\ IF heap[b].driver = "dev" THEN Fails("null_call")
     ELSE /\ heap' = [heap EXCEPT ![b] = Free]
          /\ held' = held \ {h}
          /\ UNCHANGED <<fs, created, descriptor_list, fault>>

-----------------------------------------------------------------------------
(* Creating, removing and asking about files                               *)

\* The vnode of the directory that the path without its last name leads to.
VFS_get_dir_and_fname(path) == VFS_walk_path(vnodes, Front(path))

\* The first slot of the directory that no entry has.
FreeSlot(d) ==
  CHOOSE s \in 1 .. Cardinality(fs) + 1 :
    /\ \A f \in fs : f.dir = d => f.slot # s
    /\ \A r \in 1 .. s - 1 : \E f \in fs : f.dir = d /\ f.slot = r

\* f_Create does not ask whether the name is there already.  A directory of
\* the FAT driver gets an entry for itself.
VFS_make_file(driver, d, n) ==
  LET i == created + 1 IN
  /\ created < MaxFiles
  /\ fs' = fs \cup {Entry(i, d, Key(driver, n), FreeSlot(d))}
               \cup {Entry(x, x, ".", 1) : x \in IF n \in DirNames THEN {i} ELSE {}}
  /\ created' = i
  /\ UNCHANGED <<descriptor_list, heap, held, fault>>

\* f_Create of a device is NULL.
VFS_create(path) ==
  LET w == VFS_get_dir_and_fname(path) IN
  /\ fault = "none" /\ Len(w.v) <= MaxVnodes
  /\ vnodes' = w.v
  /\ CASE w.node = NoNode -> Fails("null_vnode")
       [] w.node # NoNode /\ Driver(w) = "dev" -> Fails("null_call")
       [] OTHER -> VFS_make_file(Driver(w), w.v[w.node].handle.id, Last(path))

\* f_Remove clears every entry that matches; what is in a removed directory is
\* not touched.
Without(driver, f) == fs \ Matches(driver, f.dir, f.name)

\* Wrong on purpose: the vnode stays among the children of its parent.
unlink_nothing(v, c) == v

unlink(v, c) ==
  [v EXCEPT ![v[c].parent].children = RemoveAt(@, CHOOSE k \in 1 .. Len(@) : @[k] = c)]

\* The driver removes the file; a virtual file is freed there, and once more
\* here.  Then the vnode is taken out from behind the one in front of it, and
\* the first one has none.
VFS_remove(path) ==
  LET w == VFS_walk_path(vnodes, path)
      p == w.v[w.node].parent
  IN
  /\ fault = "none" /\ Len(w.v) <= MaxVnodes
  /\ CASE w.node = NoNode -> vnodes' = w.v /\ Fails("null_vnode")
       [] w.node # NoNode /\ Driver(w) = "dev" -> vnodes' = w.v /\ Fails("null_call")
       [] w.node # NoNode /\ Driver(w) = "vfm" -> vnodes' = w.v /\ Fails("vfm_remove")
       [] OTHER ->
            /\ fs' = Without(Driver(w), w.v[w.node].handle)
            /\ IF Head(w.v[p].children) = w.node
               THEN fault' = "null_walk" /\ vnodes' = w.v
               ELSE fault' = fault /\ vnodes' = unlink(w.v, w.node)
            /\ UNCHANGED <<created, descriptor_list, heap, held>>

\* VFS_stat changes nothing but the tree.
VFS_stat(path) ==
  LET w == VFS_walk_path(vnodes, path) IN
  /\ fault = "none" /\ Len(w.v) <= MaxVnodes
  /\ vnodes' = w.v
  /\ IF w.node = NoNode THEN Fails("null_vnode")
     ELSE UNCHANGED <<fs, created, descriptor_list, heap, held, fault>>

Dirs == [virt |-> File(VIRT, ROOT, "VIRT"), dev |-> File(DEV, ROOT, "DEV")]
Devices == [stdin |-> File(STDIN, DEV, "STDIN"), stdout |-> File(STDOUT, DEV, "STDOUT")]

Disk == {Entry(1, ROOT, "LAKEOS", 1), Entry(2, ROOT, "USER", 2), Entry(2, 2, ".", 1)}

\* VFS_init has mounted the root, VFS_init_virt and VFS_init_dev have made
\* their vnodes and opened descriptors 0 and 1.  On a disk with LakeOS on it
\* VFS_init_rootfs has found the file LAKEOS before, on another it has created
\* it and USER.
Init ==
  /\ \E installed \in BOOLEAN :
       LET node(p, h, d, cs) == [parent |-> p, handle |-> h, driver |-> d, children |-> cs]
           k == IF installed THEN 3 ELSE 2
       IN  vnodes = <<node(NoNode, File(ROOT, ROOT, ""), "fat", [i \in 1 .. k |-> i + 1])>>
                    \o (IF installed THEN <<node(1, File(1, ROOT, "LAKEOS"), "fat", <<>>)>>
                                     ELSE <<>>)
                    \o <<node(1, Dirs.virt, "vfm", <<>>),
                         node(1, Dirs.dev, "dev", <<k + 2, k + 3>>),
                         node(k + 1, Devices.stdin, "dev", <<>>),
                         node(k + 1, Devices.stdout, "dev", <<>>)>>
  /\ fs = Disk \cup {Entry(STDIN, DEV, "STDIN", 1), Entry(STDOUT, DEV, "STDOUT", 2)}
  /\ created = 2
  /\ \E b, c \in Blocks :
       /\ b # c
       /\ descriptor_list = <<b, c>>
       /\ heap = [x \in Blocks |->
                    CASE x = b -> [file |-> STDIN, driver |-> "dev"]
                      [] x = c -> [file |-> STDOUT, driver |-> "dev"]
                      [] OTHER -> Free]
  /\ held = {[fd |-> 0, id |-> STDIN], [fd |-> 1, id |-> STDOUT]}
  /\ fault = "none"

Next == \/ \E path \in Paths : VFS_open(path) \/ VFS_create(path)
                               \/ VFS_remove(path) \/ VFS_stat(path)
        \/ \E h \in held : VFS_close(h)

Spec == Init /\ [][Next]_vars

-----------------------------------------------------------------------------
(* Properties                                                              *)

\* A vnode and the ones below it, through the lists of children.
Below(i) ==
  LET step(S) == S \cup UNION {ToSet(vnodes[j].children) : j \in S}
  IN  step(step(step({i})))

Reachable == Below(1)

\* There is no entry any more for what the vnode stands for.
IsStale(i) ==
  /\ vnodes[i].handle \notin {File(ROOT, ROOT, ""), Dirs.virt, Dirs.dev}
  /\ \A f \in Matches(vnodes[i].driver, vnodes[i].handle.dir, vnodes[i].handle.name) :
       f.id # vnodes[i].handle.id

\* Two vnodes that stand for the same entry of the same directory.
Twins(i, j) ==
  /\ vnodes[i].handle.dir = vnodes[j].handle.dir
  /\ Key(vnodes[i].driver, vnodes[i].handle.name) = Key(vnodes[j].driver, vnodes[j].handle.name)

\* VFS_lookup makes vnodes of what the driver has, and VFS_remove takes out the
\* vnode of what it removes: a vnode that a walk can reach goes stale only if
\* the file is removed by another of its spellings, through the vnode of that.
OnlyTwinsGoStale ==
  [][fault' = "none" =>
       \A i \in {k \in Reachable' : IsStale(k)'} :
         \/ i \in Reachable /\ IsStale(i)
         \/ \E j \in DOMAIN vnodes' \ Reachable' :
              (j \in DOMAIN vnodes => j \in Reachable) /\ Twins(i, j)']_vars

\* However often VFS_lookup is asked for a name below a vnode, the name has one
\* vnode there, which is the child of no other and stands for something in the
\* directory of its parent.
OneVnodePerName ==
  \A i \in Reachable :
    /\ IsInjective(vnodes[i].children)
    /\ \A c \in ToSet(vnodes[i].children) :
         /\ vnodes[c].parent = i /\ vnodes[c].handle.dir = vnodes[i].handle.id
         /\ \A d \in ToSet(vnodes[i].children) :
              c # d => vnodes[c].handle.name # vnodes[d].handle.name

\* A descriptor that a client has open is the one its VFS_open made, and no
\* other open descriptor is in the same place, although VFS_close leaves
\* pointers to freed blocks in the list and kmalloc gives those blocks out
\* again.  And no block is lost: each that holds a descriptor is that of an
\* open file.
OwnDescriptor ==
  /\ \A h \in held :
       /\ heap[descriptor_list[h.fd + 1]].file = h.id
       /\ \A g \in held \ {h} : descriptor_list[g.fd + 1] # descriptor_list[h.fd + 1]
  /\ \A b \in Blocks : heap[b] # Free => \E h \in held : descriptor_list[h.fd + 1] = b

\* A vnode that was reachable stays reachable until the entry it stands for or
\* that of a directory above it is removed (VFS_insert_vnode, VFS_remove).
VnodesStay ==
  [][\A i \in Reachable \ Reachable' :
       \E a \in Reachable : i \in Below(a) /\ IsStale(a)']_vars

\* Not so, and no run checks them: what a walk can reach is never stale
\* ("." or a second spelling of a removed file is), and a file has one vnode.
NeverStale == \A i \in Reachable : fault = "none" => ~IsStale(i)
OneVnode   == \A i, j \in Reachable : vnodes[i].handle.id = vnodes[j].handle.id => i = j
=============================================================================
