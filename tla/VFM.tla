-------------------------------- MODULE VFM --------------------------------
(***************************************************************************)
(* The contents of virtual files (kernel/src/vfm.c) under VFS_open, read,  *)
(* write and close.  A file, its handle and what VFM_open returns are the  *)
(* same object, so all descriptors of a file share its position.  The      *)
(* size of a file is the size of its block on the heap, which may be       *)
(* larger than what was asked for.  Removal is in VFS.tla; VFS_seek is not *)
(* modelled, for VFM_seek returns no value and takes -1 for a position.    *)
(***************************************************************************)
EXTENDS Integers, Sequences

CONSTANTS
  Files,         \* the files that VFM_create has made
  Handles,       \* descriptors
  Marks,         \* what a byte that is written can be
  Slack,         \* by how much a block may be larger than was asked for
  VfmLens,       \* the lengths of calls
  MaxBytes       \* bound: no block is asked for beyond this size

ASSUME VFMAssumption ==
  /\ Slack \subseteq Nat /\ VfmLens \subseteq Nat \ {0} /\ MaxBytes \in Nat

VARIABLES
  content,       \* the block of each file, <<>> for NULL
  pos,           \* file->pos
  opened,        \* the file of each descriptor, or Unused
  written,       \* ghost: what was last written to each position of a file
  got            \* ghost: what the last read returned, and what it should have

vfmVars == <<content, pos, opened, written, got>>

Unused  == "-"
Garbage == -1                        \* what nobody has written
Nothing == [bytes |-> <<>>, right |-> <<>>]

ksize(f) == Len(content[f])

Stale(n) == [k \in 1 .. n |-> Garbage]

\* s with the bytes of data from position p + 1 on; others' memory follows s.
Put(s, p, data) ==
  [k \in DOMAIN s |-> IF k \in p + 1 .. p + Len(data) THEN data[k - p] ELSE s[k]]

\* What a read of the ghost returns: nobody has written the rest of the block.
Part(s, p, n) == [k \in 1 .. n |-> IF p + k <= Len(s) THEN s[p + k] ELSE Garbage]

-----------------------------------------------------------------------------
VFM_open(h, f) ==
  /\ opened[h] = Unused
  /\ opened' = [opened EXCEPT ![h] = f]
  /\ pos' = [pos EXCEPT ![f] = 0]
  /\ got' = Nothing
  /\ UNCHANGED <<content, written>>

VFM_close(h) ==
  /\ opened[h] # Unused
  /\ opened' = [opened EXCEPT ![h] = Unused]
  /\ pos' = [pos EXCEPT ![opened[h]] = 0]
  /\ got' = Nothing
  /\ UNCHANGED <<content, written>>

VFM_read(h, bytes) ==
  /\ opened[h] # Unused
  /\ LET f     == opened[h]
         csize == IF pos[f] + bytes > ksize(f) THEN ksize(f) - pos[f] ELSE bytes
     IN  /\ got' = [bytes |-> SubSeq(content[f], pos[f] + 1, pos[f] + csize),
                    right |-> Part(written[f], pos[f], csize)]
         /\ pos' = [pos EXCEPT ![f] = @ + csize]
  /\ UNCHANGED <<content, opened, written>>

\* Wrong on purpose: the block has room for the new bytes, not for both.
kexpand_to(block, increment, slack) ==
  [k \in 1 .. increment + slack |-> IF k <= Len(block) THEN block[k] ELSE Garbage]

\* kexpand: a block of the old and the new size, with what the old one held.
kexpand(block, increment, slack) == block \o Stale(increment + slack)

VFM_write(h, data) ==
  /\ opened[h] # Unused
  /\ LET f     == opened[h]
         grows == pos[f] + Len(data) > ksize(f)
     IN  /\ grows => ksize(f) + Len(data) <= MaxBytes
         /\ \E slack \in (IF grows THEN Slack ELSE {0}) :
              content' = [content EXCEPT ![f] =
                Put(IF grows THEN kexpand(@, Len(data), slack) ELSE @, pos[f], data)]
         /\ written' = [written EXCEPT ![f] =
              LET end == pos[f] + Len(data)
              IN  Put(Part(@, 0, IF end > Len(@) THEN end ELSE Len(@)), pos[f], data)]
         /\ pos' = [pos EXCEPT ![f] = @ + Len(data)]
  /\ got' = Nothing
  /\ UNCHANGED opened

VFMInit ==
  /\ content = [f \in Files |-> <<>>] /\ pos = [f \in Files |-> 0]
  /\ opened = [h \in Handles |-> Unused]
  /\ written = [f \in Files |-> <<>>]
  /\ got = Nothing

VFMNext ==
  \E h \in Handles :
    \/ \E f \in Files : VFM_open(h, f)
    \/ VFM_close(h)
    \/ \E n \in VfmLens :
         \/ VFM_read(h, n)
         \/ \E m \in Marks : VFM_write(h, [k \in 1 .. n |-> m])

-----------------------------------------------------------------------------
(* Properties                                                              *)

\* Whatever the descriptors of a file do to its one position: a byte that was
\* written is what a read of its place returns, also after the block has
\* moved, and no read starts behind the end of the block.
ReadsWhatWasWritten ==
  /\ got.bytes = got.right
  /\ \A f \in Files : pos[f] <= ksize(f) /\ Len(written[f]) <= ksize(f)
=============================================================================
