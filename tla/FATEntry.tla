------------------------------ MODULE FATEntry ------------------------------
(***************************************************************************)
(* The entries of the allocation table as bytes of the disk (fat.c:        *)
(* FAT_get_offset, FAT_set_entry, FAT_get_entry, FAT_is_eoc).  A byte is   *)
(* two digits of base Base (16 in the code), low digit first, and numbers  *)
(* are little endian, so a table is a string of digits: a FAT12 entry has  *)
(* three digits and shares a byte with a neighbour.  The bytes are reached *)
(* through SAL_read and SAL_write (sal.c), which of a short transfer do    *)
(* only the part that lies in the first sector: the two bytes of the FAT12 *)
(* entries 341, 682, 1365, ... lie in two sectors of 512 bytes.            *)
(***************************************************************************)
EXTENDS Integers

CONSTANTS Base,
          sector_size, \* device->sector_size, where each table begins a sector
          Types,      \* the types of volume considered
          MaxCluster,
          Values      \* cluster numbers and the mark that are stored

ASSUME FATEntryAssumption ==
  /\ Base \in Nat /\ Base > 1
  /\ sector_size \in Nat \ {0}
  /\ Types \subseteq {"FAT_12", "FAT_16", "FAT_32"}
  /\ MaxCluster \in Nat /\ Values \subseteq Nat

VARIABLES type,     \* context->type, fixed when the volume is mounted
          digits,   \* the table
          want      \* ghost: the value last set for each cluster

entryVars == <<type, digits, want>>

Cluster == 0 .. MaxCluster
Places  == 0 .. 8 * (MaxCluster + 1)

-----------------------------------------------------------------------------
FAT_get_offset(cluster) ==
  CASE type = "FAT_12" -> cluster + (cluster \div 2)
    [] type = "FAT_16" -> cluster * 2
    [] type = "FAT_32" -> cluster * 4

\* The second of two bytes at a byte offset lies in another sector.
Splits(off) == off % sector_size = sector_size - 1

\* SAL_read of two or of four bytes at a byte offset.  The static buffer is 0
\* past the bytes of a sector: no device has larger sectors.
Read2(t, off) == LET p == 2 * off IN
  t[p] + Base * t[p + 1]
    + (IF Splits(off) THEN 0 ELSE (Base^2) * t[p + 2] + (Base^3) * t[p + 3])

Read4(t, off) == Read2(t, off) + (Base^4) * Read2(t, off + 2)

\* SAL_write of the low n digits of a number; what lies in another sector is lost.
Write(t, off, n, number) ==
  [p \in Places |-> IF p \in 2 * off .. 2 * off + (IF Splits(off) THEN 2 ELSE n) - 1
                    THEN (number \div Base^(p - 2 * off)) % Base
                    ELSE t[p]]

\* Wrong on purpose: the neighbour's digit is not preserved.
FAT_set_entry_alone(t, cluster, value) ==
  Write(t, FAT_get_offset(cluster), 4,
        IF type = "FAT_12" /\ cluster % 2 = 1 THEN value * Base ELSE value)

FAT_set_entry(t, cluster, value) ==
  LET off == FAT_get_offset(cluster)
      entry == Read2(t, off)
  IN  CASE type = "FAT_12" ->
             Write(t, off, 4,
                   IF cluster % 2 = 1
                   THEN value * Base + (entry % Base)
                   ELSE (value % Base^3) + (entry \div Base^3) * Base^3)
        [] type = "FAT_16" -> Write(t, off, 4, value)
        [] type = "FAT_32" ->
             Write(t, off, 8,
                   (value % Base^7) + (Read4(t, off) \div Base^7) * Base^7)

FAT_get_entry(t, cluster) ==
  LET off == FAT_get_offset(cluster)
  IN  CASE type = "FAT_12" -> IF cluster % 2 = 1 THEN Read2(t, off) \div Base
                              ELSE Read2(t, off) % Base^3
        [] type = "FAT_16" -> Read2(t, off)
        [] type = "FAT_32" -> LET e == Read4(t, off) IN e - (e % Base)  \* & ~0xF

\* 0xFF8, 0xFFF8 and 0xFFFFFFF8
FAT_is_eoc(entry) ==
  entry >= (CASE type = "FAT_12" -> Base^3
              [] type = "FAT_16" -> Base^4
              [] type = "FAT_32" -> Base^8) - (Base \div 2)

-----------------------------------------------------------------------------
\* How many digits of a value an entry keeps.
Width == CASE type = "FAT_12" -> 3 [] type = "FAT_16" -> 4 [] type = "FAT_32" -> 7

\* The value 0xFFFFFFFF that ends a chain.
EndMark == Base^8 - 1

Set(cluster, value) ==
  /\ digits' = FAT_set_entry(digits, cluster, value)
  /\ want' = [want EXCEPT ![cluster] = value]
  /\ UNCHANGED type

EntryInit == /\ type \in Types
        /\ digits = [p \in Places |-> 0]
        /\ want = [c \in Cluster |-> 0]

EntryNext == \E c \in Cluster, v \in Values \cup {EndMark} : Set(c, v)

EntrySpec == EntryInit /\ [][EntryNext]_entryVars

-----------------------------------------------------------------------------
Torn(cluster) == Splits(FAT_get_offset(cluster))

ReadsAsSet(c) ==
  /\ FAT_get_entry(digits, c) = want[c] % Base^Width
  /\ FAT_is_eoc(FAT_get_entry(digits, c)) <=> want[c] = EndMark

\* FAT_get_entry returns what FAT_set_entry last stored for the cluster, cut
\* to the width of an entry, unless SAL tears the entry's bytes: `preserve
\* either top or bottom nibble' keeps the neighbours that share a byte with
\* it, those of a torn entry too, and FAT32 entries `are 28 bits'.  A chain
\* that FAT_set_entry ended with 0xFFFFFFFF ends for FAT_is_eoc, and no stored
\* cluster number ends one.
GetsWhatWasSet == \A c \in Cluster : ~Torn(c) => ReadsAsSet(c)

\* The same of every entry: fails for the ones SAL_write tears.
EveryEntryReads == \A c \in Cluster : ReadsAsSet(c)
=============================================================================
