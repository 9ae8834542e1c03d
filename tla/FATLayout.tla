----------------------------- MODULE FATLayout -----------------------------
(***************************************************************************)
(* Where the parts of a FAT12 or FAT16 volume are (fat.c: FAT_mount,       *)
(* FAT_init_type, RootDirSector, FAT_clus_to_off, FAT_absolute_offset),    *)
(* computed from the boot sector: an error here makes one part of the      *)
(* volume overwrite another.  For FAT32 the code computes the type before  *)
(* it has read the size of the tables, which is not modelled.              *)
(***************************************************************************)
EXTENDS FATEntry

CONSTANTS
  DirEntry,      \* 32: bytes of a directory entry
  Max12, Max16,  \* 4085 and 65525: the clusters at which the next type begins
  BootSectors    \* the boot sectors of the volumes considered

ASSUME LayoutAssumption ==
  /\ DirEntry \in Nat \ {0} /\ Max12 \in Nat /\ Max16 \in Nat /\ Max12 < Max16
  /\ \A b \in BootSectors : b.bytes_per_sector > 0 /\ b.sectors_per_cluster > 0

VARIABLES
  boot_sector,   \* context->boot_sector
  mounted,       \* FAT_mount has returned
  data_region_start, bytes_p_clus

layoutVars == <<boot_sector, mounted, data_region_start, bytes_p_clus>>

FATs == boot_sector.num_fat * boot_sector.sectors_per_fat

\* Volumes of 65536 sectors and more have the number in long_sectors.
total_sectors(v) == IF v.num_sectors # 0 THEN v.num_sectors ELSE v.long_sectors

\* A volume as a formatter makes it: it has clusters, and its tables have room
\* for an entry of each of them and the two before.  Its root directory is not
\* longer than what FAT_absolute_offset lets through.
Formatted(v) ==
  LET root     == (v.num_root_entries * DirEntry + v.bytes_per_sector - 1) \div v.bytes_per_sector
      data     == total_sectors(v) - (v.reserved_sectors + v.num_fat * v.sectors_per_fat + root)
      clusters == data \div v.sectors_per_cluster
      bits     == IF clusters < Max12 THEN 12 ELSE 16
  IN  /\ {v.bytes_per_sector, v.sectors_per_cluster} \subseteq Nat \ {0}
      /\ {v.reserved_sectors, v.num_fat, v.sectors_per_fat, v.num_root_entries, v.num_sectors,
          v.long_sectors}
           \subseteq Nat
      /\ data >= 0 /\ 1 <= clusters /\ clusters < Max16
      /\ (clusters + 2) * bits <= v.sectors_per_fat * v.bytes_per_sector * 8
      /\ v.num_root_entries <= v.bytes_per_sector + 1

\* Wrong on purpose: the last sector of the root directory may be left out.
root_sectors_down ==
  (boot_sector.num_root_entries * DirEntry) \div boot_sector.bytes_per_sector

root_sectors ==
  (boot_sector.num_root_entries * DirEntry + boot_sector.bytes_per_sector - 1)
    \div boot_sector.bytes_per_sector

num_clusters ==
  (total_sectors(boot_sector) - (boot_sector.reserved_sectors + FATs + root_sectors))
    \div boot_sector.sectors_per_cluster

FAT_init_type ==
  IF num_clusters < Max12 THEN "FAT_12"
  ELSE IF num_clusters < Max16 THEN "FAT_16" ELSE "FAT_32"

\* A disk without the boot signature 0xAA55 is left alone.
FAT_mount ==
  /\ ~mounted /\ mounted' = TRUE
  /\ boot_sector.signed
  /\ type' = FAT_init_type
  /\ data_region_start' =
       (boot_sector.reserved_sectors + FATs + root_sectors) * boot_sector.bytes_per_sector
  /\ bytes_p_clus' = boot_sector.sectors_per_cluster * boot_sector.bytes_per_sector
  /\ UNCHANGED <<boot_sector, digits, want>>

RootDirSector == boot_sector.reserved_sectors + FATs

FAT_clus_to_off(cluster) ==
  IF cluster > 1 THEN data_region_start + (cluster - 2) * bytes_p_clus
                 ELSE RootDirSector * boot_sector.bytes_per_sector

\* FAT_absolute_offset in the root directory; 0 is a failure.  The bound is not
\* the root directory's: it lets through bytes_per_sector + 1 entries.
RootOffset(offset) ==
  IF offset > boot_sector.bytes_per_sector * DirEntry THEN 0
  ELSE RootDirSector * boot_sector.bytes_per_sector + offset

\* The first byte of a cluster's entry on the disk.
EntryOffset(fat_num, cluster) ==
  (boot_sector.reserved_sectors + fat_num * boot_sector.sectors_per_fat)
    * boot_sector.bytes_per_sector + FAT_get_offset(cluster)

LayoutInit ==
  /\ boot_sector \in BootSectors
  /\ mounted = FALSE /\ data_region_start = 0 /\ bytes_p_clus = 0

-----------------------------------------------------------------------------
(* Properties                                                              *)

\* The entries of the clusters lie in each copy of the table, the entries of
\* the root directory between the tables and the first cluster, and all bytes
\* of a cluster behind the root directory and on the disk: num_clusters,
\* data_region_start and FAT_clus_to_off round the same way, whichever field
\* has the number of sectors.
PartsApart ==
  mounted =>
    LET sector == boot_sector.bytes_per_sector
        table(n) == (boot_sector.reserved_sectors + n * boot_sector.sectors_per_fat) * sector
        root == table(boot_sector.num_fat)
        data == root + boot_sector.num_root_entries * DirEntry
        end  == total_sectors(boot_sector) * sector
    IN  /\ \A c \in 2 .. num_clusters + 1 :
             /\ \A n \in 0 .. boot_sector.num_fat - 1 :
                  /\ EntryOffset(n, c) >= table(n)
                  /\ EntryOffset(n, c) + 2 <= table(n + 1)
             /\ FAT_clus_to_off(c) >= data /\ FAT_clus_to_off(c) + bytes_p_clus <= end
        /\ \A e \in 0 .. boot_sector.num_root_entries - 1 :
             /\ RootOffset(e * DirEntry) >= root
             /\ RootOffset(e * DirEntry) + DirEntry <= data

\* FAT_absolute_offset `returns 0 on failure', that is past the last entry of
\* the root directory: fails, as the bound is another.
RootEnds ==
  mounted => \A e \in boot_sector.num_root_entries .. boot_sector.bytes_per_sector :
               RootOffset(e * DirEntry) = 0
=============================================================================
