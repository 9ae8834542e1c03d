-------------------------------- MODULE SAL --------------------------------
(***************************************************************************)
(* The storage abstraction layer (kernel/src/sal.c): SAL_read and          *)
(* SAL_write cut a transfer at any byte offset into sector transfers of    *)
(* the device.  A partial sector goes through a static buffer, one for     *)
(* reads and one for writes, that keeps its bytes from call to call.       *)
(***************************************************************************)
EXTENDS Integers

CONSTANTS SectorSize, NumSectors,
          TempSize,     \* sizeof temp_buff
          MaxByte,      \* the largest value of a byte
          Straddling    \* clients make short transfers across a sector's end

ASSUME SALAssumption ==
  /\ SectorSize \in Nat \ {0} /\ NumSectors \in Nat \ {0} /\ TempSize \in Nat
  /\ 2 * SectorSize <= TempSize
  /\ MaxByte \in Nat
  /\ Straddling \in BOOLEAN

VARIABLES
  disk,    \* the bytes of the device
  wtemp,   \* SAL_write_unaligned's temp_buff
  rtemp,   \* SAL_read_unaligned's temp_buff
  image    \* ghost: the bytes a device with byte addresses would have

salVars == <<disk, wtemp, rtemp, image>>

Byte    == 0 .. MaxByte
Offsets == 0 .. SectorSize * NumSectors - 1
Temp    == 0 .. TempSize - 1

\* read_sector(device, buf, lba): buf starts with the bytes of the sector.
read_sector(d, buf, lba) ==
  [x \in Temp |-> IF x < SectorSize THEN d[lba * SectorSize + x] ELSE buf[x]]

\* write_sector(device, src, lba)
write_sector(d, src, lba) ==
  [b \in Offsets |-> IF b \div SectorSize = lba THEN src[b % SectorSize] ELSE d[b]]

\* memcpy(buf + at, src, len)
Patch(buf, at, src, len) ==
  [x \in Temp |-> IF x \in at .. at + len - 1 THEN src[x - at] ELSE buf[x]]

\* The caller's buffer of len bytes, advanced by `at'.
Advanced(src, at, len) == [x \in 0 .. len - at - 1 |-> src[at + x]]

(* The three parts of a transfer of len bytes at off.                      *)

\* The first part, when off is not on a sector boundary.
HeadLen(off, len) ==
  IF off % SectorSize = 0 THEN 0
  ELSE IF len < SectorSize THEN len ELSE SectorSize - (off % SectorSize)

WholeSectors(off, len) == (len - HeadLen(off, len)) \div SectorSize

\* Where the last part begins, and how long it is.
TailAt(off, len)  == HeadLen(off, len) + WholeSectors(off, len) * SectorSize
TailLen(off, len) == len - TailAt(off, len)

SAL_write_unaligned(s, src, off, len) ==
  LET lba == off \div SectorSize
      t   == Patch(read_sector(s.disk, s.temp, lba), off % SectorSize, src, len)
  IN  [temp |-> t, disk |-> write_sector(s.disk, t, lba)]

\* Wrong on purpose: the caller's buffer is not advanced past the first part.
WriteWholeFromStart(d, src, off, len) ==
  LET first == (off + HeadLen(off, len)) \div SectorSize
  IN  [b \in Offsets |->
         IF b \div SectorSize \in first .. first + WholeSectors(off, len) - 1
         THEN src[b - first * SectorSize] ELSE d[b]]

\* The loop over whole sectors.
WriteWhole(d, src, off, len) ==
  LET h     == HeadLen(off, len)
      first == (off + h) \div SectorSize
  IN  [b \in Offsets |->
         IF b \div SectorSize \in first .. first + WholeSectors(off, len) - 1
         THEN src[h + (b - first * SectorSize)] ELSE d[b]]

WriteEffect(src, off, len) ==
  LET s0 == [disk |-> disk, temp |-> wtemp]
      s1 == IF off % SectorSize = 0 THEN s0
            ELSE SAL_write_unaligned(s0, src, off, HeadLen(off, len))
      s2 == [s1 EXCEPT !.disk = WriteWhole(@, src, off, len)]
      at == TailAt(off, len)
  IN  IF TailLen(off, len) = 0 THEN s2
      ELSE SAL_write_unaligned(s2, Advanced(src, at, len), off + at, TailLen(off, len))

\* What SAL_read leaves in rtemp, and the bytes it delivers.
ReadHead(off) == IF off % SectorSize = 0 THEN rtemp
                 ELSE read_sector(disk, rtemp, off \div SectorSize)

\* Wrong on purpose: the last part is taken from the sector of the first.
ReadTailAtStart(off, len) ==
  IF TailLen(off, len) = 0 THEN ReadHead(off)
  ELSE read_sector(disk, ReadHead(off), off \div SectorSize)

ReadTail(off, len) ==
  IF TailLen(off, len) = 0 THEN ReadHead(off)
  ELSE read_sector(disk, ReadHead(off), (off + TailAt(off, len)) \div SectorSize)

ReadBytes(off, len) ==
  LET h  == HeadLen(off, len)
      at == TailAt(off, len)
  IN  [x \in 0 .. len - 1 |->
         IF x < h THEN ReadHead(off)[(off % SectorSize) + x]
         ELSE IF x < at
         THEN disk[((off + h) \div SectorSize) * SectorSize + (x - h)]
         ELSE ReadTail(off, len)[((off + at) % SectorSize) + (x - at)]]

-----------------------------------------------------------------------------
Straddles(off, len) ==
  len < SectorSize /\ (off % SectorSize) + len > SectorSize

Transfer(off, len) == /\ off + len <= SectorSize * NumSectors
                      /\ Straddles(off, len) => Straddling

\* The caller's buffer holds v, v + 1, ...
SAL_write(off, len, v) ==
  LET src == [x \in 0 .. len - 1 |-> (v + x) % (MaxByte + 1)]
      s == WriteEffect(src, off, len)
  IN
  /\ Transfer(off, len)
  /\ disk' = s.disk /\ wtemp' = s.temp
  /\ image' = [b \in Offsets |->
                 IF b \in off .. off + len - 1 THEN src[b - off] ELSE image[b]]
  /\ UNCHANGED rtemp

SAL_read(off, len) ==
  /\ Transfer(off, len)
  /\ rtemp' = ReadTail(off, len)
  /\ UNCHANGED <<disk, wtemp, image>>

SALInit == /\ disk = [b \in Offsets |-> 0] /\ image = disk
        /\ wtemp = [x \in Temp |-> 0] /\ rtemp = wtemp

SALNext == \E off \in Offsets, len \in 0 .. SectorSize * NumSectors :
          SAL_read(off, len) \/ \E v \in Byte : SAL_write(off, len, v)

SALSpec == SALInit /\ [][SALNext]_salVars

-----------------------------------------------------------------------------
\* `easily read/write at arbitrary offsets and lengths': SAL_write's head,
\* sectors and tail together change the bytes off .. off + len - 1 and no
\* others, however the transfer lies to the sectors.
DiskIsImage == disk = image

\* SAL_read delivers what was last written to each of its bytes, whatever
\* earlier calls left in the static buffer.
ReadsBack ==
  \A off \in Offsets, len \in 0 .. SectorSize * NumSectors :
    Transfer(off, len) =>
      ReadBytes(off, len) = [x \in 0 .. len - 1 |-> image[off + x]]
=============================================================================
