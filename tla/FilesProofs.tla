---------------------------- MODULE FilesProofs ----------------------------
(***************************************************************************)
(* The layers that a file goes through, for every size and content: SAL    *)
(* addresses a device of sectors by the byte, FAT entries keep what was    *)
(* stored in them, the parts of a volume do not meet, virtual files return *)
(* what was written to them, and VFS finds each name under one vnode and   *)
(* each open file behind a descriptor of its own.                          *)
(***************************************************************************)
EXTENDS SAL, FATLayout, VFM, VFS, Induction, SequenceTheorems

-----------------------------------------------------------------------------
(* Sectors addressed by the byte                                         *)

-----------------------------------------------------------------------------
(* Division by the size of a sector                                        *)

LEMMA SectorSplit ==
  ASSUME NEW b \in Nat
  PROVE  /\ b % SectorSize \in 0 .. SectorSize - 1
         /\ b \div SectorSize \in Nat
         /\ b = (b \div SectorSize) * SectorSize + (b % SectorSize)
  BY SALAssumption DEF SALAssumption

\* The sector of a byte is the only number of its kind.
LEMMA SectorIs ==
  ASSUME NEW b \in Nat, NEW q \in Nat, NEW r \in 0 .. SectorSize - 1,
         b = q * SectorSize + r
  PROVE  b \div SectorSize = q /\ b % SectorSize = r
  BY Quotient, SALAssumption DEF SALAssumption

\* The bytes of w sectors from number f on.
LEMMA InSectors ==
  ASSUME NEW b \in Nat, NEW f \in Nat, NEW w \in Nat
  PROVE  b \div SectorSize \in f .. f + w - 1
           <=> f * SectorSize <= b /\ b < f * SectorSize + w * SectorSize
  <1> DEFINE s == SectorSize
             p == b \div s
             t == b % s
  <1>1. s \in Nat /\ p \in Nat /\ t \in 0 .. s - 1 /\ b = p * s + t
    BY SectorSplit, SALAssumption DEF SALAssumption
  <1>2. (f + w) * s = f * s + w * s
    BY <1>1
  <1> HIDE DEF s, p, t
  <1>3. ASSUME p \in f .. f + w - 1  PROVE f * s <= b /\ b < f * s + w * s
    <2>1. f * s <= p * s /\ (p + 1) * s <= (f + w) * s /\ (p + 1) * s = p * s + s
      BY <1>1, <1>3, Monotone
    <2> QED  BY <1>1, <1>2, <2>1
  <1>4. ASSUME f * s <= b, b < f * s + w * s  PROVE p \in f .. f + w - 1
    <2>1. ASSUME p + 1 <= f  PROVE FALSE
      <3>1. (p + 1) * s <= f * s /\ (p + 1) * s = p * s + s
        BY <1>1, <2>1, Monotone
      <3> QED  BY <1>1, <1>4, <3>1
    <2>2. ASSUME f + w <= p  PROVE FALSE
      <3>1. (f + w) * s <= p * s
        BY <1>1, <2>2, Monotone
      <3> QED  BY <1>1, <1>2, <1>4, <3>1
    <2> QED  BY <1>1, <2>1, <2>2
  <1> QED  BY <1>3, <1>4 DEF p, s

-----------------------------------------------------------------------------
(* The parts of a transfer                                                 *)

Medium(d) == d = [b \in Offsets |-> d[b]]

\* A transfer as clients make it when they keep to sectors in short ones.
Fits(off, len) ==
  /\ off \in Offsets /\ len \in 0 .. SectorSize * NumSectors
  /\ off + len <= SectorSize * NumSectors
  /\ ~Straddles(off, len)

\* The head ends in the sector it starts in; the rest, if there is one, starts
\* at a sector and the tail is shorter than one.
LEMMA Parts ==
  ASSUME NEW off, NEW len, Fits(off, len)
  PROVE  LET h == HeadLen(off, len)
             w == WholeSectors(off, len)
             f == (off + h) \div SectorSize
         IN  /\ h \in 0 .. len /\ w \in Nat /\ f \in Nat
             /\ (off % SectorSize) + h <= SectorSize
             /\ off % SectorSize = 0 => h = 0
             /\ TailAt(off, len) = h + w * SectorSize
             /\ TailLen(off, len) = len - (h + w * SectorSize)
             /\ TailLen(off, len) \in 0 .. SectorSize - 1
             /\ h = len \/ off + h = f * SectorSize
             /\ h = len => w = 0
  <1> DEFINE s == SectorSize
             h == HeadLen(off, len)
             w == WholeSectors(off, len)
             f == (off + h) \div s
             q == off \div s
             r == off % s
  <1>1. s \in Nat \ {0} /\ off \in Nat /\ len \in Nat
    BY SALAssumption DEF SALAssumption, Fits, Offsets
  <1>2. r \in 0 .. s - 1 /\ q \in Nat /\ off = q * s + r
    BY <1>1, SectorSplit
  <1>3. ~(len < s /\ r + len > s)
    BY DEF Fits, Straddles
  <1>4. h = IF r = 0 THEN 0 ELSE IF len < s THEN len ELSE s - r
    BY DEF HeadLen
  <1>5. h \in 0 .. len /\ r + h <= s /\ (r = 0 => h = 0)
    BY <1>1, <1>2, <1>3, <1>4
  <1>6. w = (len - h) \div s
    BY DEF WholeSectors
  <1>7. /\ w \in Nat /\ (len - h) % s \in 0 .. s - 1
        /\ len - h = w * s + ((len - h) % s)
    BY <1>1, <1>5, <1>6, SectorSplit, SMTT(30)
  <1>8. f \in Nat
    BY <1>1, <1>5, SectorSplit
  <1>9. TailAt(off, len) = h + w * s /\ TailLen(off, len) = len - (h + w * s)
    BY DEF TailAt, TailLen
  <1>10. TailLen(off, len) \in 0 .. s - 1
    BY <1>1, <1>5, <1>7, <1>9
  <1>11. h = len \/ off + h = f * s
    <2>1. CASE r = 0
      <3>1. h = 0 /\ off + h = q * s + 0
        BY <1>1, <1>2, <1>4, <2>1
      <3>2. f = q
        BY <1>1, <1>2, <3>1, SectorIs
      <3> QED  BY <1>1, <1>2, <3>1, <3>2
    <2>2. CASE r # 0 /\ len >= s
      <3>1. h = s - r /\ off + h = (q + 1) * s + 0
        BY <1>1, <1>2, <1>4, <2>2
      <3>2. f = q + 1
        BY <1>1, <1>2, <1>5, <3>1, SectorIs
      <3> QED  BY <1>1, <1>2, <3>1, <3>2
    <2>3. CASE r # 0 /\ len < s
      BY <1>4, <2>3
    <2> QED  BY <1>1, <1>2, <2>1, <2>2, <2>3
  <1>12. h = len => w = 0
    <2> SUFFICES ASSUME h = len  PROVE w = 0
      OBVIOUS
    <2>1. 0 = 0 * s + 0
      BY <1>1
    <2>2. len - h = 0
      BY <1>1
    <2> QED  BY <1>1, <1>6, <2>1, <2>2, SectorIs
  <1> QED  BY <1>5, <1>7, <1>8, <1>9, <1>10, <1>11, <1>12

-----------------------------------------------------------------------------
(* Writing                                                                 *)

\* What a write means to a device that is addressed by the byte.
Bytes(d, src, off, len) ==
  [b \in Offsets |-> IF b \in off .. off + len - 1 THEN src[b - off] ELSE d[b]]

LEMMA Unaligned ==
  ASSUME NEW s, NEW src, NEW off \in Offsets, NEW len \in Nat,
         (off % SectorSize) + len <= SectorSize
  PROVE  SAL_write_unaligned(s, src, off, len).disk = Bytes(s.disk, src, off, len)
  <1> DEFINE q == off \div SectorSize
             r == off % SectorSize
             in == read_sector(s.disk, s.temp, q)
             t == Patch(in, r, src, len)
  <1>1. /\ SectorSize \in Nat \ {0} /\ TempSize \in Nat /\ SectorSize <= TempSize
        /\ off \in Nat /\ Offsets \subseteq Nat
    BY SALAssumption DEF SALAssumption, Offsets
  <1>2. q \in Nat /\ r \in 0 .. SectorSize - 1 /\ off = q * SectorSize + r
    BY <1>1, SectorSplit
  <1>3. SAL_write_unaligned(s, src, off, len).disk = write_sector(s.disk, t, q)
    BY DEF SAL_write_unaligned
  <1>4. ASSUME NEW b \in Offsets
        PROVE  (IF b \div SectorSize = q THEN t[b % SectorSize] ELSE s.disk[b])
                 = IF b \in off .. off + len - 1 THEN src[b - off] ELSE s.disk[b]
    <2> DEFINE x == b % SectorSize
    <2>1. b \in Nat /\ x \in 0 .. SectorSize - 1
      BY <1>1, SectorSplit
    <2>2. CASE b \div SectorSize = q
      <3>1. b = q * SectorSize + x
        BY <2>1, <2>2, SectorSplit
      <3>2. x \in Temp
        BY <1>1, <2>1 DEF Temp
      <3>3. in[x] = s.disk[b]
        <4> HIDE DEF x, q
        <4> QED  BY <1>1, <2>1, <3>1, <3>2 DEF read_sector, in
      <3>4. t[x] = IF x \in r .. r + len - 1 THEN src[x - r] ELSE in[x]
        BY <3>2 DEF Patch
      <3> HIDE DEF q, r, in, t, x
      <3>5. (x \in r .. r + len - 1 <=> b \in off .. off + len - 1) /\ x - r = b - off
        BY <1>1, <1>2, <2>1, <3>1
      <3> QED  BY <2>2, <3>3, <3>4, <3>5 DEF x
    <2>3. CASE b \div SectorSize # q
      <3>1. ~(q * SectorSize <= b /\ b < q * SectorSize + 1 * SectorSize)
        <4>1. b \div SectorSize \notin q .. q + 1 - 1
          BY <1>2, <2>1, <2>3, SectorSplit
        <4> QED  BY <1>2, <2>1, <4>1, InSectors
      <3> HIDE DEF q, r
      <3>2. b \notin off .. off + len - 1
        BY <1>1, <1>2, <2>1, <3>1 DEF r
      <3> QED  BY <2>3, <3>2
    <2> QED  BY <2>2, <2>3
  <1> HIDE DEF q, t
  <1>5. write_sector(s.disk, t, q) = Bytes(s.disk, src, off, len)
    BY <1>4 DEF write_sector, Bytes
  <1> QED  BY <1>3, <1>5

\* The loop over whole sectors.
LEMMA Whole ==
  ASSUME NEW d, NEW src, NEW off, NEW len, Fits(off, len)
  PROVE  LET h == HeadLen(off, len)
         IN  WriteWhole(Bytes(d, src, off, h), src, off, len)
               = Bytes(d, src, off, TailAt(off, len))
  <1> DEFINE s == SectorSize
             h == HeadLen(off, len)
             w == WholeSectors(off, len)
             f == (off + h) \div s
             at == TailAt(off, len)
             a == f * s
             m == w * s
  <1>1. s \in Nat \ {0} /\ off \in Nat /\ len \in Nat /\ Offsets \subseteq Nat
    BY SALAssumption DEF SALAssumption, Fits, Offsets
  <1>2. /\ h \in 0 .. len /\ w \in Nat /\ f \in Nat /\ at = h + m
        /\ (h = len \/ off + h = a) /\ (h = len => w = 0)
    BY Parts
  <1>3. h = len => w = 0
    BY Parts
  <1>4. a \in Nat /\ m \in Nat /\ (w = 0 => m = 0)
    <2> HIDE DEF s, h, w, f
    <2> QED  BY <1>1, <1>2
  <1>5. ASSUME NEW b \in Offsets
        PROVE  (IF b \div s \in f .. f + w - 1 THEN src[h + (b - a)] ELSE Bytes(d, src, off, h)[b])
                 = IF b \in off .. off + at - 1 THEN src[b - off] ELSE d[b]
    <2>1. b \in Nat
      BY <1>1
    <2>2. b \div s \in f .. f + w - 1 <=> a <= b /\ b < a + m
      BY <1>2, <2>1, InSectors
    <2>3. Bytes(d, src, off, h)[b] = IF b \in off .. off + h - 1 THEN src[b - off] ELSE d[b]
      BY DEF Bytes
    <2> HIDE DEF s, h, w, f, at, a, m
    <2>4. CASE h = len
      BY <1>1, <1>2, <1>3, <1>4, <2>1, <2>2, <2>3, <2>4
    <2>5. CASE off + h = a
      <3>1. h + (b - a) = b - off
        BY <1>1, <1>2, <1>4, <2>1, <2>5
      <3>2. b \in off .. off + at - 1 <=> b \in off .. off + h - 1 \/ (a <= b /\ b < a + m)
        BY <1>1, <1>2, <1>4, <2>1, <2>5
      <3> QED  BY <2>2, <2>3, <3>1, <3>2
    <2> QED  BY <1>2, <2>4, <2>5
  <1>6. WriteWhole(Bytes(d, src, off, h), src, off, len)
          = [b \in Offsets |-> IF b \div s \in f .. f + w - 1 THEN src[h + (b - a)]
                               ELSE Bytes(d, src, off, h)[b]]
    BY DEF WriteWhole
  <1> HIDE DEF s, h, w, f, at, a
  <1>7. WriteWhole(Bytes(d, src, off, h), src, off, len) = Bytes(d, src, off, at)
    BY <1>5, <1>6 DEF Bytes
  <1> QED  BY <1>7 DEF h, at

\* Where the tail starts, if there is one.
LEMMA LastPart ==
  ASSUME NEW off, NEW len, Fits(off, len), TailLen(off, len) # 0
  PROVE  LET h  == HeadLen(off, len)
             w  == WholeSectors(off, len)
             f  == (off + h) \div SectorSize
             at == TailAt(off, len)
         IN  /\ off + at \in Offsets /\ at \in Nat /\ f + w \in Nat
             /\ off + at = (f + w) * SectorSize
             /\ (off + at) \div SectorSize = f + w /\ (off + at) % SectorSize = 0
             /\ TailLen(off, len) = len - at /\ len - at \in 1 .. SectorSize - 1
  <1> DEFINE s  == SectorSize
             h  == HeadLen(off, len)
             w  == WholeSectors(off, len)
             f  == (off + h) \div s
             at == TailAt(off, len)
  <1>1. s \in Nat \ {0} /\ NumSectors \in Nat \ {0} /\ off \in Nat /\ len \in Nat
    BY SALAssumption DEF SALAssumption, Fits, Offsets
  <1>2. /\ h \in 0 .. len /\ w \in Nat /\ f \in Nat /\ at = h + w * s
        /\ TailLen(off, len) = len - (h + w * s) /\ TailLen(off, len) \in 0 .. s - 1
        /\ h = len \/ off + h = f * s
    BY Parts
  <1>3. h = len => w = 0
    BY Parts
  <1>4. off + len <= s * NumSectors
    BY DEF Fits
  <1>5. at \in Nat /\ TailLen(off, len) = len - at /\ len - at \in 1 .. s - 1
    <2> HIDE DEF s, h, w, f, at
    <2>1. w * s \in Nat
      BY <1>1, <1>2
    <2> QED  BY <1>1, <1>2, <2>1
  <1>6. off + h = f * s
    <2> SUFFICES ASSUME h = len  PROVE FALSE
      BY <1>2
    <2>1. w * s = 0
      BY <1>1, <1>3
    <2> HIDE DEF s, h, w, f, at
    <2> QED  BY <1>1, <1>2, <1>5, <2>1
  <1> HIDE DEF h, w, f, at
  <1>7. f + w \in Nat /\ off + at = (f + w) * s + 0
    <2>1. (f + w) * s = f * s + w * s /\ f * s \in Int /\ w * s \in Int
      BY <1>1, <1>2
    <2> QED  BY <1>1, <1>2, <1>6, <2>1
  <1>8. off + at \in Offsets
    <2>1. off + at < s * NumSectors /\ off + at \in Nat /\ s * NumSectors \in Nat
      BY <1>1, <1>4, <1>5
    <2> QED  BY <2>1 DEF Offsets
  <1>9. (off + at) \div s = f + w /\ (off + at) % s = 0
    <2>1. 0 \in 0 .. s - 1 /\ off + at \in Nat
      BY <1>1, <1>5
    <2> QED  BY <1>7, <2>1, SectorIs
  <1> QED  BY <1>1, <1>5, <1>7, <1>8, <1>9 DEF h, w, f, at

LEMMA BytesWritten ==
  ASSUME NEW off, NEW len, NEW src, Fits(off, len), Medium(disk)
  PROVE  WriteEffect(src, off, len).disk = Bytes(disk, src, off, len)
  <1> DEFINE s  == SectorSize
             h  == HeadLen(off, len)
             at == TailAt(off, len)
             s0 == [disk |-> disk, temp |-> wtemp]
             s1 == IF off % s = 0 THEN s0 ELSE SAL_write_unaligned(s0, src, off, h)
             s2 == [s1 EXCEPT !.disk = WriteWhole(@, src, off, len)]
             rest == Advanced(src, at, len)
  <1>1. /\ s \in Nat \ {0} /\ off \in Offsets /\ off \in Nat /\ len \in Nat
        /\ Offsets \subseteq Nat
    BY SALAssumption DEF SALAssumption, Fits, Offsets
  <1>2. h \in 0 .. len /\ (off % s) + h <= s /\ (off % s = 0 => h = 0)
    BY Parts
  <1>3. s1.disk = Bytes(disk, src, off, h)
    <2>1. CASE off % s = 0
      <3>1. Bytes(disk, src, off, 0) = disk
        BY <1>1 DEF Bytes, Medium
      <3> QED  BY <1>2, <2>1, <3>1
    <2>2. CASE off % s # 0
      <3>1. h \in Nat
        BY <1>1, <1>2
      <3>2. SAL_write_unaligned(s0, src, off, h).disk = Bytes(s0.disk, src, off, h)
        BY <1>1, <1>2, <3>1, Unaligned
      <3> QED  BY <2>2, <3>2
    <2> QED  BY <2>1, <2>2
  <1>4. s2.disk = WriteWhole(s1.disk, src, off, len)
    BY DEF SAL_write_unaligned
  <1>5. s2.disk = Bytes(disk, src, off, at)
    BY <1>3, <1>4, Whole
  <1>6. WriteEffect(src, off, len) =
          IF TailLen(off, len) = 0 THEN s2
          ELSE SAL_write_unaligned(s2, rest, off + at, TailLen(off, len))
    BY DEF WriteEffect
  <1>7. CASE TailLen(off, len) = 0
    <2>1. at = len
      <3>1. TailLen(off, len) = len - at /\ at \in Int
        <4>1. TailLen(off, len) = len - at
          BY DEF TailLen
        <4>2. at = h + WholeSectors(off, len) * s /\ WholeSectors(off, len) \in Nat
          BY Parts
        <4> QED  BY <1>1, <1>2, <4>1, <4>2
      <3> QED  BY <1>1, <1>7, <3>1
    <2> QED  BY <1>5, <1>6, <1>7, <2>1
  <1>8. CASE TailLen(off, len) # 0
    <2>1. /\ off + at \in Offsets /\ at \in Nat /\ (off + at) % s = 0
          /\ TailLen(off, len) = len - at /\ len - at \in 1 .. s - 1
      BY <1>8, LastPart
    <2> HIDE DEF s, h, at, s1, s2
    <2>2. SAL_write_unaligned(s2, rest, off + at, len - at).disk
            = Bytes(s2.disk, rest, off + at, len - at)
      BY <1>1, <2>1, Unaligned DEF s
    <2>3. ASSUME NEW b \in Offsets
          PROVE  (IF b \in off + at .. off + at + (len - at) - 1 THEN rest[b - (off + at)]
                  ELSE IF b \in off .. off + at - 1 THEN src[b - off] ELSE disk[b])
                   = IF b \in off .. off + len - 1 THEN src[b - off] ELSE disk[b]
      <3>1. b \in Nat
        BY <1>1
      <3>2. CASE b \in off + at .. off + at + (len - at) - 1
        <4>1. b - (off + at) \in 0 .. len - at - 1 /\ at + (b - (off + at)) = b - off
          BY <1>1, <2>1, <3>1, <3>2
        <4>2. rest[b - (off + at)] = src[b - off]
          BY <4>1 DEF Advanced
        <4> QED  BY <1>1, <2>1, <3>1, <3>2, <4>2
      <3>3. CASE b \notin off + at .. off + at + (len - at) - 1
        BY <1>1, <2>1, <3>1, <3>3
      <3> QED  BY <3>2, <3>3
    <2>4. Bytes(s2.disk, rest, off + at, len - at) = Bytes(disk, src, off, len)
      BY <1>5, <2>3 DEF Bytes
    <2> QED  BY <1>6, <1>8, <2>1, <2>2, <2>4
  <1> QED  BY <1>7, <1>8

-----------------------------------------------------------------------------
(* Reading                                                                 *)

LEMMA BytesRead ==
  ASSUME NEW off, NEW len, Fits(off, len)
  PROVE  ReadBytes(off, len) = [x \in 0 .. len - 1 |-> disk[off + x]]
  <1> DEFINE s  == SectorSize
             q  == off \div s
             r  == off % s
             h  == HeadLen(off, len)
             w  == WholeSectors(off, len)
             f  == (off + h) \div s
             at == TailAt(off, len)
  <1>1. /\ s \in Nat \ {0} /\ off \in Nat /\ len \in Nat
        /\ TempSize \in Nat /\ s <= TempSize
    BY SALAssumption DEF SALAssumption, Fits, Offsets
  <1>2. r \in 0 .. s - 1 /\ q \in Nat /\ off = q * s + r
    BY <1>1, SectorSplit
  <1>3. /\ h \in 0 .. len /\ w \in Nat /\ f \in Nat /\ r + h <= s /\ (r = 0 => h = 0)
        /\ at = h + w * s /\ TailLen(off, len) = len - at
        /\ h = len \/ off + h = f * s
    BY Parts
  <1>4. ASSUME NEW x \in 0 .. len - 1
        PROVE  (IF x < h THEN ReadHead(off)[r + x]
                ELSE IF x < at THEN disk[f * s + (x - h)]
                ELSE ReadTail(off, len)[((off + at) % s) + (x - at)]) = disk[off + x]
    <2>1. CASE x < h
      <3>1. r # 0 /\ r + x \in Temp /\ r + x < s /\ q * s + (r + x) = off + x
        <4> HIDE DEF s, q, r, h, w, f, at
        <4> QED  BY <1>1, <1>2, <1>3, <2>1 DEF Temp
      <3>2. ReadHead(off) = read_sector(disk, rtemp, q)
        BY <3>1 DEF ReadHead
      <3> HIDE DEF s, q, r, h, w, f, at
      <3> QED  BY <2>1, <3>1, <3>2 DEF read_sector, s
    <2>2. CASE ~(x < h) /\ x < at
      <3> HIDE DEF s, q, r, h, w, f, at
      <3>1. off + h = f * s
        BY <1>1, <1>3, <2>2
      <3>2. f * s + (x - h) = off + x
        BY <1>1, <1>3, <3>1
      <3> QED  BY <2>2, <3>2
    <2>3. CASE ~(x < h) /\ ~(x < at)
      <3>0. at \in Nat
        <4> HIDE DEF s, q, r, h, w, f, at
        <4> QED  BY <1>1, <1>3
      <3>1. TailLen(off, len) # 0
        <4> HIDE DEF s, q, r, h, w, f, at
        <4> QED  BY <1>1, <1>3, <2>3, <3>0
      <3>2. /\ off + at = (f + w) * s /\ (off + at) \div s = f + w
            /\ (off + at) % s = 0 /\ len - at \in 1 .. s - 1
        BY <3>1, LastPart
      <3>3. ReadTail(off, len) = read_sector(disk, ReadHead(off), f + w)
        BY <3>1, <3>2 DEF ReadTail
      <3> HIDE DEF s, q, r, h, w, f, at
      <3>4. x - at \in Temp /\ x - at < s
        BY <1>1, <2>3, <3>0, <3>2 DEF Temp
      <3>5. ((off + at) % s) + (x - at) = x - at /\ (f + w) * s + (x - at) = off + x
        BY <1>1, <3>0, <3>2
      <3>6. ReadTail(off, len)[x - at] = disk[off + x]
        BY <3>3, <3>4, <3>5 DEF read_sector, s
      <3> QED  BY <2>3, <3>5, <3>6
    <2> QED  BY <2>1, <2>2, <2>3
  <1> QED  BY <1>4 DEF ReadBytes

-----------------------------------------------------------------------------
(* The invariant                                                           *)

SALInv == disk = image /\ Medium(disk)

LEMMA SALStarts == SALInit => SALInv
  BY DEF SALInit, SALInv, Medium

LEMMA SALSteps ==
  ASSUME ~Straddling, SALInv, [SALNext]_salVars  PROVE SALInv'
  <1>1. ASSUME NEW off \in Offsets, NEW len \in 0 .. SectorSize * NumSectors, SAL_read(off, len)
        PROVE  SALInv'
    BY <1>1 DEF SAL_read, SALInv, Medium
  <1>2. ASSUME NEW off \in Offsets, NEW len \in 0 .. SectorSize * NumSectors, NEW v \in Byte,
               SAL_write(off, len, v)
        PROVE  SALInv'
    <2> DEFINE src == [x \in 0 .. len - 1 |-> (v + x) % (MaxByte + 1)]
    <2>1. Fits(off, len)
      BY <1>2 DEF SAL_write, Transfer, Fits
    <2>2. disk' = WriteEffect(src, off, len).disk /\ image' = Bytes(image, src, off, len)
      BY <1>2 DEF SAL_write, Bytes
    <2> HIDE DEF src
    <2>3. disk' = Bytes(disk, src, off, len)
      BY <2>1, <2>2, BytesWritten DEF SALInv
    <2>4. Medium(disk')
      BY <2>3 DEF Bytes, Medium
    <2> QED  BY <2>2, <2>3, <2>4 DEF SALInv
  <1>3. CASE UNCHANGED salVars
    BY <1>3 DEF salVars, SALInv, Medium
  <1> QED  BY <1>1, <1>2, <1>3 DEF SALNext

\* The head, the whole sectors and the tail of SAL_write change the bytes of the
\* transfer and no others, if no short transfer crosses the end of a sector.
THEOREM SectorsAreBytes ==
  ASSUME ~Straddling  PROVE SALSpec => []DiskIsImage
  <1>1. SALInv => DiskIsImage
    BY DEF SALInv, DiskIsImage
  <1>2. SALInv /\ [SALNext]_salVars => SALInv'
    BY SALSteps
  <1> QED  BY SALStarts, <1>1, <1>2, PTL DEF SALSpec

\* SAL_read delivers what was last written to each byte, whatever is in the
\* static buffers.
THEOREM SectorsReadBack ==
  ASSUME ~Straddling  PROVE SALSpec => []ReadsBack
  <1>1. SALInv => ReadsBack
    <2> SUFFICES ASSUME SALInv, NEW off \in Offsets, NEW len \in 0 .. SectorSize * NumSectors,
                        Transfer(off, len)
                 PROVE  ReadBytes(off, len) = [x \in 0 .. len - 1 |-> image[off + x]]
      BY DEF ReadsBack
    <2>1. Fits(off, len)
      BY DEF Transfer, Fits
    <2> QED  BY <2>1, BytesRead DEF SALInv
  <1>2. SALInv /\ [SALNext]_salVars => SALInv'
    BY SALSteps
  <1> QED  BY SALStarts, <1>1, <1>2, PTL DEF SALSpec

-----------------------------------------------------------------------------
(* The entries of a FAT                                                  *)

Digit == 0 .. 15

\* The first digit of an entry: both parities of a FAT12 cluster come to this.
First(c) == IF type = "FAT_12" THEN 3 * c ELSE 4 * c
Own(c)   == First(c) .. First(c) + Width - 1

\* The i-th digit of a number, and the number that the digits of an entry make.
Nth(n, i) == CASE i = 0 -> n % 16
               [] i = 1 -> (n \div 16) % 16
               [] i = 2 -> (n \div 256) % 16
               [] i = 3 -> (n \div 4096) % 16

Number(t, p) == t[p] + 16 * t[p + 1] + 256 * t[p + 2]
                  + (IF type = "FAT_12" THEN 0 ELSE 4096 * t[p + 3])

\* What a table may be asked to store: numbers below the marks, or the mark.
Stored == {v \in Nat : v < 4088} \cup {EndMark}

EntryInv == /\ type \in {"FAT_12", "FAT_16"}
       /\ digits \in [Places -> Digit] /\ want \in [Cluster -> Stored]
       /\ \A c \in Cluster : ~Torn(c) => Number(digits, First(c)) = want[c] % Base^Width

-----------------------------------------------------------------------------
LEMMA Powers ==
  ASSUME Base = 16
  PROVE  /\ Base^0 = 1 /\ Base^1 = 16 /\ Base^2 = 256 /\ Base^3 = 4096 /\ Base^4 = 65536
         /\ Base^8 = 4294967296
  OBVIOUS

\* The cut to the width of an entry.
LEMMA Widths ==
  ASSUME Base = 16, type \in {"FAT_12", "FAT_16"}
  PROVE  /\ type = "FAT_12" => Width = 3 /\ Base^Width = 4096
         /\ type = "FAT_16" => Width = 4 /\ Base^Width = 65536
         /\ EndMark = 4294967295
  BY Powers DEF Width, EndMark

LEMMA Parity ==
  ASSUME NEW c \in Nat
  PROVE  /\ c % 2 = 1 => c + (c \div 2) \in Nat /\ 2 * (c + (c \div 2)) = 3 * c - 1
         /\ c % 2 # 1 => c + (c \div 2) \in Nat /\ 2 * (c + (c \div 2)) = 3 * c
  OBVIOUS

\* The digits of the entries are apart from each other.
LEMMA Apart ==
  ASSUME Base = 16, type \in {"FAT_12", "FAT_16"}, NEW c \in Cluster, NEW d \in Cluster, c # d,
         NEW p \in Own(d)
  PROVE  p \notin Own(c)
  <1>1. c \in Nat /\ d \in Nat /\ (c < d \/ d < c)
    BY FATEntryAssumption DEF FATEntryAssumption, Cluster
  <1> QED  BY <1>1, Widths DEF Own, First

-----------------------------------------------------------------------------
\* What the second byte adds to the number that is read.
Upper(off, x, y) == IF Splits(off) THEN 0 ELSE 256 * x + 4096 * y

LEMMA EntryBytes ==
  ASSUME Base = 16, NEW t \in [Places -> Digit], NEW off \in Nat, 2 * off + 3 \in Places
  PROVE  /\ \A i \in 0 .. 3 : 2 * off + i \in Places
         /\ t[2 * off] \in Digit /\ t[2 * off + 1] \in Digit
         /\ t[2 * off + 2] \in Digit /\ t[2 * off + 3] \in Digit
         /\ Read2(t, off) = t[2 * off] + 16 * t[2 * off + 1]
              + Upper(off, t[2 * off + 2], t[2 * off + 3])
  <1>1. \A i \in 0 .. 3 : 2 * off + i \in Places
    BY FATEntryAssumption DEF FATEntryAssumption, Places
  <1>2. \A i \in 0 .. 3 : t[2 * off + i] \in Digit
    BY <1>1
  <1>3. 2 * off + 0 = 2 * off
    OBVIOUS
  <1>4. /\ t[2 * off] \in Digit /\ t[2 * off + 1] \in Digit
        /\ t[2 * off + 2] \in Digit /\ t[2 * off + 3] \in Digit
    BY <1>2, <1>3
  <1>5. Read2(t, off) = t[2 * off] + 16 * t[2 * off + 1]
                          + Upper(off, t[2 * off + 2], t[2 * off + 3])
    BY Powers DEF Read2, Upper
  <1> QED  BY <1>1, <1>4, <1>5

\* Where the entry of a cluster is.
LEMMA Offset ==
  ASSUME NEW c \in Cluster, type \in {"FAT_12", "FAT_16"}
  PROVE  /\ c \in Nat /\ FAT_get_offset(c) \in Nat /\ 2 * FAT_get_offset(c) + 3 \in Places
         /\ 2 * FAT_get_offset(c) =
              IF type = "FAT_12" /\ c % 2 = 1 THEN First(c) - 1 ELSE First(c)
  <1>1. c \in Nat /\ MaxCluster \in Nat /\ c <= MaxCluster
    BY FATEntryAssumption DEF FATEntryAssumption, Cluster
  <1>2. CASE type = "FAT_12"
    BY <1>1, <1>2, Parity DEF FAT_get_offset, First, Places
  <1>3. CASE type = "FAT_16"
    BY <1>1, <1>3 DEF FAT_get_offset, First, Places
  <1> QED  BY <1>2, <1>3

\* FAT_get_entry takes the digits of the entry and no others.
LEMMA GetIs ==
  ASSUME Base = 16, type \in {"FAT_12", "FAT_16"}, NEW t \in [Places -> Digit],
         NEW c \in Cluster, ~Torn(c)
  PROVE  FAT_get_entry(t, c) = Number(t, First(c))
  <1> DEFINE off == FAT_get_offset(c)
             a == t[2 * off]
             b == t[2 * off + 1]
             d == t[2 * off + 2]
             e == t[2 * off + 3]
  <1>1. off \in Nat /\ c \in Nat /\ 2 * off + 3 \in Places
    BY Offset
  <1> HIDE DEF off
  <1>2. /\ a \in Nat /\ b \in Nat /\ d \in Nat /\ e \in Nat
        /\ a < 16 /\ b < 16 /\ d < 16 /\ e < 16
        /\ Read2(t, off) = a + 16 * b + 256 * d + 4096 * e
    <2>1. ~Splits(off)
      BY DEF Torn, off
    <2>2. /\ a \in Digit /\ b \in Digit /\ d \in Digit /\ e \in Digit
          /\ Read2(t, off) = a + 16 * b + Upper(off, d, e)
      BY <1>1, EntryBytes
    <2> HIDE DEF a, b, d, e
    <2>3. Read2(t, off) = a + 16 * b + (256 * d + 4096 * e)
      BY <2>1, <2>2 DEF Upper
    <2> QED  BY <2>2, <2>3 DEF Digit
  <1> HIDE DEF a, b, d, e
  <1>3. CASE type = "FAT_12" /\ c % 2 = 1
    <2>1. First(c) = 2 * off + 1
      BY <1>1, <1>3, Offset DEF off, First
    <2>2. First(c) + 1 = 2 * off + 2 /\ First(c) + 2 = 2 * off + 3
      BY <1>1, <2>1
    <2>3. Number(t, First(c)) = b + 16 * d + 256 * e
      BY <1>2, <1>3, <2>1, <2>2 DEF Number, b, d, e
    <2>4. Read2(t, off) \div 16 = b + 16 * d + 256 * e
      BY <1>2
    <2> QED  BY <1>3, <2>3, <2>4 DEF FAT_get_entry, off
  <1>4. CASE type = "FAT_12" /\ c % 2 # 1
    <2>1. First(c) = 2 * off
      BY <1>1, <1>4, Offset DEF off, First
    <2>2. Number(t, First(c)) = a + 16 * b + 256 * d
      BY <1>2, <1>4, <2>1 DEF Number, a, b, d
    <2>3. Read2(t, off) % 4096 = a + 16 * b + 256 * d
      BY <1>2
    <2> QED  BY <1>4, <2>2, <2>3, Powers DEF FAT_get_entry, off
  <1>5. CASE type = "FAT_16"
    <2>1. First(c) = 2 * off
      BY <1>1, <1>5, Offset DEF off, First
    <2>2. Number(t, First(c)) = Read2(t, off)
      BY <1>2, <1>5, <2>1 DEF Number, a, b, d, e
    <2> QED  BY <1>5, <2>2 DEF FAT_get_entry, off
  <1> QED  BY <1>3, <1>4, <1>5

-----------------------------------------------------------------------------
LEMMA NthIs ==
  ASSUME NEW n \in Nat, NEW i \in 0 .. 3
  PROVE  Nth(n, i) \in Digit
  BY DEF Nth, Digit

\* An odd FAT12 entry is shifted behind the digit of its neighbour.
LEMMA Shifted ==
  ASSUME NEW v \in Nat, NEW x \in Digit, NEW n, n = v * 16 + x
  PROVE  /\ n \in Nat /\ Nth(n, 0) = x
         /\ Nth(n, 1) = Nth(v, 0) /\ Nth(n, 2) = Nth(v, 1) /\ Nth(n, 3) = Nth(v, 2)
  <1>1. n \in Nat /\ x \in Nat /\ x < 16
    BY DEF Digit
  <1>2. n % 16 = x /\ n \div 16 = v
    BY <1>1
  <1>3. n \div 256 = v \div 16
    BY <1>1
  <1>4. n \div 4096 = v \div 256
    BY <1>1
  <1> QED  BY <1>1, <1>2, <1>3, <1>4 DEF Nth

\* An even one leaves the digit of its neighbour on top.
LEMMA Topped ==
  ASSUME NEW v \in Nat, NEW y \in Digit, NEW n, n = (v % 4096) + y * 4096
  PROVE  /\ n \in Nat /\ Nth(n, 3) = y
         /\ Nth(n, 0) = Nth(v, 0) /\ Nth(n, 1) = Nth(v, 1) /\ Nth(n, 2) = Nth(v, 2)
  <1>1. n \in Nat /\ y \in Nat /\ y < 16
    BY DEF Digit
  <1>2. (n \div 4096) % 16 = y
    BY <1>1
  <1>3. n % 16 = v % 16
    BY <1>1
  <1>4. (n \div 16) % 16 = (v \div 16) % 16
    BY <1>1
  <1>5. (n \div 256) % 16 = (v \div 256) % 16
    BY <1>1
  <1> QED  BY <1>1, <1>2, <1>3, <1>4, <1>5 DEF Nth

\* SAL_write of two bytes, of which the second may be lost.
LEMMA WriteIs ==
  ASSUME Base = 16, NEW t \in [Places -> Digit], NEW off \in Nat, NEW n \in Nat,
         2 * off + 3 \in Places, NEW u, u = Write(t, off, 4, n)
  PROVE  /\ u \in [Places -> Digit]
         /\ u[2 * off] = Nth(n, 0) /\ u[2 * off + 1] = Nth(n, 1)
         /\ ~Splits(off) => u[2 * off + 2] = Nth(n, 2) /\ u[2 * off + 3] = Nth(n, 3)
         /\ Splits(off) => \A p \in Places : p \notin 2 * off .. 2 * off + 1 => u[p] = t[p]
         /\ \A p \in Places : p \notin 2 * off .. 2 * off + 3 => u[p] = t[p]
  <1> DEFINE l == IF Splits(off) THEN 2 ELSE 4
             w(p) == IF p \in 2 * off .. 2 * off + l - 1
                     THEN (n \div Base^(p - 2 * off)) % Base ELSE t[p]
  <1>1. \A i \in 0 .. 3 : 2 * off + i \in Places
    BY FATEntryAssumption DEF FATEntryAssumption, Places
  <1>2. u = [p \in Places |-> w(p)] /\ l \in {2, 4} /\ (l = 2 <=> Splits(off))
    BY DEF Write
  <1> HIDE DEF l
  <1>3. ASSUME NEW i \in 0 .. l - 1  PROVE  w(2 * off + i) = Nth(n, i)
    <2>0. i \in 0 .. 3
      BY <1>2
    <2>1. w(2 * off + i) = (n \div Base^i) % Base
      <3>1. (2 * off + i) - 2 * off = i /\ 2 * off + i \in 2 * off .. 2 * off + l - 1
        BY <1>2
      <3> QED  BY <3>1
    <2> HIDE DEF w
    <2>2. ASSUME i = 0  PROVE Nth(n, i) = (n \div Base^i) % Base
      BY <2>2, Powers DEF Nth
    <2>3. ASSUME i = 1  PROVE Nth(n, i) = (n \div Base^i) % Base
      BY <2>3, Powers DEF Nth
    <2>4. ASSUME i = 2  PROVE Nth(n, i) = (n \div Base^i) % Base
      BY <2>4, Powers DEF Nth
    <2>5. ASSUME i = 3  PROVE Nth(n, i) = (n \div Base^i) % Base
      BY <2>5, Powers DEF Nth
    <2>6. Nth(n, i) = (n \div Base^i) % Base
      BY <2>0, <2>2, <2>3, <2>4, <2>5
    <2> QED  BY <2>1, <2>6
  <1>4. \A p \in Places : p \notin 2 * off .. 2 * off + l - 1 => w(p) = t[p]
    OBVIOUS
  <1> HIDE DEF w
  <1>5. ASSUME NEW p \in Places  PROVE  w(p) \in Digit
    <2>1. CASE p \in 2 * off .. 2 * off + l - 1
      <3>1. p - 2 * off \in 0 .. l - 1 /\ p - 2 * off \in 0 .. 3 /\ 2 * off + (p - 2 * off) = p
        BY <1>2, <2>1 DEF Places
      <3>2. w(p) = Nth(n, p - 2 * off)
        BY <1>3, <3>1
      <3>3. Nth(n, p - 2 * off) \in Digit
        BY <3>1, NthIs
      <3> QED  BY <3>2, <3>3
    <2>2. CASE p \notin 2 * off .. 2 * off + l - 1
      BY <1>4, <2>2
    <2> QED  BY <2>1, <2>2
  <1>6. \A i \in 0 .. l - 1 : u[2 * off + i] = Nth(n, i)
    <2>1. \A i \in 0 .. l - 1 : i \in 0 .. 3
      BY <1>2
    <2> QED  BY <1>1, <1>2, <1>3, <2>1
  <1>7. /\ u[2 * off] = Nth(n, 0) /\ u[2 * off + 1] = Nth(n, 1)
        /\ ~Splits(off) => u[2 * off + 2] = Nth(n, 2) /\ u[2 * off + 3] = Nth(n, 3)
    <2>1. 2 * off + 0 = 2 * off /\ 0 \in 0 .. l - 1 /\ 1 \in 0 .. l - 1
      BY <1>2
    <2>2. ~Splits(off) => 2 \in 0 .. l - 1 /\ 3 \in 0 .. l - 1
      BY <1>2
    <2> QED  BY <1>6, <2>1, <2>2
  <1>8. u \in [Places -> Digit]
    BY <1>2, <1>5
  <1>9. \A p \in Places : p \notin 2 * off .. 2 * off + l - 1 => u[p] = t[p]
    BY <1>2, <1>4
  <1>10. Splits(off) => 2 * off + l - 1 = 2 * off + 1
    BY <1>2
  <1>11. \A p \in Places : p \notin 2 * off .. 2 * off + 3 => p \notin 2 * off .. 2 * off + l - 1
    BY <1>2
  <1> QED  BY <1>7, <1>8, <1>9, <1>10, <1>11

-----------------------------------------------------------------------------
\* The digits at the ends of two bytes.
LEMMA Ends ==
  ASSUME Base = 16, NEW t \in [Places -> Digit], NEW off \in Nat, 2 * off + 3 \in Places
  PROVE  /\ ~Splits(off) => Read2(t, off) \div 4096 = t[2 * off + 3]
         /\ Read2(t, off) \div 4096 \in Digit
         /\ Read2(t, off) % 16 = t[2 * off] /\ Read2(t, off) % 16 \in Digit
  <1> DEFINE a == t[2 * off]
             b == t[2 * off + 1]
             d == t[2 * off + 2]
             e == t[2 * off + 3]
  <1>1. /\ a \in Nat /\ b \in Nat /\ d \in Nat /\ e \in Nat
        /\ a < 16 /\ b < 16 /\ d < 16 /\ e < 16
        /\ Read2(t, off) = a + 16 * b + Upper(off, d, e)
    <2>1. /\ a \in Digit /\ b \in Digit /\ d \in Digit /\ e \in Digit
          /\ Read2(t, off) = a + 16 * b + Upper(off, d, e)
      BY EntryBytes
    <2> HIDE DEF a, b, d, e
    <2> QED  BY <2>1 DEF Digit
  <1> HIDE DEF a, b, d, e
  <1>2. /\ Read2(t, off) % 16 = a
        /\ Read2(t, off) \div 4096 = (IF Splits(off) THEN 0 ELSE e)
    <2>1. CASE Splits(off)
      <3>1. Read2(t, off) = a + 16 * b
        BY <1>1, <2>1 DEF Upper
      <3> QED  BY <1>1, <2>1, <3>1
    <2>2. CASE ~Splits(off)
      <3>1. Read2(t, off) = a + 16 * b + 256 * d + 4096 * e
        BY <1>1, <2>2 DEF Upper
      <3> QED  BY <1>1, <2>2, <3>1
    <2> QED  BY <2>1, <2>2
  <1>3. a \in Digit /\ e \in Digit /\ 0 \in Digit
    BY <1>1 DEF Digit
  <1> QED  BY <1>2, <1>3 DEF a, e

\* FAT_set_entry puts the digits of the value into an entry that is not torn,
\* and whether it is or not leaves all other digits of the table alone.
LEMMA SetIs ==
  ASSUME Base = 16, type \in {"FAT_12", "FAT_16"}, NEW t \in [Places -> Digit], NEW c \in Cluster,
         NEW v \in Nat, NEW u, u = FAT_set_entry(t, c, v)
  PROVE  /\ u \in [Places -> Digit]
         /\ \A p \in Places : p \notin Own(c) => u[p] = t[p]
         /\ ~Torn(c) => /\ u[First(c)] = Nth(v, 0) /\ u[First(c) + 1] = Nth(v, 1)
                        /\ u[First(c) + 2] = Nth(v, 2)
                        /\ type = "FAT_16" => u[First(c) + 3] = Nth(v, 3)
  <1> DEFINE off == FAT_get_offset(c)
             e == Read2(t, off)
  <1>1. off \in Nat /\ c \in Nat /\ First(c) \in Nat /\ 2 * off + 3 \in Places
    BY Offset DEF First
  <1>2. 2 * off = IF type = "FAT_12" /\ c % 2 = 1 THEN First(c) - 1 ELSE First(c)
    BY Offset
  <1>3. Own(c) = First(c) .. First(c) + (IF type = "FAT_12" THEN 2 ELSE 3)
    BY <1>1, Widths DEF Own
  <1>0. Torn(c) <=> Splits(off)
    BY DEF Torn
  <1> HIDE DEF off
  <1>4. /\ ~Splits(off) => e \div 4096 = t[2 * off + 3]
        /\ e \div 4096 \in Digit
        /\ e % 16 = t[2 * off] /\ e % 16 \in Digit
    BY <1>1, Ends
  <1> HIDE DEF e
  <1>5. CASE type = "FAT_12" /\ c % 2 = 1
    <2> DEFINE x == e % 16
               n == v * 16 + x
    <2>1. u = Write(t, off, 4, n)
      <3>1. FAT_set_entry(t, c, v) = Write(t, off, 4, v * Base + (e % Base))
        BY <1>5 DEF FAT_set_entry, off, e
      <3>2. Base = 16
        OBVIOUS
      <3> QED  BY <3>1, <3>2, Zenon
    <2>2. /\ n \in Nat /\ Nth(n, 0) = t[2 * off]
          /\ Nth(n, 1) = Nth(v, 0) /\ Nth(n, 2) = Nth(v, 1) /\ Nth(n, 3) = Nth(v, 2)
      <3>1. x \in Digit /\ x = t[2 * off]
        BY <1>4
      <3> HIDE DEF x
      <3> QED  BY <3>1, Shifted
    <2> HIDE DEF n
    <2>3. /\ u \in [Places -> Digit]
          /\ u[2 * off] = t[2 * off] /\ u[2 * off + 1] = Nth(v, 0)
          /\ ~Splits(off) => u[2 * off + 2] = Nth(v, 1) /\ u[2 * off + 3] = Nth(v, 2)
          /\ \A p \in Places : p \notin 2 * off .. 2 * off + 3 => u[p] = t[p]
      BY <1>1, <2>1, <2>2, WriteIs
    <2>4. 2 * off + 1 = First(c) /\ 2 * off + 2 = First(c) + 1 /\ 2 * off + 3 = First(c) + 2
      BY <1>1, <1>2, <1>5
    <2>5. \A p \in Places : p \notin Own(c) => p = 2 * off \/ p \notin 2 * off .. 2 * off + 3
      BY <1>1, <1>3, <1>5, <2>4 DEF Places
    <2> QED  BY <1>0, <1>5, <2>3, <2>4, <2>5
  <1>6. CASE type = "FAT_12" /\ c % 2 # 1
    <2> DEFINE n == (v % 4096) + (e \div 4096) * 4096
    <2>1. u = Write(t, off, 4, n)
      <3>1. FAT_set_entry(t, c, v) =
              Write(t, off, 4, (v % Base^3) + (e \div Base^3) * Base^3)
        BY <1>6 DEF FAT_set_entry, off, e
      <3> QED  BY <3>1, Powers
    <2>2. /\ n \in Nat
          /\ ~Splits(off) => Nth(n, 3) = t[2 * off + 3]
          /\ Nth(n, 0) = Nth(v, 0) /\ Nth(n, 1) = Nth(v, 1) /\ Nth(n, 2) = Nth(v, 2)
      <3> DEFINE y == e \div 4096
      <3>1. y \in Digit /\ (~Splits(off) => y = t[2 * off + 3]) /\ n = (v % 4096) + y * 4096
        BY <1>4
      <3> HIDE DEF y, n
      <3>2. /\ n \in Nat /\ Nth(n, 3) = y
            /\ Nth(n, 0) = Nth(v, 0) /\ Nth(n, 1) = Nth(v, 1) /\ Nth(n, 2) = Nth(v, 2)
        BY <3>1, Topped
      <3> QED  BY <3>1, <3>2
    <2> HIDE DEF n
    <2>3. /\ u \in [Places -> Digit]
          /\ u[2 * off] = Nth(v, 0) /\ u[2 * off + 1] = Nth(v, 1)
          /\ ~Splits(off) => u[2 * off + 2] = Nth(v, 2) /\ u[2 * off + 3] = t[2 * off + 3]
          /\ Splits(off) => \A p \in Places : p \notin 2 * off .. 2 * off + 1 => u[p] = t[p]
          /\ \A p \in Places : p \notin 2 * off .. 2 * off + 3 => u[p] = t[p]
      BY <1>1, <2>1, <2>2, WriteIs
    <2>4. 2 * off = First(c)
      BY <1>2, <1>6
    <2>5. \A p \in Places : p \notin Own(c) =>
            /\ p = 2 * off + 3 \/ p \notin 2 * off .. 2 * off + 3
            /\ p \notin 2 * off .. 2 * off + 1
      BY <1>1, <1>3, <1>6, <2>4 DEF Places
    <2>6. \A p \in Places : p \notin Own(c) => u[p] = t[p]
      BY <2>3, <2>5
    <2> QED  BY <1>0, <1>6, <2>3, <2>4, <2>6
  <1>7. CASE type = "FAT_16"
    <2>1. u = Write(t, off, 4, v)
      BY <1>7 DEF FAT_set_entry, off
    <2>2. /\ u \in [Places -> Digit]
          /\ u[2 * off] = Nth(v, 0) /\ u[2 * off + 1] = Nth(v, 1)
          /\ ~Splits(off) => u[2 * off + 2] = Nth(v, 2) /\ u[2 * off + 3] = Nth(v, 3)
          /\ \A p \in Places : p \notin 2 * off .. 2 * off + 3 => u[p] = t[p]
      BY <1>1, <2>1, WriteIs
    <2>3. 2 * off = First(c)
      BY <1>2, <1>7
    <2>4. Own(c) = 2 * off .. 2 * off + 3
      BY <1>3, <1>7, <2>3
    <2> QED  BY <1>0, <1>7, <2>2, <2>3, <2>4
  <1> QED  BY <1>5, <1>6, <1>7

-----------------------------------------------------------------------------
LEMMA Cut ==
  ASSUME NEW v \in Nat
  PROVE  /\ Nth(v, 0) + 16 * Nth(v, 1) + 256 * Nth(v, 2) = v % 4096
         /\ Nth(v, 0) + 16 * Nth(v, 1) + 256 * Nth(v, 2) + 4096 * Nth(v, 3) = v % 65536
  <1> DEFINE a == v \div 16
             b == v \div 256
             d == v \div 4096
             e == v \div 65536
  <1>1. /\ a \in Nat /\ 16 * a <= v /\ v < 16 * a + 16 /\ v % 16 = v - 16 * a
        /\ b \in Nat /\ 256 * b <= v /\ v < 256 * b + 256
    OBVIOUS
  <1>2. /\ d \in Nat /\ 4096 * d <= v /\ v < 4096 * d + 4096 /\ v % 4096 = v - 4096 * d
        /\ e \in Nat /\ 65536 * e <= v /\ v < 65536 * e + 65536 /\ v % 65536 = v - 65536 * e
    OBVIOUS
  <1>3. /\ Nth(v, 0) = v % 16 /\ Nth(v, 1) = a % 16 /\ Nth(v, 2) = b % 16
        /\ Nth(v, 3) = d % 16
    BY DEF Nth
  <1> HIDE DEF a, b, d, e
  <1>4. 16 * b <= a /\ a < 16 * b + 16 /\ 16 * d <= b /\ b < 16 * d + 16
        /\ 16 * e <= d /\ d < 16 * e + 16
    BY <1>1, <1>2
  <1>5. a % 16 = a - 16 * b
    BY <1>1, <1>4
  <1>6. b % 16 = b - 16 * d
    BY <1>1, <1>2, <1>4
  <1>7. d % 16 = d - 16 * e
    BY <1>2, <1>4
  <1>8. /\ Nth(v, 0) = v - 16 * a /\ Nth(v, 1) = a - 16 * b /\ Nth(v, 2) = b - 16 * d
        /\ Nth(v, 3) = d - 16 * e
    BY <1>1, <1>3, <1>5, <1>6, <1>7
  <1>9. /\ (v - 16 * a) + 16 * (a - 16 * b) + 256 * (b - 16 * d) = v - 4096 * d
        /\ (v - 16 * a) + 16 * (a - 16 * b) + 256 * (b - 16 * d) + 4096 * (d - 16 * e)
              = v - 65536 * e
    BY <1>1, <1>2
  <1> QED  BY <1>2, <1>8, <1>9

\* All digits of an entry are in the table.
LEMMA Inside ==
  ASSUME Base = 16, type \in {"FAT_12", "FAT_16"}, NEW c \in Cluster
  PROVE  /\ First(c) \in Nat
         /\ \A i \in 0 .. 3 : i < Width => First(c) + i \in Places \cap Own(c)
  <1>1. c \in Nat /\ MaxCluster \in Nat /\ c <= MaxCluster
    BY FATEntryAssumption DEF FATEntryAssumption, Cluster
  <1>2. CASE type = "FAT_12"
    <2>1. First(c) = 3 * c /\ Own(c) = 3 * c .. 3 * c + 2
      BY <1>1, <1>2, Widths DEF First, Own
    <2> QED  BY <1>1, <1>2, <2>1, Widths DEF Places
  <1>3. CASE type = "FAT_16"
    <2>1. First(c) = 4 * c /\ Own(c) = 4 * c .. 4 * c + 3
      BY <1>1, <1>3, Widths DEF First, Own
    <2> QED  BY <1>1, <1>3, <2>1, Widths DEF Places
  <1> QED  BY <1>2, <1>3

LEMMA EntryStarts ==
  ASSUME Base = 16, Types \subseteq {"FAT_12", "FAT_16"}, EntryInit
  PROVE  EntryInv
  <1>1. type \in {"FAT_12", "FAT_16"} /\ digits \in [Places -> Digit]
    BY DEF EntryInit, Digit
  <1>2. want \in [Cluster -> Stored]
    BY DEF EntryInit, Stored
  <1>3. ASSUME NEW c \in Cluster  PROVE Number(digits, First(c)) = want[c] % Base^Width
    <2>1. First(c) \in Nat /\ \A i \in 0 .. 3 : i < Width => First(c) + i \in Places
      BY <1>1, Inside
    <2>2. \A i \in 0 .. 3 : i < Width => digits[First(c) + i] = 0
      BY <2>1 DEF EntryInit
    <2>3. First(c) + 0 = First(c)
      BY <2>1
    <2>4. want[c] = 0
      BY DEF EntryInit
    <2>5. CASE type = "FAT_12"
      BY <2>2, <2>3, <2>4, <2>5, Widths DEF Number
    <2>6. CASE type = "FAT_16"
      BY <2>2, <2>3, <2>4, <2>6, Widths DEF Number
    <2> QED  BY <1>1, <2>5, <2>6
  <1> QED  BY <1>1, <1>2, <1>3 DEF EntryInv

\* The entry that is set holds the value, all others what they held.
LEMMA SetInv ==
  ASSUME Base = 16, EntryInv, NEW c \in Cluster, NEW v \in Stored, Set(c, v)
  PROVE  EntryInv'
  <1>1. /\ type \in {"FAT_12", "FAT_16"} /\ digits \in [Places -> Digit]
        /\ want \in [Cluster -> Stored] /\ type' = type
        /\ digits' = FAT_set_entry(digits, c, v) /\ want' = [want EXCEPT ![c] = v]
    BY DEF EntryInv, Set
  <1>2. v \in Nat
    BY Widths, <1>1 DEF Stored
  <1>3. /\ digits' \in [Places -> Digit]
        /\ \A p \in Places : p \notin Own(c) => digits'[p] = digits[p]
        /\ ~Torn(c) => /\ digits'[First(c)] = Nth(v, 0) /\ digits'[First(c) + 1] = Nth(v, 1)
                       /\ digits'[First(c) + 2] = Nth(v, 2)
                       /\ type = "FAT_16" => digits'[First(c) + 3] = Nth(v, 3)
    BY <1>1, <1>2, SetIs
  <1>4. ASSUME ~Torn(c)  PROVE Number(digits', First(c)) = v % Base^Width
    <2>1. CASE type = "FAT_12"
      BY <1>2, <1>3, <1>4, <2>1, Cut, Widths DEF Number
    <2>2. CASE type = "FAT_16"
      BY <1>2, <1>3, <1>4, <2>2, Cut, Widths DEF Number
    <2> QED  BY <1>1, <2>1, <2>2
  <1>5. ASSUME NEW d \in Cluster, d # c
        PROVE  Number(digits', First(d)) = Number(digits, First(d))
    <2>1. First(d) \in Nat /\ \A i \in 0 .. 3 : i < Width => First(d) + i \in Places \cap Own(d)
      BY <1>1, Inside
    <2>2. \A p \in Places \cap Own(d) : digits'[p] = digits[p]
      BY <1>1, <1>3, <1>5, Apart
    <2>3. First(d) + 0 = First(d)
      BY <2>1
    <2>4. CASE type = "FAT_12"
      BY <2>1, <2>2, <2>3, <2>4, Widths DEF Number
    <2>5. CASE type = "FAT_16"
      BY <2>1, <2>2, <2>3, <2>5, Widths DEF Number
    <2> QED  BY <1>1, <2>4, <2>5
  <1>6. \A d \in Cluster : ~Torn(d) => Number(digits', First(d)) = want'[d] % Base^Width
    BY <1>1, <1>4, <1>5 DEF EntryInv
  <1>7. want' \in [Cluster -> Stored]
    BY <1>1
  <1> QED  BY <1>1, <1>3, <1>6, <1>7
           DEF EntryInv, Number, First, Width, Torn, FAT_get_offset

\* For tables of any length, devices of any sector size and cluster numbers
\* below the marks: but for the entries that lie in two sectors, which SAL_write
\* tears, FAT_get_entry returns what FAT_set_entry last stored for the cluster,
\* although a FAT12 entry shares a byte with its neighbour, be that one torn,
\* and FAT_is_eoc tells the mark.
THEOREM EntriesKept ==
  ASSUME Base = 16, Types \subseteq {"FAT_12", "FAT_16"}, \A v \in Values : v < 4088
  PROVE  EntrySpec => []GetsWhatWasSet
  <1>1. EntryInv => GetsWhatWasSet
    <2> SUFFICES ASSUME EntryInv, NEW c \in Cluster, ~Torn(c)
                 PROVE  /\ FAT_get_entry(digits, c) = want[c] % Base^Width
                        /\ FAT_is_eoc(FAT_get_entry(digits, c)) <=> want[c] = EndMark
      BY DEF GetsWhatWasSet, ReadsAsSet
    <2>1. /\ type \in {"FAT_12", "FAT_16"} /\ want[c] \in Stored
          /\ FAT_get_entry(digits, c) = want[c] % Base^Width
      BY GetIs DEF EntryInv
    <2>2. EndMark = 4294967295 /\ 4294967295 % 4096 = 4095 /\ 4294967295 % 65536 = 65535
      BY <2>1, Widths
    <2>3. want[c] \in Nat /\ (want[c] < 4088 \/ want[c] = 4294967295)
      BY <2>1, <2>2 DEF Stored
    <2>4. CASE type = "FAT_12"
      <3>1. FAT_is_eoc(want[c] % 4096) <=> want[c] % 4096 >= 4088
        BY <2>4, Powers DEF FAT_is_eoc
      <3> QED  BY <2>1, <2>2, <2>3, <2>4, <3>1, Widths
    <2>5. CASE type = "FAT_16"
      <3>1. FAT_is_eoc(want[c] % 65536) <=> want[c] % 65536 >= 65528
        BY <2>5, Powers DEF FAT_is_eoc
      <3> QED  BY <2>1, <2>2, <2>3, <2>5, <3>1, Widths
    <2> QED  BY <2>1, <2>4, <2>5
  <1>2. EntryInv /\ [EntryNext]_entryVars => EntryInv'
    <2>1. ASSUME EntryInv, NEW c \in Cluster, NEW v \in Values \cup {EndMark}, Set(c, v)
          PROVE  EntryInv'
      <3>1. v \in Stored
        BY FATEntryAssumption DEF FATEntryAssumption, Stored
      <3> QED  BY <2>1, <3>1, SetInv
    <2>2. ASSUME EntryInv, UNCHANGED entryVars  PROVE EntryInv'
      BY <2>2 DEF entryVars, EntryInv, Number, First, Width, Torn, FAT_get_offset
    <2> QED  BY <2>1, <2>2 DEF EntryNext
  <1>3. EntryInit => EntryInv
    BY EntryStarts
  <1> QED  BY <1>1, <1>2, <1>3, PTL DEF EntrySpec

-----------------------------------------------------------------------------
(* Virtual files                                                         *)

V == Marks \cup {Garbage}

\* The block of a file has what was written and behind that what nobody wrote.
Agree(c, w) ==
  /\ Len(w) <= Len(c)
  /\ \A k \in 1 .. Len(c) : c[k] = IF k <= Len(w) THEN w[k] ELSE Garbage

VFMInv ==
  /\ opened \in [Handles -> Files \cup {Unused}]
  /\ pos \in [Files -> Nat]
  /\ content \in [Files -> Seq(V)] /\ written \in [Files -> Seq(V)]
  /\ \A f \in Files : pos[f] <= Len(content[f]) /\ Agree(content[f], written[f])
  /\ got.bytes = got.right

-----------------------------------------------------------------------------
LEMMA PutIs ==
  ASSUME NEW s \in Seq(V), NEW p \in Nat, NEW data \in Seq(V)
  PROVE  /\ Put(s, p, data) \in Seq(V) /\ Len(Put(s, p, data)) = Len(s)
         /\ \A k \in 1 .. Len(s) :
              Put(s, p, data)[k] = IF k \in p + 1 .. p + Len(data) THEN data[k - p] ELSE s[k]
  <1>1. DOMAIN s = 1 .. Len(s) /\ Len(s) \in Nat
    OBVIOUS
  <1>2. ASSUME NEW k \in 1 .. Len(s)
        PROVE  (IF k \in p + 1 .. p + Len(data) THEN data[k - p] ELSE s[k]) \in V
    <2>1. CASE k \in p + 1 .. p + Len(data)
      <3>1. k - p \in 1 .. Len(data)
        BY <2>1
      <3> QED  BY <2>1, <3>1
    <2>2. CASE k \notin p + 1 .. p + Len(data)
      BY <2>2
    <2> QED  BY <2>1, <2>2
  <1>3. Put(s, p, data) =
          [k \in 1 .. Len(s) |-> IF k \in p + 1 .. p + Len(data) THEN data[k - p] ELSE s[k]]
    BY <1>1 DEF Put
  <1> QED  BY <1>1, <1>2, <1>3

LEMMA PartIs ==
  ASSUME NEW w \in Seq(V), NEW p \in Nat, NEW n \in Nat
  PROVE  /\ Part(w, p, n) \in Seq(V) /\ Len(Part(w, p, n)) = n
         /\ \A k \in 1 .. n : Part(w, p, n)[k] = IF p + k <= Len(w) THEN w[p + k] ELSE Garbage
  <1>1. ASSUME NEW k \in 1 .. n
        PROVE  (IF p + k <= Len(w) THEN w[p + k] ELSE Garbage) \in V
    BY DEF V
  <1> QED  BY <1>1 DEF Part

\* kexpand keeps the old contents and adds what nobody has written.
LEMMA Grow ==
  ASSUME NEW c \in Seq(V), NEW w \in Seq(V), NEW n \in Nat, NEW slack \in Nat, Agree(c, w)
  PROVE  /\ kexpand(c, n, slack) \in Seq(V)
         /\ Len(kexpand(c, n, slack)) = Len(c) + n + slack
         /\ Agree(kexpand(c, n, slack), w)
  <1> DEFINE more == Stale(n + slack)
             e == c \o more
  <1>1. /\ more \in Seq(V) /\ Len(more) = n + slack
        /\ \A k \in 1 .. n + slack : more[k] = Garbage
    BY DEF Stale, V
  <1> HIDE DEF more
  <1>2. e \in Seq(V) /\ Len(e) = Len(c) + n + slack
    <2>1. e \in Seq(V) /\ Len(e) = Len(c) + Len(more)
      BY ZenonT(20), <1>1, ConcatProperties
    <2>2. Len(c) \in Nat
      BY LenProperties
    <2> HIDE DEF e
    <2> QED  BY <1>1, <2>1, <2>2
  <1>3. ASSUME NEW k \in 1 .. Len(e)
        PROVE  e[k] = IF k <= Len(w) THEN w[k] ELSE Garbage
    <2>1. CASE k <= Len(c)
      BY <1>1, <1>2, <2>1 DEF Agree
    <2>2. CASE k > Len(c)
      <3>1. k - Len(c) \in 1 .. n + slack /\ ~(k <= Len(w))
        BY <1>2, <2>2 DEF Agree
      <3>2. e[k] = more[k - Len(c)]
        BY <1>1, <1>2, <2>2
      <3> QED  BY <1>1, <3>1, <3>2
    <2> QED  BY <2>1, <2>2
  <1>4. Len(w) <= Len(e)
    BY <1>2 DEF Agree
  <1> HIDE DEF e
  <1>5. Agree(e, w)
    BY <1>3, <1>4 DEF Agree
  <1> QED  BY <1>2, <1>5 DEF e, more, kexpand

\* The same bytes put into a block and into what was written.
LEMMA Store ==
  ASSUME NEW c \in Seq(V), NEW w \in Seq(V), NEW data \in Seq(V), NEW p \in Nat,
         Agree(c, w), p + Len(data) <= Len(c)
  PROVE  LET end == p + Len(data)
             u   == Put(Part(w, 0, IF end > Len(w) THEN end ELSE Len(w)), p, data)
         IN  u \in Seq(V) /\ Agree(Put(c, p, data), u)
  <1> DEFINE end == p + Len(data)
             n   == IF end > Len(w) THEN end ELSE Len(w)
             t   == Part(w, 0, n)
             u   == Put(t, p, data)
             d   == Put(c, p, data)
  <1>1. end \in Nat /\ n \in Nat /\ Len(w) <= n /\ end <= n /\ n <= Len(c)
    BY DEF Agree
  <1>2. /\ t \in Seq(V) /\ Len(t) = n
        /\ \A k \in 1 .. n : t[k] = IF 0 + k <= Len(w) THEN w[0 + k] ELSE Garbage
    <2> HIDE DEF n
    <2>1. t \in Seq(V) /\ Len(t) = n
      BY <1>1, PartIs
    <2>2. ASSUME NEW k \in 1 .. n
          PROVE  t[k] = IF 0 + k <= Len(w) THEN w[0 + k] ELSE Garbage
      BY DEF Part
    <2> QED  BY <2>1, <2>2
  <1> HIDE DEF t
  <1>3. /\ u \in Seq(V) /\ Len(u) = n
        /\ \A k \in 1 .. n : u[k] = IF k \in p + 1 .. end THEN data[k - p] ELSE t[k]
    <2> HIDE DEF n, end
    <2>1. p + Len(data) <= Len(t)
      BY <1>1, <1>2 DEF end
    <2> QED  BY <1>2, <2>1, PutIs DEF end
  <1>4. /\ d \in Seq(V) /\ Len(d) = Len(c)
        /\ \A k \in 1 .. Len(c) : d[k] = IF k \in p + 1 .. end THEN data[k - p] ELSE c[k]
    BY PutIs
  <1> HIDE DEF u, d, n
  <1>5. ASSUME NEW k \in 1 .. Len(d)
        PROVE  d[k] = IF k <= Len(u) THEN u[k] ELSE Garbage
    <2>1. k \in 1 .. Len(c) /\ c[k] = (IF k <= Len(w) THEN w[k] ELSE Garbage)
      BY <1>4 DEF Agree
    <2>2. CASE k <= n
      <3>1. k \in 1 .. n /\ 0 + k = k
        BY <1>1, <2>1, <2>2
      <3>2. t[k] = c[k]
        BY <1>2, <2>1, <3>1
      <3> QED  BY <1>3, <1>4, <2>1, <2>2, <3>1, <3>2
    <2>3. CASE ~(k <= n)
      <3>1. k \notin p + 1 .. end /\ ~(k <= Len(w))
        BY <1>1, <2>1, <2>3
      <3> QED  BY <1>3, <1>4, <2>1, <2>3, <3>1
    <2> QED  BY <2>2, <2>3
  <1>6. Agree(d, u)
    BY <1>1, <1>3, <1>4, <1>5 DEF Agree
  <1> QED  BY <1>3, <1>6 DEF u, d, t, n

-----------------------------------------------------------------------------
LEMMA VFMStarts == VFMInit => VFMInv
  <1> SUFFICES ASSUME VFMInit  PROVE VFMInv
    OBVIOUS
  <1>1. <<>> \in Seq(V) /\ Len(<<>>) = 0
    OBVIOUS
  <1> QED  BY <1>1 DEF VFMInit, VFMInv, Agree, Nothing

\* A read returns the part of the block that is there.
LEMMA ReadsVFM ==
  ASSUME VFMInv, NEW h \in Handles, NEW n \in VfmLens, VFM_read(h, n)
  PROVE  VFMInv'
  <1> DEFINE f == opened[h]
             c == content[f]
             w == written[f]
             p == pos[f]
             m == IF p + n > Len(c) THEN Len(c) - p ELSE n
  <1>1. f \in Files
    BY DEF VFM_read, VFMInv
  <1>2. /\ c \in Seq(V) /\ w \in Seq(V) /\ p \in Nat /\ p <= Len(c) /\ Agree(c, w)
        /\ n \in Nat
    BY <1>1, VFMAssumption DEF VFMInv, VFMAssumption
  <1>3. m \in Nat /\ p + m <= Len(c)
    BY <1>2
  <1>4. /\ got' = [bytes |-> SubSeq(c, p + 1, p + m), right |-> Part(w, p, m)]
        /\ pos' = [pos EXCEPT ![f] = p + m]
        /\ UNCHANGED <<content, opened, written>>
    BY DEF VFM_read, ksize
  <1>5. SubSeq(c, p + 1, p + m) = Part(w, p, m)
    <2> HIDE DEF f, c, w, p, m
    <2>1. SubSeq(c, p + 1, p + m) = [k \in 1 .. m |-> c[p + k]]
      BY <1>2, <1>3
    <2>2. ASSUME NEW k \in 1 .. m
          PROVE  c[p + k] = IF p + k <= Len(w) THEN w[p + k] ELSE Garbage
      BY <1>2, <1>3 DEF Agree
    <2> QED  BY <2>1, <2>2 DEF Part
  <1>6. pos' \in [Files -> Nat] /\ \A g \in Files : pos'[g] <= Len(content[g])
    <2> HIDE DEF m
    <2> QED  BY <1>1, <1>2, <1>3, <1>4 DEF VFMInv
  <1>7. got'.bytes = got'.right
    BY <1>4, <1>5
  <1> HIDE DEF f, c, w, p, m
  <1> QED  BY <1>4, <1>6, <1>7 DEF VFMInv

\* A write puts the same bytes into both, after the block has grown to hold them.
LEMMA WritesVFM ==
  ASSUME VFMInv, NEW h \in Handles, NEW data \in Seq(V), VFM_write(h, data)
  PROVE  VFMInv'
  <1> DEFINE f == opened[h]
             c == content[f]
             w == written[f]
             p == pos[f]
             grows == p + Len(data) > Len(c)
             end == p + Len(data)
             u == Put(Part(w, 0, IF end > Len(w) THEN end ELSE Len(w)), p, data)
  <1>1. f \in Files
    BY DEF VFM_write, VFMInv
  <1>2. c \in Seq(V) /\ w \in Seq(V) /\ p \in Nat /\ p <= Len(c) /\ Agree(c, w)
    BY <1>1 DEF VFMInv
  <1>3. PICK slack \in (IF grows THEN Slack ELSE {0}) :
          content' = [content EXCEPT ![f] =
             Put(IF grows THEN kexpand(c, Len(data), slack) ELSE c, p, data)]
    BY DEF VFM_write, ksize
  <1>4. /\ written' = [written EXCEPT ![f] = u]
        /\ pos' = [pos EXCEPT ![f] = end] /\ got' = Nothing /\ opened' = opened
    BY DEF VFM_write
  <1> DEFINE e == IF grows THEN kexpand(c, Len(data), slack) ELSE c
  <1>5. e \in Seq(V) /\ Agree(e, w) /\ end <= Len(e) /\ end \in Nat
    <2>1. CASE grows
      <3>1. slack \in Nat
        BY <1>3, <2>1, VFMAssumption DEF VFMAssumption
      <3> HIDE DEF f, c, w, p
      <3>2. /\ kexpand(c, Len(data), slack) \in Seq(V)
            /\ Len(kexpand(c, Len(data), slack)) = Len(c) + Len(data) + slack
            /\ Agree(kexpand(c, Len(data), slack), w)
        <4>1. Len(data) \in Nat
          OBVIOUS
        <4> QED  BY <1>2, <3>1, <4>1, Grow
      <3> QED  BY <1>2, <2>1, <3>1, <3>2
    <2>2. CASE ~grows
      <3> HIDE DEF f, c, w, p
      <3> QED  BY <1>2, <2>2
    <2> QED  BY <2>1, <2>2
  <1> HIDE DEF e
  <1>6. u \in Seq(V) /\ Agree(Put(e, p, data), u)
    BY <1>2, <1>5, Store
  <1>7. Put(e, p, data) \in Seq(V) /\ Len(Put(e, p, data)) = Len(e)
    BY <1>2, <1>5, PutIs
  <1>8. content' = [content EXCEPT ![f] = Put(e, p, data)]
    BY <1>3 DEF e
  <1>9. /\ content' \in [Files -> Seq(V)] /\ written' \in [Files -> Seq(V)]
        /\ pos' \in [Files -> Nat]
    <2> HIDE DEF f, u, end
    <2> QED  BY <1>1, <1>4, <1>5, <1>6, <1>7, <1>8 DEF VFMInv
  <1>10. ASSUME NEW g \in Files
         PROVE  pos'[g] <= Len(content'[g]) /\ Agree(content'[g], written'[g])
    <2> HIDE DEF f, u, end
    <2>1. CASE g = f
      <3>1. content'[g] = Put(e, p, data) /\ written'[g] = u /\ pos'[g] = end
        BY <1>1, <1>4, <1>8, <2>1 DEF VFMInv
      <3> QED  BY <1>5, <1>6, <1>7, <3>1
    <2>2. CASE g # f
      <3>1. content'[g] = content[g] /\ written'[g] = written[g] /\ pos'[g] = pos[g]
        BY <1>4, <1>8, <2>2 DEF VFMInv
      <3> QED  BY <3>1 DEF VFMInv
    <2> QED  BY <2>1, <2>2
  <1>11. got'.bytes = got'.right
    BY <1>4 DEF Nothing
  <1> QED  BY <1>4, <1>9, <1>10, <1>11 DEF VFMInv

LEMMA VFMSteps ==
  ASSUME VFMInv, [VFMNext]_vfmVars  PROVE VFMInv'
  <1>1. ASSUME NEW h \in Handles, NEW f \in Files, VFM_open(h, f)  PROVE VFMInv'
    <2>1. /\ opened' = [opened EXCEPT ![h] = f] /\ pos' = [pos EXCEPT ![f] = 0]
          /\ got' = Nothing /\ UNCHANGED <<content, written>>
      BY <1>1 DEF VFM_open
    <2>2. \A g \in Files : Len(content[g]) \in Nat
      BY DEF VFMInv
    <2> QED  BY <2>1, <2>2 DEF VFMInv, Nothing
  <1>2. ASSUME NEW h \in Handles, VFM_close(h)  PROVE VFMInv'
    <2>1. /\ opened' = [opened EXCEPT ![h] = Unused] /\ pos' = [pos EXCEPT ![opened[h]] = 0]
          /\ got' = Nothing /\ UNCHANGED <<content, written>>
      BY <1>2 DEF VFM_close
    <2>2. \A g \in Files : Len(content[g]) \in Nat
      BY DEF VFMInv
    <2>3. pos' \in [Files -> Nat] /\ \A g \in Files : pos'[g] \in {0, pos[g]}
      BY <2>1 DEF VFMInv
    <2>4. opened' \in [Handles -> Files \cup {Unused}] /\ got'.bytes = got'.right
      BY <2>1 DEF VFMInv, Nothing
    <2> QED  BY <2>1, <2>2, <2>3, <2>4 DEF VFMInv
  <1>3. ASSUME NEW h \in Handles, NEW n \in VfmLens, VFM_read(h, n)  PROVE VFMInv'
    BY <1>3, ReadsVFM
  <1>4. ASSUME NEW h \in Handles, NEW n \in VfmLens, NEW m \in Marks,
               VFM_write(h, [k \in 1 .. n |-> m])
        PROVE  VFMInv'
    <2>1. n \in Nat
      BY VFMAssumption DEF VFMAssumption
    <2>2. [k \in 1 .. n |-> m] \in Seq(V)
      BY <2>1 DEF V
    <2> QED  BY <1>4, <2>2, WritesVFM
  <1>5. CASE UNCHANGED vfmVars
    BY <1>5 DEF vfmVars, VFMInv
  <1> QED  BY <1>1, <1>2, <1>3, <1>4, <1>5 DEF VFMNext

\* A byte that was written is what a read of its place returns, although all
\* handles of a file move one position and VFM_write's kexpand moves the block.
THEOREM VirtualFilesKeep ==
  VFMInit /\ [][VFMNext]_vfmVars => []ReadsWhatWasWritten
  <1>1. VFMInv => ReadsWhatWasWritten
    BY DEF VFMInv, Agree, ReadsWhatWasWritten, ksize
  <1>2. VFMInv /\ [VFMNext]_vfmVars => VFMInv'
    BY VFMSteps
  <1> QED  BY VFMStarts, <1>1, <1>2, PTL

-----------------------------------------------------------------------------
(* The parts of a volume                                                   *)

\* What the driver has computed from the boot sector of a mounted volume.
Layout ==
  LET s == boot_sector.bytes_per_sector
      c == boot_sector.sectors_per_cluster
      t == boot_sector.sectors_per_fat
      e == boot_sector.num_root_entries
      m == boot_sector.reserved_sectors + boot_sector.num_fat * t + root_sectors
  IN
  /\ s \in Nat \ {0} /\ c \in Nat \ {0} /\ t \in Nat /\ e \in Nat /\ e <= s + 1
  /\ boot_sector.reserved_sectors \in Nat /\ boot_sector.num_fat \in Nat
  /\ total_sectors(boot_sector) \in Nat /\ root_sectors \in Nat /\ num_clusters \in Nat
  /\ e * DirEntry <= root_sectors * s
  /\ num_clusters * c <= total_sectors(boot_sector) - m
  /\ data_region_start = m * s
  /\ bytes_p_clus = c * s
  /\ \/ type = "FAT_12" /\ (num_clusters + 2) * 12 <= t * s * 8
     \/ type = "FAT_16" /\ (num_clusters + 2) * 16 <= t * s * 8

MountInv == IF mounted THEN Layout ELSE boot_sector \in BootSectors

\* Rounding up to whole sectors leaves room for what is rounded.
LEMMA RoundsUp ==
  ASSUME NEW b \in Nat, NEW s \in Nat \ {0}
  PROVE  /\ (b + s - 1) \div s \in Nat
         /\ b <= ((b + s - 1) \div s) * s
  <1> DEFINE x == b + s - 1
             q == x \div s
             r == x % s
  <1>1. x \in Nat
    OBVIOUS
  <1>2. q \in Nat /\ r \in 0 .. s - 1 /\ x = q * s + r
    BY <1>1, Divide
  <1>3. q * s \in Int
    BY <1>2
  <1> HIDE DEF q, r
  <1> QED  BY <1>2, <1>3

LEMMA Mounts ==
  ASSUME \A v \in BootSectors : Formatted(v), boot_sector \in BootSectors, FAT_mount
  PROVE  MountInv'
  <1> DEFINE s == boot_sector.bytes_per_sector
             f == boot_sector.reserved_sectors
             n == boot_sector.num_fat
             t == boot_sector.sectors_per_fat
             d == root_sectors
             e == boot_sector.num_root_entries
             c == boot_sector.sectors_per_cluster
             m == total_sectors(boot_sector)
             k == num_clusters
  <1>1. Formatted(boot_sector)
    OBVIOUS
  <1>2. DirEntry \in Nat /\ Max12 \in Nat
    BY LayoutAssumption DEF LayoutAssumption
  <1>3. d = (e * DirEntry + s - 1) \div s /\ FATs = n * t /\ k = (m - (f + n * t + d)) \div c
    BY DEF root_sectors, FATs, num_clusters
  <1>4. /\ s \in Nat \ {0} /\ c \in Nat \ {0} /\ f \in Nat /\ n \in Nat /\ t \in Nat /\ e \in Nat
        /\ m - (f + n * t + d) >= 0 /\ k < Max16 /\ e <= s + 1
        /\ (k + 2) * (IF k < Max12 THEN 12 ELSE 16) <= t * s * 8
        /\ m \in Nat
    <2>1. m \in Nat
      BY <1>1 DEF Formatted, total_sectors
    <2> HIDE DEF m
    <2> QED  BY <1>1, <1>3, <2>1 DEF Formatted, m
  <1>5. d \in Nat /\ e * DirEntry <= d * s
    <2> DEFINE b == e * DirEntry
    <2>1. b \in Nat /\ d = (b + s - 1) \div s
      BY <1>2, <1>3, <1>4
    <2> HIDE DEF b, d
    <2>2. d \in Nat /\ b <= d * s
      BY <1>4, <2>1, RoundsUp
    <2> QED  BY <2>2 DEF b
  <1>6. /\ boot_sector' = boot_sector
        /\ type' = IF k < Max12 THEN "FAT_12" ELSE IF k < Max16 THEN "FAT_16" ELSE "FAT_32"
        /\ data_region_start' = (f + n * t + d) * s
        /\ bytes_p_clus' = c * s
    BY <1>3 DEF FAT_mount, FAT_init_type
  <1>7. d' = d /\ k' = k
    BY <1>6 DEF root_sectors, num_clusters, FATs
  <1> HIDE DEF d, k
  <1>8. k \in Nat /\ k * c <= m - (f + n * t + d)
    <2> DEFINE x == m - (f + n * t + d)
    <2>1. x \in Nat
      <3>1. n * t \in Int
        BY <1>4
      <3> QED  BY <1>4, <1>5, <3>1
    <2> HIDE DEF x
    <2>2. k = x \div c
      BY <1>3 DEF x
    <2>3. k \in Nat /\ x % c \in 0 .. c - 1 /\ x = k * c + (x % c)
      BY <1>4, <2>1, <2>2, Divide
    <2>4. k * c \in Int
      BY <1>4, <2>3
    <2>5. k * c <= x
      BY <1>4, <2>1, <2>3, <2>4
    <2> QED  BY <2>3, <2>5 DEF x
  <1>9. \/ type' = "FAT_12" /\ (k + 2) * 12 <= t * s * 8
        \/ type' = "FAT_16" /\ (k + 2) * 16 <= t * s * 8
    BY <1>4, <1>6
  <1>10. Layout'
    BY <1>4, <1>5, <1>6, <1>7, <1>8, <1>9 DEF Layout, d, k
  <1> QED  BY <1>10 DEF MountInv, FAT_mount


\* An entry of a table lies in the table.
LEMMA EntryInside ==
  ASSUME Layout, NEW x \in 2 .. num_clusters + 1
  PROVE  /\ FAT_get_offset(x) >= 0 /\ FAT_get_offset(x) \in Int
         /\ FAT_get_offset(x) + 2 <= boot_sector.sectors_per_fat * boot_sector.bytes_per_sector
  <1> DEFINE l == boot_sector.sectors_per_fat * boot_sector.bytes_per_sector
             k == num_clusters
  <1>1. /\ l \in Int /\ k \in Nat /\ x \in Nat /\ x <= k + 1
        /\ \/ type = "FAT_12" /\ (k + 2) * 12 <= l * 8
           \/ type = "FAT_16" /\ (k + 2) * 16 <= l * 8
    BY DEF Layout
  <1> HIDE DEF l, k
  <1>2. CASE type = "FAT_12" /\ (k + 2) * 12 <= l * 8
    <2> DEFINE q == x \div 2
               r == x % 2
    <2>1. q \in Nat /\ r \in 0 .. 1 /\ x = q * 2 + r
      BY <1>1
    <2>2. FAT_get_offset(x) = x + q
      BY <1>2 DEF FAT_get_offset
    <2> HIDE DEF q, r
    <2>3. x + q >= 0 /\ x + q \in Int /\ x + q + 2 <= l
      BY <1>1, <1>2, <2>1
    <2> QED  BY <2>2, <2>3 DEF l
  <1>3. CASE type = "FAT_16" /\ (k + 2) * 16 <= l * 8
    <2>1. FAT_get_offset(x) = x * 2
      BY <1>3 DEF FAT_get_offset
    <2>2. x * 2 >= 0 /\ x * 2 \in Int /\ x * 2 + 2 <= l
      BY <1>1, <1>3
    <2> QED  BY <2>1, <2>2 DEF l
  <1> QED  BY <1>1, <1>2, <1>3

\* A cluster lies behind the root directory and before the end.
LEMMA ClusterInside ==
  ASSUME Layout, NEW x \in 2 .. num_clusters + 1
  PROVE  /\ FAT_clus_to_off(x) >= data_region_start
         /\ FAT_clus_to_off(x) + bytes_p_clus <= total_sectors(boot_sector) * boot_sector.bytes_per_sector
  <1> DEFINE s == boot_sector.bytes_per_sector
             c == boot_sector.sectors_per_cluster
             k == num_clusters
             m == boot_sector.reserved_sectors + boot_sector.num_fat * boot_sector.sectors_per_fat
                    + root_sectors
             n == total_sectors(boot_sector)
             p == bytes_p_clus
  <1>1. /\ s \in Nat /\ c \in Nat /\ k \in Nat /\ n \in Nat /\ p = c * s
        /\ k * c <= n - m /\ data_region_start = m * s
    BY DEF Layout
  <1>2. m \in Nat
    <2>1. \A a, b \in Nat : a * b \in Nat
      OBVIOUS
    <2>2. boot_sector.num_fat * boot_sector.sectors_per_fat \in Nat
      BY <2>1 DEF Layout
    <2> QED  BY <2>2 DEF Layout
  <1>3. FAT_clus_to_off(x) = data_region_start + (x - 2) * p
    BY <1>1 DEF FAT_clus_to_off
  <1> HIDE DEF s, c, k, m, n, p
  <1>4. x \in Int /\ 2 <= x /\ x <= k + 1 /\ p \in Nat
    BY <1>1 DEF k
  <1>5. 0 <= (x - 2) * p /\ (x - 2) * p \in Int
    <2> DEFINE y == x - 2
    <2>1. y \in Nat
      BY <1>4
    <2> HIDE DEF y
    <2>2. 0 <= y * p /\ y * p \in Int
      BY <1>4, <2>1
    <2> QED  BY <2>2 DEF y
  <1>6. (x - 2) * p + p <= k * p
    <2> DEFINE y == x - 1
    <2>1. y \in Int /\ y <= k
      BY <1>1, <1>4
    <2>2. (x - 2) * p + p = y * p
      BY <1>4
    <2> HIDE DEF y
    <2>3. y * p <= k * p
      BY <1>1, <1>4, <2>1, Monotone
    <2> QED  BY <2>2, <2>3
  <1>7. k * p <= n * s - m * s
    <2>1. k * p = (k * c) * s
      BY <1>1
    <2> DEFINE a == k * c
               b == n - m
    <2>2. a \in Int /\ b \in Int /\ a <= b
      BY <1>1, <1>2
    <2>3. b * s = n * s - m * s
      BY <1>1, <1>2
    <2> HIDE DEF a, b
    <2>4. a * s <= b * s
      BY <1>1, <2>2, Monotone
    <2> QED  BY <2>1, <2>3, <2>4 DEF a
  <1>8. m * s \in Int /\ n * s \in Int /\ k * p \in Int /\ data_region_start = m * s
    BY <1>1, <1>2, <1>4
  <1>9. m * s + (x - 2) * p + p <= n * s
    BY <1>4, <1>5, <1>6, <1>7, <1>8
  <1>10. m * s + (x - 2) * p >= m * s
    BY <1>5, <1>8
  <1> QED  BY <1>3, <1>8, <1>9, <1>10 DEF p, n, s


\* An entry of the root directory lies in the directory.
LEMMA RootInside ==
  ASSUME Layout, NEW i \in 0 .. boot_sector.num_root_entries - 1
  PROVE  LET r == RootDirSector * boot_sector.bytes_per_sector IN
         /\ RootOffset(i * DirEntry) >= r
         /\ RootOffset(i * DirEntry) + DirEntry <= r + boot_sector.num_root_entries * DirEntry
  <1> DEFINE s == boot_sector.bytes_per_sector
             e == boot_sector.num_root_entries
             r == RootDirSector * s
             d == DirEntry
  <1>1. /\ s \in Nat /\ e \in Nat /\ d \in Nat /\ i \in Nat /\ i <= s /\ i + 1 <= e
    BY LayoutAssumption DEF Layout, LayoutAssumption
  <1>2. r \in Int
    <2>1. boot_sector.num_fat * boot_sector.sectors_per_fat \in Int
      BY DEF Layout
    <2>2. RootDirSector \in Int
      BY <2>1 DEF RootDirSector, FATs, Layout
    <2> QED  BY <1>1, <2>2
  <1>3. RootOffset(i * d) = IF i * d > s * d THEN 0 ELSE r + i * d
    BY DEF RootOffset
  <1> HIDE DEF s, e, r, d
  <1>4. i * d <= s * d
    BY <1>1, Monotone
  <1>5. (i + 1) * d <= e * d
    BY <1>1, Monotone
  <1>6. /\ i * d \in Int /\ s * d \in Int /\ e * d \in Int /\ (i + 1) * d = i * d + d
        /\ 0 <= i * d
    BY <1>1
  <1>7. RootOffset(i * d) = r + i * d
    BY <1>3, <1>4, <1>6
  <1> QED  BY <1>1, <1>2, <1>5, <1>6, <1>7 DEF s, e, r, d

LEMMA LayoutApart ==
  ASSUME Layout
  PROVE  PartsApart
  <1> DEFINE s == boot_sector.bytes_per_sector
             f == boot_sector.reserved_sectors
             n == boot_sector.num_fat
             t == boot_sector.sectors_per_fat
             e == boot_sector.num_root_entries
             table(i) == (f + i * t) * s
  <1>1. /\ s \in Nat /\ f \in Nat /\ n \in Nat /\ t \in Nat /\ e \in Nat /\ root_sectors \in Nat
        /\ e * DirEntry <= root_sectors * s /\ e * DirEntry \in Int
        /\ data_region_start = (f + n * t + root_sectors) * s
    BY LayoutAssumption DEF Layout, LayoutAssumption
  <1>2. RootDirSector * s = table(n) /\ table(n) \in Int
    BY <1>1 DEF RootDirSector, FATs
  <1>3. ASSUME NEW x \in 2 .. num_clusters + 1, NEW i \in 0 .. n - 1
        PROVE  /\ EntryOffset(i, x) >= table(i)
               /\ EntryOffset(i, x) + 2 <= table(i + 1)
    <2>1. EntryOffset(i, x) = table(i) + FAT_get_offset(x)
      BY DEF EntryOffset
    <2>2. /\ FAT_get_offset(x) >= 0 /\ FAT_get_offset(x) \in Int
          /\ FAT_get_offset(x) + 2 <= t * s
      BY EntryInside
    <2>3. table(i) \in Int /\ table(i + 1) = table(i) + t * s /\ t * s \in Int
      <3>1. i \in Nat
        BY <1>1
      <3>2. \A p, q \in Int : p * q \in Int
        OBVIOUS
      <3>3. \A p, q, r \in Int : (p + q) * r = p * r + q * r
        OBVIOUS
      <3>4. i * t \in Int /\ (i + 1) * t = i * t + t
        BY <1>1, <3>1
      <3> DEFINE a == f + i * t
      <3>5. a \in Int /\ f + (i + 1) * t = a + t
        BY <1>1, <3>4
      <3> HIDE DEF a
      <3>6. a * s \in Int /\ t * s \in Int /\ (a + t) * s = a * s + t * s
        BY <1>1, <3>2, <3>3, <3>5
      <3> QED  BY <3>5, <3>6 DEF a
    <2> HIDE DEF table
    <2> QED  BY <2>1, <2>2, <2>3
  <1>4. /\ table(n) + e * DirEntry <= data_region_start
        /\ data_region_start \in Int
    <2>1. data_region_start = table(n) + root_sectors * s /\ root_sectors * s \in Int
      <3>1. n * t \in Int
        BY <1>1
      <3>2. \A p, q, r \in Int : (p + q) * r = p * r + q * r /\ p * r \in Int
        OBVIOUS
      <3>3. f + n * t \in Int
        BY <1>1, <3>1
      <3> QED  BY <1>1, <3>2, <3>3
    <2> HIDE DEF table
    <2> QED  BY <1>1, <1>2, <2>1
  <1>5. ASSUME NEW x \in 2 .. num_clusters + 1
        PROVE  /\ FAT_clus_to_off(x) >= table(n) + e * DirEntry
               /\ FAT_clus_to_off(x) + bytes_p_clus <= total_sectors(boot_sector) * s
    <2>1. /\ FAT_clus_to_off(x) >= data_region_start
          /\ FAT_clus_to_off(x) + bytes_p_clus <= total_sectors(boot_sector) * s
      BY ClusterInside
    <2>2. FAT_clus_to_off(x) \in Int
      <3>1. bytes_p_clus \in Int /\ x \in Int /\ x > 1
        BY DEF Layout
      <3>2. FAT_clus_to_off(x) = data_region_start + (x - 2) * bytes_p_clus
        BY <3>1 DEF FAT_clus_to_off
      <3>3. (x - 2) * bytes_p_clus \in Int
        BY <3>1
      <3> QED  BY <1>4, <3>2, <3>3
    <2> HIDE DEF table
    <2> QED  BY <1>1, <1>2, <1>4, <2>1, <2>2
  <1>6. ASSUME NEW i \in 0 .. e - 1
        PROVE  /\ RootOffset(i * DirEntry) >= table(n)
               /\ RootOffset(i * DirEntry) + DirEntry <= table(n) + e * DirEntry
    BY <1>2, RootInside
  <1> QED  BY <1>3, <1>5, <1>6 DEF PartsApart

\* Whatever volume is mounted, of less than 65536 sectors or more: the entries
\* of the clusters, the entries that the root directory has and the clusters
\* are where FAT_get_entry, FAT_absolute_offset and FAT_clus_to_off look for
\* them and do not overlap.  It does not say that FAT_absolute_offset stops at
\* the last entry of the root directory.
THEOREM VolumeParts ==
  ASSUME \A v \in BootSectors : Formatted(v)
  PROVE  LayoutInit /\ [][FAT_mount]_<<layoutVars, type>> => []PartsApart
  <1>1. LayoutInit => MountInv
    BY DEF LayoutInit, MountInv
  <1>2. MountInv /\ [FAT_mount]_<<layoutVars, type>> => MountInv'
    <2> SUFFICES ASSUME MountInv, [FAT_mount]_<<layoutVars, type>>  PROVE MountInv'
      OBVIOUS
    <2>1. CASE FAT_mount
      BY <2>1, Mounts DEF MountInv, FAT_mount
    <2>2. CASE UNCHANGED <<layoutVars, type>>
      BY <2>2 DEF layoutVars, MountInv, Layout, root_sectors, num_clusters, FATs
    <2> QED  BY <2>1, <2>2
  <1>3. MountInv => PartsApart
    BY LayoutApart DEF MountInv, PartsApart
  <1> QED  BY <1>1, <1>2, <1>3, PTL

-----------------------------------------------------------------------------
(* Lists                                                                   *)

\* The elements of a list with one more at its end.
LEMMA Longer ==
  ASSUME NEW S, NEW s \in Seq(S), NEW x \in S
  PROVE  /\ Append(s, x) \in Seq(S) /\ Len(Append(s, x)) = Len(s) + 1
         /\ \A i \in 1 .. Len(s) : Append(s, x)[i] = s[i]
         /\ Append(s, x)[Len(s) + 1] = x
         /\ ToSet(Append(s, x)) = ToSet(s) \cup {x}
         /\ IsInjective(s) /\ x \notin ToSet(s) => IsInjective(Append(s, x))
  <1> DEFINE a == Append(s, x)
             n == Len(s)
  <1>1. /\ a \in Seq(S) /\ Len(a) = n + 1 /\ \A i \in 1 .. n : a[i] = s[i]
        /\ a[n + 1] = x
    BY AppendProperties
  <1>2. n \in Nat /\ DOMAIN s = 1 .. n /\ DOMAIN a = 1 .. n + 1
    BY <1>1, LenProperties
  <1> HIDE DEF a, n
  <1>3. \A i \in 1 .. n + 1 : i \in 1 .. n \/ i = n + 1
    BY <1>2
  <1>4. \A i \in 1 .. n : i \in 1 .. n + 1
    BY <1>2
  <1>5. n + 1 \in 1 .. n + 1
    BY <1>2
  <1>6. ToSet(a) = ToSet(s) \cup {x}
    BY <1>1, <1>2, <1>3, <1>4, <1>5 DEF ToSet
  <1>7. IsInjective(s) /\ x \notin ToSet(s) => IsInjective(a)
    BY <1>1, <1>2, <1>3 DEF ToSet, IsInjective
  <1> QED  BY <1>1, <1>6, <1>7 DEF a, n

\* The elements of a list without one of them.
LEMMA Shorter ==
  ASSUME NEW S, NEW s \in Seq(S), IsInjective(s), NEW c \in ToSet(s),
         NEW k \in 1 .. Len(s), s[k] = c
  PROVE  /\ RemoveAt(s, k) \in Seq(S) /\ IsInjective(RemoveAt(s, k))
         /\ ToSet(RemoveAt(s, k)) = ToSet(s) \ {c}
  <1> DEFINE n == Len(s)
             a == SubSeq(s, 1, k - 1)
             b == SubSeq(s, k + 1, n)
             r == RemoveAt(s, k)
             from(i) == IF i < k THEN i ELSE i + 1
  <1>1. n \in Nat /\ k \in 1 .. n /\ DOMAIN s = 1 .. n /\ \A i \in 1 .. n : s[i] \in S
    BY LenProperties, ElementOfSeq
  <1> HIDE DEF n
  <1>2. a \in Seq(S) /\ Len(a) = k - 1 /\ \A i \in 1 .. k - 1 : a[i] = s[i]
    <2>1. \A i \in 1 .. k - 1 : i \in 1 .. n
      BY <1>1
    <2>2. \A i \in 1 .. k - 1 : s[i] \in S
      BY <1>1, <2>1
    <2> QED  BY <1>1, <2>2, SubSeqProperties
  <1>3. b \in Seq(S) /\ Len(b) = n - k /\ \A i \in 1 .. n - k : b[i] = s[k + i]
    BY <1>1, SubSeqProperties
  <1>4. r = a \o b
    BY DEF RemoveAt, n
  <1> HIDE DEF a, b, r
  <1>5. /\ r \in Seq(S) /\ Len(r) = n - 1
        /\ \A i \in 1 .. n - 1 : r[i] = s[from(i)] /\ from(i) \in (1 .. n) \ {k}
    <2>1. r \in Seq(S) /\ Len(r) = (k - 1) + (n - k)
      <3>1. /\ a \o b \in Seq(S)
            /\ Len(a \o b) = Len(a) + Len(b)
        BY <1>2, <1>3, ConcatProperties
      <3> QED  BY <1>1, <1>2, <1>3, <1>4, <3>1
    <2>2. ASSUME NEW i \in 1 .. n - 1
          PROVE  r[i] = s[from(i)] /\ from(i) \in (1 .. n) \ {k}
      <3>1. CASE i < k
        BY <1>1, <1>2, <1>3, <1>4, <3>1, ConcatProperties
      <3>2. CASE ~(i < k)
        <4> DEFINE j == i - (k - 1)
        <4>1. j \in 1 .. n - k /\ k + j = i + 1 /\ i > k - 1
          BY <1>1, <3>2
        <4>2. r[i] = b[j]
          BY <1>1, <1>2, <1>3, <1>4, <3>2, <4>1, ConcatProperties
        <4> QED  BY <1>1, <1>3, <3>2, <4>1, <4>2
      <3> QED  BY <3>1, <3>2
    <2> QED  BY <1>1, <2>1, <2>2
  <1>6. DOMAIN r = 1 .. n - 1
    BY <1>1, <1>5, LenProperties
  <1>7. \A j \in (1 .. n) \ {k} : \E i \in 1 .. n - 1 : from(i) = j
    <2> SUFFICES ASSUME NEW j \in (1 .. n) \ {k}  PROVE \E i \in 1 .. n - 1 : from(i) = j
      OBVIOUS
    <2>1. CASE j < k
      <3>1. j \in 1 .. n - 1 /\ from(j) = j
        BY <1>1, <2>1
      <3> QED  BY <3>1
    <2>2. CASE ~(j < k)
      <3>1. j - 1 \in 1 .. n - 1 /\ from(j - 1) = j
        BY <1>1, <2>2
      <3> QED  BY <3>1
    <2> QED  BY <2>1, <2>2
  <1>8. \A i, j \in 1 .. n - 1 : from(i) = from(j) => i = j
    BY <1>1
  <1> HIDE DEF from
  <1>9. \A i, j \in 1 .. n : s[i] = s[j] => i = j
    BY <1>1 DEF IsInjective
  <1>10. IsInjective(r)
    BY <1>5, <1>6, <1>8, <1>9 DEF IsInjective
  <1>11. ToSet(r) = ToSet(s) \ {c}
    <2>1. \A i \in 1 .. n - 1 : r[i] \in ToSet(s) /\ r[i] # c
      BY <1>1, <1>5, <1>9 DEF ToSet
    <2>2. ASSUME NEW x \in ToSet(s), x # c  PROVE x \in ToSet(r)
      <3>1. PICK j \in 1 .. n : s[j] = x
        BY <1>1 DEF ToSet
      <3>2. PICK i \in 1 .. n - 1 : from(i) = j
        BY <1>7, <2>2, <3>1
      <3> QED  BY <1>5, <1>6, <3>1, <3>2 DEF ToSet
    <2>3. \A x \in ToSet(r) : x \in ToSet(s) \ {c}
      BY <1>6, <2>1 DEF ToSet
    <2> QED  BY <2>2, <2>3
  <1> QED  BY <1>5, <1>10, <1>11 DEF r


-----------------------------------------------------------------------------
(* The tree of vnodes                                                      *)

Names  == DirNames \cup FileNames
          \cup {"", ".", "LAKEOS", "VIRT", "DEV", "STDIN", "STDOUT"}
Handle == [id : Int, dir : Int, name : Names]
Node   == [parent : Nat, handle : Handle, driver : {"fat", "vfm", "dev"},
           children : Seq(Nat)]

Kids(v, i) == ToSet(v[i].children)

\* The vnodes one step further from the root, and those up to three steps.
Wider(v, S) == S \cup UNION {Kids(v, i) : i \in S}
Nodes(v)    == Wider(v, Wider(v, Wider(v, {1})))

\* What stands below a vnode, in the order the vnodes were made.
Family(v, i) ==
  /\ IsInjective(v[i].children)
  /\ v[i].handle.id \in {VIRT, DEV} => v[i].driver # "fat"
  /\ v[i].handle.id = ROOT => i = 1
  /\ \A c \in Kids(v, i) : /\ c \in i + 1 .. Len(v)
                           /\ v[c].parent = i
                           /\ v[c].handle.dir = v[i].handle.id
  /\ \A c, d \in Kids(v, i) : v[c].handle.name = v[d].handle.name => c = d

Tree(v) ==
  /\ v \in Seq(Node) /\ Len(v) >= 1
  /\ \A i \in 1 .. Len(v) : Family(v, i)

\* Files are numbered as they are created.
Numbered(F, n) ==
  /\ n \in Nat
  /\ \A f \in F : f.id \in {STDIN, STDOUT} \cup 1 .. n

\* There is an entry for what a vnode stands for.
Listed(F, driver, h) ==
  \E f \in F : f.dir = h.dir /\ f.id = h.id /\ f.name = Key(driver, h.name)

Found(F, x) == Listed(F, x.driver, x.handle)

\* Vnodes are added to a tree, for entries that are there.
Grows(F, v, w) ==
  /\ Tree(w) /\ Len(v) <= Len(w)
  /\ \A i \in 1 .. Len(v) : /\ w[i].handle = v[i].handle /\ w[i].driver = v[i].driver
                            /\ Kids(v, i) \subseteq Kids(w, i)
                            /\ Kids(w, i) \cap 1 .. Len(v) \subseteq Kids(v, i)
  /\ \A i \in 1 .. Len(w) : i \notin 1 .. Len(v) => Found(F, w[i])

TreeInv == Tree(vnodes) /\ Numbered(fs, created)

DescInv ==
  /\ descriptor_list \in Seq(Blocks)
  /\ DOMAIN heap = Blocks
  /\ held \subseteq [fd : Nat, id : Int]
  /\ \A h \in held : /\ h.fd < Len(descriptor_list)
                     /\ heap[descriptor_list[h.fd + 1]] # Free
  /\ \A b \in Blocks : heap[b] # Free => heap[b].driver # "none"


\* The vnodes of a tree, and those behind them in the list.
LEMMA VnodePlaces ==
  ASSUME NEW v, Tree(v)
  PROVE  /\ v \in Seq(Node) /\ Len(v) \in Nat /\ DOMAIN v = 1 .. Len(v)
         /\ 1 \in 1 .. Len(v) /\ Nodes(v) \subseteq 1 .. Len(v)
         /\ \A i \in 1 .. Len(v) : v[i] \in Node
         /\ \A i \in 1 .. Len(v) : /\ Kids(v, i) \subseteq i + 1 .. Len(v)
                                   /\ Kids(v, i) \subseteq 1 .. Len(v) \ {1}
         /\ \A S \in SUBSET (1 .. Len(v)) : Wider(v, S) \subseteq 1 .. Len(v)
  <1>1. v \in Seq(Node) /\ Len(v) \in Nat /\ Len(v) >= 1 /\ DOMAIN v = 1 .. Len(v)
    BY LenProperties DEF Tree
  <1>2. \A i \in 1 .. Len(v) : v[i] \in Node
    BY <1>1, ElementOfSeq
  <1>3. \A i \in 1 .. Len(v) : \A c \in Kids(v, i) : c \in i + 1 .. Len(v)
    BY DEF Tree, Family
  <1>4. \A i \in 1 .. Len(v) : \A c \in i + 1 .. Len(v) : c # 1 /\ c \in 1 .. Len(v)
    BY <1>1
  <1>5. \A i \in 1 .. Len(v) : Kids(v, i) \subseteq 1 .. Len(v) \ {1}
    BY <1>3, <1>4
  <1>6. 1 \in 1 .. Len(v)
    BY <1>1
  <1>7. \A S \in SUBSET (1 .. Len(v)) : Wider(v, S) \in SUBSET (1 .. Len(v))
    BY <1>5 DEF Wider
  <1>8. Nodes(v) \subseteq 1 .. Len(v)
    BY <1>6, <1>7 DEF Nodes
  <1> QED  BY <1>1, <1>2, <1>3, <1>5, <1>6, <1>7, <1>8

\* S are the vnodes of T that a smaller tree has too.
Trimmed(v, w, T, S) == /\ S \subseteq 1 .. Len(v) /\ T \subseteq 1 .. Len(w)
                   /\ T \cap 1 .. Len(v) = S

\* Where the vnodes of a tree lead when it has grown.
LEMMA WiderGrows ==
  ASSUME NEW F, NEW v, NEW w, Tree(v), Grows(F, v, w), NEW S, NEW T, Trimmed(v, w, T, S)
  PROVE  Trimmed(v, w, Wider(w, T), Wider(v, S))
  <1>0. S \in SUBSET (1 .. Len(v)) /\ T \in SUBSET (1 .. Len(w)) /\ T \cap 1 .. Len(v) = S
    BY DEF Trimmed
  <1>1. /\ Len(v) \in Nat /\ Len(w) \in Nat /\ Len(v) <= Len(w)
        /\ \A i \in 1 .. Len(w) : Kids(w, i) \subseteq i + 1 .. Len(w)
        /\ \A i \in 1 .. Len(v) : Kids(v, i) \subseteq 1 .. Len(v)
    BY VnodePlaces DEF Grows
  <1>2. \A i \in T : \A x \in Kids(w, i) : x \in 1 .. Len(v) => i \in 1 .. Len(v)
    <2>1. \A i \in 1 .. Len(w) : \A x \in i + 1 .. Len(w) : x \in 1 .. Len(v) => i \in 1 .. Len(v)
      BY <1>1
    <2> QED  BY <1>0, <1>1, <2>1
  <1>3. ASSUME NEW x \in Wider(w, T), x \in 1 .. Len(v)  PROVE x \in Wider(v, S)
    <2>1. CASE x \in T
      BY <1>0, <1>3, <2>1 DEF Wider
    <2>2. CASE x \notin T
      <3>1. PICK i \in T : x \in Kids(w, i)
        BY <2>2 DEF Wider
      <3>2. i \in S /\ i \in 1 .. Len(v)
        BY <1>0, <1>2, <1>3, <3>1
      <3>3. x \in Kids(v, i)
        BY <1>3, <3>1, <3>2 DEF Grows
      <3> QED  BY <3>2, <3>3 DEF Wider
    <2> QED  BY <2>1, <2>2
  <1>4. ASSUME NEW x \in Wider(v, S)  PROVE x \in Wider(w, T) /\ x \in 1 .. Len(v)
    <2>1. CASE x \in S
      BY <1>0, <2>1 DEF Wider
    <2>2. CASE x \notin S
      <3>1. PICK i \in S : x \in Kids(v, i)
        BY <2>2 DEF Wider
      <3>2. x \in Kids(w, i) /\ x \in 1 .. Len(v) /\ i \in T
        BY <1>0, <1>1, <3>1 DEF Grows
      <3> QED  BY <3>2 DEF Wider
    <2> QED  BY <2>1, <2>2
  <1>5. /\ Wider(v, S) \subseteq 1 .. Len(v) /\ Wider(w, T) \subseteq 1 .. Len(w)
    BY <1>0, VnodePlaces DEF Grows
  <1> QED  BY <1>3, <1>4, <1>5 DEF Trimmed

\* No vnode is lost when a tree grows, and none comes back.
LEMMA NodesGrow ==
  ASSUME NEW F, NEW v, NEW w, Tree(v), Grows(F, v, w)
  PROVE  /\ Wider(w, {1}) \cap 1 .. Len(v) = Wider(v, {1})
         /\ Wider(w, Wider(w, {1})) \cap 1 .. Len(v) = Wider(v, Wider(v, {1}))
         /\ Nodes(w) \cap 1 .. Len(v) = Nodes(v)
  <1>1. 1 \in 1 .. Len(v) /\ 1 \in 1 .. Len(w)
    BY VnodePlaces DEF Grows
  <1>2. PICK r : r = {1}
    OBVIOUS
  <1>3. Trimmed(v, w, r, r)
    BY <1>1, <1>2 DEF Trimmed
  <1>4. Trimmed(v, w, Wider(w, r), Wider(v, r))
    BY <1>3, WiderGrows
  <1>5. Trimmed(v, w, Wider(w, Wider(w, r)), Wider(v, Wider(v, r)))
    BY <1>4, WiderGrows
  <1>6. Trimmed(v, w, Wider(w, Wider(w, Wider(w, r))), Wider(v, Wider(v, Wider(v, r))))
    BY <1>5, WiderGrows
  <1>7. \A S, T : Trimmed(v, w, T, S) => T \cap 1 .. Len(v) = S
    BY DEF Trimmed
  <1> QED  BY <1>2, <1>4, <1>5, <1>6, <1>7 DEF Nodes

LEMMA PutIn ==
  ASSUME NEW S, NEW s \in Seq(S), NEW p \in 1 .. Len(s), NEW y \in S,
         NEW w, w = [s EXCEPT ![p] = y]
  PROVE  /\ w \in Seq(S) /\ Len(w) = Len(s)
         /\ \A i \in 1 .. Len(s) : w[i] = IF i = p THEN y ELSE s[i]
  BY ExceptSeq

\* A vnode below another, for a file no vnode there has the name of.
LEMMA Grown ==
  ASSUME NEW F, NEW v, Tree(v), NEW p \in 1 .. Len(v), NEW f \in Handle,
         f.dir = v[p].handle.id, f.id \notin {ROOT, VIRT, DEV},
         Listed(F, v[p].driver, f),
         \A c \in Kids(v, p) : v[c].handle.name # f.name,
         NEW k, k = Len(v) + 1, NEW w, w = VFS_insert_vnode(VFS_make_vnode(v, p, f), p, k)
  PROVE  Grows(F, v, w) /\ k \in Kids(w, p)
  <1> DEFINE x == [parent |-> p, handle |-> f, driver |-> v[p].driver, children |-> <<>>]
             u == Append(v, x)
             L == Len(v)
  <1>1. /\ v \in Seq(Node) /\ L \in Nat /\ DOMAIN v = 1 .. L /\ p \in 1 .. L
        /\ 1 \in 1 .. L /\ \A i \in 1 .. L : v[i] \in Node
    BY VnodePlaces
  <1>2. /\ x \in Node
        /\ x.parent = p /\ x.handle = f /\ x.children = <<>> /\ x.driver = v[p].driver
    <2>1. v[p].driver \in {"fat", "vfm", "dev"} /\ p \in Nat
      BY <1>1 DEF Node
    <2>2. <<>> \in Seq(Nat)
      BY EmptySeq
    <2> QED  BY <2>1, <2>2 DEF Node
  <1>3. /\ u \in Seq(Node) /\ Len(u) = L + 1 /\ u[L + 1] = x
        /\ \A i \in 1 .. L : u[i] = v[i]
    BY <1>1, <1>2, Longer
  <1>4. w = [u EXCEPT ![p].children = Append(@, k)] /\ k = L + 1
    BY DEF VFS_insert_vnode, VFS_make_vnode
  <1> HIDE DEF x, u, L
  <1>5. /\ k \in Nat /\ k \notin 1 .. L /\ p \in 1 .. k /\ p # k /\ k \in p + 1 .. k
        /\ L <= k /\ k # 1 /\ \A i \in 1 .. k : i \in 1 .. L \/ i = k
        /\ \A i \in 1 .. L : i \in 1 .. k
        /\ \A i \in 1 .. L : \A c \in i + 1 .. L : c \in i + 1 .. k /\ c # k /\ c \in 1 .. L
    BY <1>1, <1>4
  <1>6. /\ v[p].children \in Seq(Nat) /\ k \notin Kids(v, p)
    <2>1. Kids(v, p) \subseteq 1 .. L
      BY <1>1, <1>5, VnodePlaces DEF L
    <2> QED  BY <1>1, <1>5, <2>1 DEF Node
  <1> DEFINE a == Append(v[p].children, k)
  <1>7. /\ a \in Seq(Nat) /\ ToSet(a) = Kids(v, p) \cup {k}
        /\ IsInjective(v[p].children) => IsInjective(a)
    BY <1>5, <1>6, Longer DEF Kids
  <1>8. DOMAIN u = 1 .. k /\ u[p] = v[p] /\ u[k] = x
    BY <1>1, <1>3, <1>4, LenProperties
  <1> DEFINE y == [v[p] EXCEPT !.children = a]
  <1>9. w = [u EXCEPT ![p] = y]
    BY <1>4, <1>8
  <1> HIDE DEF a
  <1>10. /\ y \in Node /\ y.children = a /\ y.parent = v[p].parent
         /\ y.handle = v[p].handle /\ y.driver = v[p].driver
    BY <1>1, <1>7 DEF Node
  <1> HIDE DEF y
  <1>11. /\ w \in Seq(Node) /\ Len(w) = k
         /\ \A i \in 1 .. k : w[i] = IF i = p THEN y ELSE u[i]
    <2>1. Len(u) = k /\ p \in 1 .. Len(u)
      BY <1>3, <1>4, <1>5
    <2>2. /\ w \in Seq(Node) /\ Len(w) = Len(u)
          /\ \A i \in 1 .. Len(u) : w[i] = IF i = p THEN y ELSE u[i]
      <3>1. u \in Seq(Node) /\ y \in Node
        BY <1>3, <1>10
      <3>2. p \in 1 .. Len(u)
        BY <2>1
      <3>3. \A t \in Seq(Node) : \A e \in Node : \A o : \A j \in 1 .. Len(t) :
              o = [t EXCEPT ![j] = e] =>
                /\ o \in Seq(Node) /\ Len(o) = Len(t)
                /\ \A i \in 1 .. Len(t) : o[i] = IF i = j THEN e ELSE t[i]
        BY PutIn
      <3> QED  BY <1>9, <3>1, <3>2, <3>3
    <2> QED  BY <2>1, <2>2
  <1>12. /\ w[k] = x
         /\ \A i \in 1 .. L : /\ w[i].parent = v[i].parent /\ w[i].handle = v[i].handle
                              /\ w[i].driver = v[i].driver
                              /\ i # p => w[i].children = v[i].children
         /\ w[p].children = a
    <2>1. w[k] = x
      BY <1>5, <1>8, <1>11
    <2>2. w[p] = y
      BY <1>5, <1>11
    <2>3. \A i \in 1 .. L : i # p => w[i] = v[i]
      BY <1>3, <1>5, <1>11
    <2> QED  BY <1>10, <2>1, <2>2, <2>3
  <1>13. /\ Kids(w, k) = {} /\ Kids(w, p) = Kids(v, p) \cup {k}
         /\ \A i \in 1 .. L : i # p => Kids(w, i) = Kids(v, i)
         /\ \A i \in 1 .. L : \A c \in Kids(v, i) : c \in i + 1 .. L /\ c \in 1 .. L /\ c # k
    <2>1. ToSet(<<>>) = {}
      BY DEF ToSet
    <2>2. \A i \in 1 .. L : \A c \in Kids(v, i) : c \in i + 1 .. L
      BY VnodePlaces DEF L
    <2>3. Kids(w, k) = {}
      BY <1>2, <1>12, <2>1 DEF Kids
    <2>4. Kids(w, p) = Kids(v, p) \cup {k}
      BY <1>7, <1>12 DEF Kids
    <2>5. \A i \in 1 .. L : i # p => Kids(w, i) = Kids(v, i)
      BY <1>12 DEF Kids
    <2> QED  BY <1>5, <2>2, <2>3, <2>4, <2>5
  <1>14. ASSUME NEW i \in 1 .. L  PROVE Family(w, i)
    <2>1. Family(v, i)
      BY DEF Tree, L
    <2>2. IsInjective(w[i].children)
      BY <1>7, <1>12, <2>1 DEF Family
    <2>3. /\ w[i].handle.id \in {VIRT, DEV} => w[i].driver # "fat"
          /\ w[i].handle.id = ROOT => i = 1
      BY <1>12, <2>1 DEF Family
    <2>4. ASSUME NEW c \in Kids(w, i)
          PROVE  /\ c \in i + 1 .. Len(w) /\ w[c].parent = i
                 /\ w[c].handle.dir = w[i].handle.id
      <3>1. CASE c \in Kids(v, i)
        <4>1. c \in i + 1 .. k /\ c \in 1 .. L
          BY <1>5, <1>13, <3>1
        <4>2. v[c].parent = i /\ v[c].handle.dir = v[i].handle.id
          BY <2>1, <3>1 DEF Family
        <4> QED  BY <1>11, <1>12, <4>1, <4>2
      <3>2. CASE c \notin Kids(v, i)
        <4>1. i = p /\ c = k
          BY <1>13, <3>2
        <4> QED  BY <1>2, <1>5, <1>11, <1>12, <4>1
      <3> QED  BY <3>1, <3>2
    <2>5. ASSUME NEW c \in Kids(w, i), NEW d \in Kids(w, i),
                 w[c].handle.name = w[d].handle.name
          PROVE  c = d
      <3>1. \A e \in Kids(w, i) : \/ e \in Kids(v, i) /\ w[e].handle = v[e].handle
                                  \/ i = p /\ e = k /\ w[e].handle = f
        BY <1>2, <1>12, <1>13
      <3>2. \A e \in Kids(v, i) : i = p => v[e].handle.name # f.name
        OBVIOUS
      <3> QED  BY <2>1, <2>5, <3>1, <3>2 DEF Family
    <2> QED  BY <2>2, <2>3, <2>4, <2>5 DEF Family
  <1>15. Family(w, k)
    <2>1. IsInjective(<<>>)
      BY DEF IsInjective
    <2>2. IsInjective(w[k].children)
      BY <1>2, <1>12, <2>1
    <2> QED  BY <1>2, <1>12, <1>13, <2>2 DEF Family
  <1>16. Tree(w)
    <2>1. Len(w) >= 1
      BY <1>5, <1>11
    <2>2. \A i \in 1 .. Len(w) : Family(w, i)
      BY <1>5, <1>11, <1>14, <1>15
    <2> QED  BY <1>11, <2>1, <2>2 DEF Tree
  <1>17. \A i \in 1 .. Len(w) : i \notin 1 .. L => Found(F, w[i])
    <2>1. Found(F, w[k])
      BY <1>2, <1>12 DEF Found
    <2> QED  BY <1>5, <1>11, <2>1
  <1>18. \A i \in 1 .. L : Kids(v, i) \subseteq Kids(w, i)
                           /\ Kids(w, i) \cap 1 .. L \subseteq Kids(v, i)
    BY <1>5, <1>13
  <1>19. Grows(F, v, w)
    BY <1>5, <1>11, <1>12, <1>16, <1>17, <1>18 DEF Grows, L
  <1> QED  BY <1>13, <1>19

\* A growing tree keeps growing.
LEMMA GrowsOn ==
  ASSUME NEW F, NEW u, NEW v, NEW w, Tree(u), Grows(F, u, v), Grows(F, v, w)
  PROVE  Grows(F, u, w)
  <1>1. /\ Len(u) \in Nat /\ Len(v) \in Nat /\ Len(w) \in Nat
        /\ Len(u) <= Len(v) /\ Len(v) <= Len(w)
    BY VnodePlaces DEF Grows
  <1>2. Len(u) <= Len(w) /\ 1 .. Len(u) \subseteq 1 .. Len(v)
    BY <1>1
  <1>3. \A i \in 1 .. Len(w) : i \notin 1 .. Len(u) => Found(F, w[i])
    <2>1. \A i \in 1 .. Len(v) : i \notin 1 .. Len(u) => Found(F, v[i])
      BY DEF Grows
    <2>2. \A i \in 1 .. Len(w) : i \notin 1 .. Len(v) => Found(F, w[i])
      BY DEF Grows
    <2>3. \A i \in 1 .. Len(v) : w[i].handle = v[i].handle /\ w[i].driver = v[i].driver
      BY DEF Grows
    <2> QED  BY <2>1, <2>2, <2>3 DEF Found
  <1>4. \A i \in 1 .. Len(u) : /\ w[i].handle = u[i].handle /\ w[i].driver = u[i].driver
                               /\ Kids(u, i) \subseteq Kids(w, i)
                               /\ Kids(w, i) \cap 1 .. Len(u) \subseteq Kids(u, i)
    BY <1>2 DEF Grows
  <1>5. Tree(w)
    BY DEF Grows
  <1> QED  BY <1>2, <1>3, <1>4, <1>5 DEF Grows

LEMMA GrowsNone ==
  ASSUME NEW F, NEW v, Tree(v)
  PROVE  Grows(F, v, v)
  <1>1. Len(v) <= Len(v)
    BY VnodePlaces
  <1> QED  BY <1>1 DEF Grows

\* Looking a name up below a vnode.
LEMMA LookupIs ==
  ASSUME NEW n, Numbered(fs, n), NEW v, Tree(v), NEW p \in 1 .. Len(v), NEW m \in Names,
         NEW r, r = VFS_lookup(v, p, m)
  PROVE  Grows(fs, v, r.v) /\ (r.node = NoNode \/ r.node \in Kids(r.v, p))
  <1>1. CASE Cached(v, p, m) # {}
    <2>1. r = [v |-> v, node |-> CHOOSE c \in Cached(v, p, m) : TRUE]
      BY <1>1 DEF VFS_lookup
    <2>2. r.v = v /\ r.node \in Cached(v, p, m)
      BY <1>1, <2>1
    <2> QED  BY <2>2, GrowsNone DEF Cached, Kids
  <1>2. CASE Cached(v, p, m) = {}
    <2> DEFINE found == f_Lookup(v[p].driver, v[p].handle.id, m)
    <2>1. r = Fetch(v, p, m)
      BY <1>2 DEF VFS_lookup
    <2>2. CASE found = {}
      BY <2>1, <2>2, GrowsNone DEF Fetch
    <2>3. CASE found # {}
      <3>1. PICK f : f \in found /\ f = CHOOSE g \in found : TRUE
        BY <2>3
      <3>2. PICK e : /\ e \in Matches(v[p].driver, v[p].handle.id, m)
                     /\ f = File(e.id, v[p].handle.id, m)
        BY <3>1 DEF f_Lookup
      <3>3. /\ e \in fs /\ e.dir = v[p].handle.id /\ e.name = Key(v[p].driver, m)
            /\ f = [id |-> e.id, dir |-> v[p].handle.id, name |-> m]
            /\ f.id = e.id /\ f.dir = v[p].handle.id /\ f.name = m
        BY <3>2 DEF Matches, File
      <3>4. f \in Handle /\ f.id \notin {ROOT, VIRT, DEV}
        <4>1. e.id \in {STDIN, STDOUT} \cup 1 .. n /\ n \in Nat
          BY <3>3 DEF Numbered
        <4>2. e.id \in Int /\ e.id \notin {ROOT, VIRT, DEV}
          BY <4>1 DEF STDIN, STDOUT, VIRT, DEV, ROOT
        <4>3. v[p].handle.id \in Int
          BY VnodePlaces DEF Node, Handle
        <4> QED  BY <3>3, <4>2, <4>3 DEF Handle
      <3>5. \A c \in Kids(v, p) : v[c].handle.name # f.name
        BY <1>2, <3>3 DEF Cached, Kids
      <3>6. PICK k : k = Len(v) + 1
        OBVIOUS
      <3>7. PICK w : w = VFS_insert_vnode(VFS_make_vnode(v, p, f), p, k)
        OBVIOUS
      <3>10. Listed(fs, v[p].driver, f)
        BY <3>3 DEF Listed
      <3>8. Grows(fs, v, w) /\ k \in Kids(w, p)
        BY <3>3, <3>4, <3>5, <3>6, <3>7, <3>10, Grown
      <3>9. r = [v |-> w, node |-> k]
        BY <2>1, <2>3, <3>1, <3>6, <3>7 DEF Fetch
      <3> QED  BY <3>8, <3>9
    <2> QED  BY <2>2, <2>3
  <1> QED  BY <1>1, <1>2

\* The walk of a path takes its names one after the other.
LEMMA WalkStep ==
  ASSUME NEW v, NEW path, Len(path) \in 0 .. 3
  PROVE  \E w : /\ VFS_walk_path(v, path) = w[Len(path)]
                /\ w[0] = [v |-> v, node |-> 1]
                /\ \A i \in 1 .. Len(path) :
                     w[i] = IF w[i - 1].node = NoNode THEN w[i - 1]
                            ELSE VFS_lookup(w[i - 1].v, w[i - 1].node, path[i])
  <1> DEFINE c == [v |-> v, node |-> 1]
             L == Len(path)
             next(r, i) == IF r.node = NoNode THEN r ELSE VFS_lookup(r.v, r.node, path[i])
             body(w) == [i \in 0 .. L |-> IF i = 0 THEN c ELSE next(w[i - 1], i)]
             g == [i \in 0 .. L |-> IF i = 0 THEN c ELSE IF i = 1 THEN next(c, 1)
                                    ELSE IF i = 2 THEN next(next(c, 1), 2)
                                    ELSE next(next(next(c, 1), 2), 3)]
             walk == CHOOSE w : w = body(w)
  <1>1. VFS_walk_path(v, path) = walk[L]
    BY DEF VFS_walk_path
  <1> HIDE DEF c, next
  <1>2. g = body(g)
    <2>1. ASSUME NEW i \in 0 .. L
          PROVE  g[i] = IF i = 0 THEN c ELSE next(g[i - 1], i)
      <3>1. L \in 0 .. 3
        OBVIOUS
      <3> HIDE DEF L
      <3>2. CASE i = 0
        BY <3>2
      <3>3. CASE i = 1
        <4>1. i - 1 = 0 /\ 0 \in 0 .. L
          BY <3>1, <3>3
        <4> QED  BY <3>3, <4>1
      <3>4. CASE i = 2
        <4>1. i - 1 = 1 /\ 1 \in 0 .. L
          BY <3>1, <3>4
        <4>2. g[1] = next(c, 1) /\ g[2] = next(next(c, 1), 2)
          BY <3>4, <4>1
        <4> QED  BY <3>4, <4>1, <4>2
      <3>5. CASE i = 3
        <4>1. i - 1 = 2 /\ 2 \in 0 .. L
          BY <3>1, <3>5
        <4>2. g[2] = next(next(c, 1), 2) /\ g[3] = next(next(next(c, 1), 2), 3)
          BY <3>5, <4>1
        <4> QED  BY <3>5, <4>1, <4>2
      <3> QED  BY <3>1, <3>2, <3>3, <3>4, <3>5
    <2> QED  BY <2>1
  <1>3. walk = body(walk)
    <2> HIDE DEF body, g
    <2> QED  BY <1>2
  <1> HIDE DEF walk
  <1>4. \A i \in 0 .. L : walk[i] = IF i = 0 THEN c ELSE next(walk[i - 1], i)
    BY <1>3
  <1>5. walk[0] = c /\ \A i \in 1 .. L : walk[i] = next(walk[i - 1], i)
    BY <1>4
  <1> QED  BY <1>1, <1>5 DEF c, next

\* One name more, from a vnode among those of S.
LEMMA WalkOn ==
  ASSUME NEW n, Numbered(fs, n), NEW a, Tree(a.v), NEW S \in SUBSET (1 .. Len(a.v)),
         a.node \in {NoNode} \cup S, NEW m \in Names,
         NEW r, r = IF a.node = NoNode THEN a ELSE VFS_lookup(a.v, a.node, m)
  PROVE  /\ Grows(fs, a.v, r.v) /\ Tree(r.v)
         /\ r.node = NoNode \/ \E q \in S : r.node \in Kids(r.v, q)
  <1>1. CASE a.node = NoNode
    BY <1>1, GrowsNone
  <1>2. CASE a.node # NoNode
    <2>1. a.node \in S /\ a.node \in 1 .. Len(a.v) /\ r = VFS_lookup(a.v, a.node, m)
      BY <1>2
    <2>2. Grows(fs, a.v, r.v) /\ (r.node = NoNode \/ r.node \in Kids(r.v, a.node))
      BY <2>1, LookupIs
    <2> QED  BY <2>1, <2>2 DEF Grows
  <1> QED  BY <1>1, <1>2

\* Where a path of at most three names leads.
LEMMA WalkIs ==
  ASSUME NEW n, Numbered(fs, n), NEW v, Tree(v), NEW path, Len(path) \in 0 .. 3,
         \A i \in 1 .. Len(path) : path[i] \in Names,
         NEW r, r = VFS_walk_path(v, path)
  PROVE  /\ Grows(fs, v, r.v) /\ r.node \in {NoNode} \cup Nodes(r.v)
         /\ Len(path) # 0 => \/ r.node = NoNode
                             \/ \E q \in 1 .. Len(r.v) : r.node \in Kids(r.v, q)
  <1>1. PICK w : /\ r = w[Len(path)]
                 /\ w[0] = [v |-> v, node |-> 1]
                 /\ \A i \in 1 .. Len(path) :
                      w[i] = IF w[i - 1].node = NoNode THEN w[i - 1]
                             ELSE VFS_lookup(w[i - 1].v, w[i - 1].node, path[i])
    BY WalkStep
  <1>2. \A i \in 1 .. 3 : i <= Len(path) =>
          w[i] = IF w[i - 1].node = NoNode THEN w[i - 1]
                 ELSE VFS_lookup(w[i - 1].v, w[i - 1].node, path[i])
    BY <1>1
  <1> DEFINE A(u) == Wider(u, {1})
             B(u) == Wider(u, A(u))
  <1>3. \A u : /\ {1} \subseteq A(u) /\ A(u) \subseteq B(u) /\ B(u) \subseteq Nodes(u)
               /\ \A x : /\ (x \in Kids(u, 1) => x \in A(u))
                         /\ \A q \in A(u) : x \in Kids(u, q) => x \in B(u)
                         /\ \A q \in B(u) : x \in Kids(u, q) => x \in Nodes(u)
    BY DEF Wider, Nodes
  <1>4. \A u : Tree(u) => /\ {1} \in SUBSET (1 .. Len(u)) /\ A(u) \in SUBSET (1 .. Len(u))
                          /\ B(u) \in SUBSET (1 .. Len(u))
    <2> SUFFICES ASSUME NEW u, Tree(u)
                 PROVE  /\ {1} \in SUBSET (1 .. Len(u)) /\ A(u) \in SUBSET (1 .. Len(u))
                        /\ B(u) \in SUBSET (1 .. Len(u))
      OBVIOUS
    <2>1. /\ {1} \in SUBSET (1 .. Len(u))
          /\ \A S \in SUBSET (1 .. Len(u)) : Wider(u, S) \in SUBSET (1 .. Len(u))
      BY VnodePlaces
    <2>2. A(u) \in SUBSET (1 .. Len(u))
      BY <2>1
    <2> HIDE DEF A
    <2>3. B(u) \in SUBSET (1 .. Len(u))
      BY <2>1, <2>2
    <2> QED  BY <2>1, <2>2, <2>3
  <1>5. \A u, t : Tree(u) /\ Grows(fs, u, t) => A(u) \subseteq A(t) /\ B(u) \subseteq B(t)
    BY NodesGrow
  <1> HIDE DEF A, B
  <1>6. w[0].v = v /\ w[0].node = 1 /\ Grows(fs, v, w[0].v)
    BY <1>1, GrowsNone
  <1>7. CASE Len(path) = 0
    BY <1>1, <1>3, <1>6, <1>7
  <1>8. ASSUME 1 <= Len(path)
        PROVE  /\ Grows(fs, v, w[1].v) /\ Tree(w[1].v)
               /\ w[1].node = NoNode \/ w[1].node \in Kids(w[1].v, 1)
    <2>1. path[1] \in Names
      BY <1>8
    <2>2. w[1] = IF w[0].node = NoNode THEN w[0] ELSE VFS_lookup(w[0].v, w[0].node, path[1])
      BY <1>2, <1>8
    <2>3. w[0].node \in {NoNode} \cup {1} /\ Tree(w[0].v) /\ {1} \in SUBSET (1 .. Len(w[0].v))
      BY <1>4, <1>6
    <2>4. PICK a, s : a = w[0] /\ s = w[1]
      OBVIOUS
    <2>5. PICK o : o = {1}
      OBVIOUS
    <2>6. a.node \in {NoNode} \cup o /\ Tree(a.v) /\ o \in SUBSET (1 .. Len(a.v))
      BY <2>3, <2>4, <2>5
    <2>7. Grows(fs, a.v, s.v) /\ Tree(s.v) /\ (s.node = NoNode \/ \E q \in o : s.node \in Kids(s.v, q))
      BY <2>1, <2>2, <2>4, <2>6, WalkOn
    <2> QED  BY <1>6, <2>4, <2>5, <2>7
  <1>9. ASSUME 2 <= Len(path)
        PROVE  /\ Grows(fs, v, w[2].v) /\ Tree(w[2].v)
               /\ w[2].node = NoNode \/ \E q \in A(w[2].v) : w[2].node \in Kids(w[2].v, q)
    <2>1. path[2] \in Names /\ 1 <= Len(path)
      BY <1>9
    <2>2. w[2] = IF w[1].node = NoNode THEN w[1] ELSE VFS_lookup(w[1].v, w[1].node, path[2])
      BY <1>2, <1>9
    <2>4. PICK a, s : a = w[1] /\ s = w[2]
      OBVIOUS
    <2>3. a.node \in {NoNode} \cup A(a.v) /\ Tree(a.v) /\ A(a.v) \in SUBSET (1 .. Len(a.v))
      BY <1>3, <1>4, <1>8, <2>1, <2>4
    <2>5. Grows(fs, a.v, s.v) /\ Tree(s.v) /\ (s.node = NoNode \/ \E q \in A(a.v) : s.node \in Kids(s.v, q))
      BY <2>1, <2>2, <2>3, <2>4, WalkOn
    <2>6. A(a.v) \subseteq A(s.v) /\ Grows(fs, v, s.v)
      BY <1>5, <1>8, <2>1, <2>3, <2>4, <2>5, GrowsOn
    <2> QED  BY <2>4, <2>5, <2>6
  <1>10. ASSUME 3 <= Len(path)
         PROVE  /\ Grows(fs, v, w[3].v) /\ Tree(w[3].v)
                /\ w[3].node = NoNode \/ \E q \in B(w[3].v) : w[3].node \in Kids(w[3].v, q)
    <2>1. path[3] \in Names /\ 2 <= Len(path)
      BY <1>10
    <2>2. w[3] = IF w[2].node = NoNode THEN w[2] ELSE VFS_lookup(w[2].v, w[2].node, path[3])
      BY <1>2, <1>10
    <2>4. PICK a, s : a = w[2] /\ s = w[3]
      OBVIOUS
    <2>3. a.node \in {NoNode} \cup B(a.v) /\ Tree(a.v) /\ B(a.v) \in SUBSET (1 .. Len(a.v))
      BY <1>3, <1>4, <1>9, <2>1, <2>4
    <2>5. Grows(fs, a.v, s.v) /\ Tree(s.v) /\ (s.node = NoNode \/ \E q \in B(a.v) : s.node \in Kids(s.v, q))
      BY <2>1, <2>2, <2>3, <2>4, WalkOn
    <2>6. B(a.v) \subseteq B(s.v) /\ Grows(fs, v, s.v)
      BY <1>5, <1>9, <2>1, <2>3, <2>4, <2>5, GrowsOn
    <2> QED  BY <2>4, <2>5, <2>6
  <1>11. CASE Len(path) = 1
    BY <1>1, <1>3, <1>4, <1>8, <1>11
  <1>12. CASE Len(path) = 2
    BY <1>1, <1>3, <1>4, <1>9, <1>12
  <1>13. CASE Len(path) = 3
    BY <1>1, <1>3, <1>4, <1>10, <1>13
  <1> QED  BY <1>7, <1>11, <1>12, <1>13

\* A path has one to three names.
LEMMA PathIs ==
  ASSUME NEW path \in Paths
  PROVE  /\ Len(path) \in 1 .. 3 /\ \A i \in 1 .. Len(path) : path[i] \in Names
         /\ Len(Front(path)) \in 0 .. 2
         /\ \A i \in 1 .. Len(Front(path)) : Front(path)[i] \in Names
  <1>1. \/ \E a \in Names : path = <<a>>
        \/ \E a, b \in Names : path = <<a, b>>
        \/ \E a, b, c \in Names : path = <<a, b, c>>
    <2>1. /\ DirNames \cup FileNames \cup {"VIRT", "DEV"} \subseteq Names
          /\ FileNames \cup {"."} \subseteq Names /\ DirNames \cup {"VIRT"} \subseteq Names
          /\ {".", "DEV", "STDIN", "STDOUT"} \subseteq Names
      BY DEF Names
    <2>2. \/ \E a \in DirNames \cup FileNames \cup {"VIRT", "DEV"} : path = <<a>>
          \/ \E a \in DirNames \cup {"VIRT"}, b \in FileNames \cup {"."} : path = <<a, b>>
          \/ \E a \in DirNames, b \in FileNames : path = <<a, ".", b>>
          \/ \E b \in {"STDIN", "STDOUT"} : path = <<"DEV", b>>
      BY DEF Paths
    <2> QED  BY <2>1, <2>2
  <1>2. ASSUME NEW a \in Names, path = <<a>>
        PROVE  Len(path) = 1 /\ path \in Seq(Names)
    BY <1>2
  <1>3. ASSUME NEW a \in Names, NEW b \in Names, path = <<a, b>>
        PROVE  Len(path) = 2 /\ path \in Seq(Names)
    BY <1>3
  <1>4. ASSUME NEW a \in Names, NEW b \in Names, NEW c \in Names, path = <<a, b, c>>
        PROVE  Len(path) = 3 /\ path \in Seq(Names)
    BY <1>4
  <1>5. Len(path) \in 1 .. 3 /\ path \in Seq(Names)
    <2> HIDE DEF Names
    <2> QED  BY <1>1, <1>2, <1>3, <1>4
  <1>6. \A i \in 1 .. Len(path) : path[i] \in Names
    BY <1>5, ElementOfSeq
  <1>7. /\ Len(Front(path)) = Len(path) - 1
        /\ \A i \in 1 .. Len(path) - 1 : Front(path)[i] = path[i]
    <2> DEFINE n == Len(path) - 1
    <2>1. /\ n \in Int /\ 1 \in Int /\ (IF 1 <= n THEN n - 1 + 1 ELSE 0) = n
          /\ \A i \in 1 .. n : i \in 1 .. Len(path) /\ 1 + i - 1 = i
      <3>1. Len(path) \in {1, 2, 3}
        BY <1>5
      <3> QED  BY <3>1
    <2>2. \A i \in 1 .. n : path[i] \in Names
      BY <1>6, <2>1
    <2> HIDE DEF n
    <2>3. Len(SubSeq(path, 1, n)) = n /\ \A i \in 1 .. n : SubSeq(path, 1, n)[i] = path[i]
      BY <2>1, <2>2, SubSeqProperties
    <2> QED  BY <2>3 DEF Front, n
  <1>8. Len(path) - 1 \in 0 .. 2 /\ \A i \in 1 .. Len(path) - 1 : i \in 1 .. Len(path)
    BY <1>5
  <1> QED  BY <1>5, <1>6, <1>7, <1>8

\* A vnode is taken out of the tree.
LEMMA Pruned ==
  ASSUME NEW v, Tree(v), NEW q \in 1 .. Len(v), NEW c \in Kids(v, q), NEW w, w = unlink(v, c)
  PROVE  /\ Tree(w) /\ Len(w) = Len(v)
         /\ \A i \in 1 .. Len(v) : w[i].handle = v[i].handle /\ w[i].driver = v[i].driver
         /\ \A i \in 1 .. Len(v) : Kids(w, i) = Kids(v, i) \ {c}
  <1> DEFINE p == v[c].parent
             L == Len(v)
             s == v[p].children
  <1>1. /\ v \in Seq(Node) /\ L \in Nat /\ DOMAIN v = 1 .. L /\ 1 \in 1 .. L
        /\ \A i \in 1 .. L : v[i] \in Node
        /\ \A i \in 1 .. L : Kids(v, i) \subseteq i + 1 .. L /\ Kids(v, i) \subseteq 1 .. L
    BY VnodePlaces
  <1>2. \A i \in 1 .. L : Family(v, i)
    BY DEF Tree
  <1>5. p = q
    BY <1>2 DEF Family
  <1>6. /\ p \in 1 .. L /\ c \in Kids(v, p)
        /\ s \in Seq(Nat) /\ IsInjective(s) /\ c \in ToSet(s)
    <2>1. v[p] \in Node /\ Family(v, p)
      BY <1>1, <1>2, <1>5
    <2> QED  BY <1>5, <2>1 DEF Node, Family, Kids
  <1> HIDE DEF p
  <1> DEFINE k == CHOOSE j \in 1 .. Len(s) : s[j] = c
             b == RemoveAt(s, k)
  <1>7. k \in 1 .. Len(s) /\ s[k] = c
    <2>1. \E j \in 1 .. Len(s) : s[j] = c
      BY <1>6, LenProperties DEF ToSet
    <2> HIDE DEF s
    <2> QED  BY <2>1
  <1>8. w = [v EXCEPT ![p] = [v[p] EXCEPT !.children = b]]
    BY <1>1, <1>6 DEF unlink, p
  <1> HIDE DEF k, s
  <1>9. b \in Seq(Nat) /\ IsInjective(b) /\ ToSet(b) = ToSet(s) \ {c}
    BY <1>6, <1>7, Shorter
  <1> HIDE DEF b
  <1> DEFINE y == [v[p] EXCEPT !.children = b]
  <1>10. /\ y \in Node /\ y.children = b /\ y.parent = v[p].parent
         /\ y.handle = v[p].handle /\ y.driver = v[p].driver
    BY <1>1, <1>6, <1>9 DEF Node
  <1> HIDE DEF y
  <1>11. /\ w \in Seq(Node) /\ Len(w) = L
         /\ \A i \in 1 .. L : w[i] = IF i = p THEN y ELSE v[i]
    BY <1>1, <1>6, <1>8, <1>10, ExceptSeq DEF y
  <1>12. \A i \in 1 .. L : /\ w[i].parent = v[i].parent /\ w[i].handle = v[i].handle
                           /\ w[i].driver = v[i].driver
    BY <1>10, <1>11
  <1>13. /\ Kids(w, p) = Kids(v, p) \ {c}
         /\ \A i \in 1 .. L : i # p => Kids(w, i) = Kids(v, i)
    BY <1>6, <1>9, <1>10, <1>11 DEF Kids, s
  <1>14. \A i \in 1 .. L : Kids(w, i) = Kids(v, i) \ {c}
    <2>1. \A i \in 1 .. L : c \in Kids(v, i) => i = p
      BY <1>2 DEF Family, p
    <2> QED  BY <1>13, <2>1
  <1>15. ASSUME NEW i \in 1 .. L  PROVE Family(w, i)
    <2>1. Family(v, i)
      BY <1>2
    <2>2. IsInjective(w[i].children)
      BY <1>9, <1>10, <1>11, <2>1 DEF Family
    <2>3. /\ w[i].handle.id \in {VIRT, DEV} => w[i].driver # "fat"
          /\ w[i].handle.id = ROOT => i = 1
      BY <1>12, <2>1 DEF Family
    <2>4. \A d \in Kids(w, i) : d \in Kids(v, i) /\ d \in 1 .. L
      BY <1>1, <1>14
    <2>5. ASSUME NEW d \in Kids(w, i)
          PROVE  d \in i + 1 .. Len(w) /\ w[d].parent = i /\ w[d].handle.dir = w[i].handle.id
      BY <1>11, <1>12, <2>1, <2>4 DEF Family
    <2>6. \A d, e \in Kids(w, i) : w[d].handle.name = w[e].handle.name => d = e
      BY <1>12, <2>1, <2>4 DEF Family
    <2> QED  BY <2>2, <2>3, <2>5, <2>6 DEF Family
  <1>16. Tree(w)
    <2>1. Len(w) >= 1
      BY <1>1, <1>11
    <2> QED  BY <1>11, <1>15, <2>1 DEF Tree
  <1> QED  BY <1>11, <1>12, <1>14, <1>16


-----------------------------------------------------------------------------
(* Steps                                                                   *)

\* What a walk from a state of the system finds.
LEMMA Walked ==
  ASSUME TreeInv, NEW path, Len(path) \in 0 .. 3,
         \A i \in 1 .. Len(path) : path[i] \in Names,
         NEW w, w = VFS_walk_path(vnodes, path)
  PROVE  /\ Grows(fs, vnodes, w.v) /\ Tree(vnodes) /\ Tree(w.v) /\ Numbered(fs, created)
         /\ w.node # NoNode => /\ w.node \in Nodes(w.v)
                               /\ w.v[w.node].driver \in {"fat", "vfm", "dev"}
                               /\ w.v[w.node].handle \in Handle
         /\ Len(path) # 0 => \/ w.node = NoNode
                             \/ \E q \in 1 .. Len(w.v) : w.node \in Kids(w.v, q)
  <1>1. Tree(vnodes) /\ Numbered(fs, created)
    BY DEF TreeInv
  <1>2. /\ Grows(fs, vnodes, w.v) /\ w.node \in {NoNode} \cup Nodes(w.v)
        /\ Len(path) # 0 => \/ w.node = NoNode
                            \/ \E q \in 1 .. Len(w.v) : w.node \in Kids(w.v, q)
    BY <1>1, WalkIs
  <1>3. ASSUME w.node # NoNode  PROVE w.v[w.node] \in Node
    BY <1>2, <1>3, VnodePlaces DEF Grows
  <1> QED  BY <1>1, <1>2, <1>3 DEF Node, Grows

\* A step adds vnodes to the tree, or it adds some and takes one out with the
\* entries its driver finds under its name.
Added == Grows(fs, vnodes, vnodes') /\ (fs \subseteq fs' \/ fault' = "null_walk")

Taken ==
  \E v, q, c : /\ Grows(fs, vnodes, v) /\ q \in 1 .. Len(v) /\ c \in Kids(v, q)
               /\ c \in Nodes(v) /\ v[c].driver = "fat" /\ vnodes' = unlink(v, c)
               /\ fs' = fs \ Matches(v[c].driver, v[c].handle.dir, v[c].handle.name)

\* The tree of vnodes and the files after a step.
LEMMA TreeSteps ==
  ASSUME TreeInv, [Next]_vars
  PROVE  TreeInv' /\ (Added \/ Taken)
  <1>1. ASSUME NEW path, Len(path) \in 0 .. 3,
               \A i \in 1 .. Len(path) : path[i] \in Names,
               vnodes' = VFS_walk_path(vnodes, path).v,
               fs \subseteq fs', Numbered(fs', created')
        PROVE  TreeInv' /\ Added
    <2>1. PICK w : w = VFS_walk_path(vnodes, path)
      OBVIOUS
    <2>2. Grows(fs, vnodes, vnodes')
      BY <1>1, <2>1, Walked
    <2> QED  BY <1>1, <2>2 DEF Grows, TreeInv, Added
  <1>2. ASSUME NEW path \in Paths, VFS_open(path)  PROVE TreeInv' /\ Added
    <2>1. Len(path) \in 0 .. 3 /\ \A i \in 1 .. Len(path) : path[i] \in Names
      BY PathIs
    <2>2. /\ vnodes' = VFS_walk_path(vnodes, path).v
          /\ fs' = fs /\ created' = created
      BY <1>2 DEF VFS_open, Fails
    <2>3. Numbered(fs', created')
      BY <2>2 DEF TreeInv
    <2> QED  BY <1>1, <2>1, <2>2, <2>3
  <1>3. ASSUME NEW path \in Paths, VFS_stat(path)  PROVE TreeInv' /\ Added
    <2>1. Len(path) \in 0 .. 3 /\ \A i \in 1 .. Len(path) : path[i] \in Names
      BY PathIs
    <2>2. /\ vnodes' = VFS_walk_path(vnodes, path).v
          /\ fs' = fs /\ created' = created
      BY <1>3 DEF VFS_stat, Fails
    <2>3. Numbered(fs', created')
      BY <2>2 DEF TreeInv
    <2> QED  BY <1>1, <2>1, <2>2, <2>3
  <1>4. ASSUME NEW path \in Paths, VFS_create(path)  PROVE TreeInv' /\ Added
    <2>1. /\ Len(Front(path)) \in 0 .. 3
          /\ \A i \in 1 .. Len(Front(path)) : Front(path)[i] \in Names
      BY PathIs
    <2>2. PICK w : w = VFS_walk_path(vnodes, Front(path))
      OBVIOUS
    <2>3. /\ vnodes' = w.v
          /\ \/ fs' = fs /\ created' = created
             \/ VFS_make_file(Driver(w), w.v[w.node].handle.id, Last(path))
      BY <1>4, <2>2 DEF VFS_create, VFS_get_dir_and_fname, Fails
    <2>4. Numbered(fs, created)
      BY DEF TreeInv
    <2>5. fs \subseteq fs' /\ Numbered(fs', created')
      <3>1. CASE fs' = fs /\ created' = created
        BY <2>4, <3>1
      <3>2. ASSUME NEW d, NEW i, NEW m, VFS_make_file(d, i, m)
            PROVE  fs \subseteq fs' /\ Numbered(fs', created')
        <4>1. PICK e, X : /\ e = Entry(created + 1, i, Key(d, m), FreeSlot(i))
                          /\ X = {Entry(x, x, ".", 1) :
                                    x \in IF m \in DirNames THEN {created + 1} ELSE {}}
          OBVIOUS
        <4>2. fs' = fs \cup {e} \cup X /\ created' = created + 1 /\ created \in Nat
          BY <2>4, <3>2, <4>1 DEF VFS_make_file, Numbered
        <4>3. e.id = created + 1 /\ \A x \in X : x.id = created + 1
          BY <4>1 DEF Entry
        <4>4. /\ created + 1 \in Nat /\ created + 1 \in 1 .. created + 1
              /\ \A j \in 1 .. created : j \in 1 .. created + 1
          BY <4>2
        <4> QED  BY <2>4, <4>2, <4>3, <4>4 DEF Numbered
      <3> QED  BY <2>3, <3>1, <3>2
    <2> QED  BY <1>1, <2>1, <2>2, <2>3, <2>5
  <1>5. ASSUME NEW path \in Paths, VFS_remove(path)  PROVE TreeInv' /\ (Added \/ Taken)
    <2>1. /\ Len(path) \in 0 .. 3 /\ Len(path) # 0
          /\ \A i \in 1 .. Len(path) : path[i] \in Names
      <3>1. Len(path) \in 1 .. 3 /\ \A i \in 1 .. Len(path) : path[i] \in Names
        BY PathIs
      <3> QED  BY <3>1
    <2>2. PICK w : w = VFS_walk_path(vnodes, path)
      OBVIOUS
    <2>3. PICK v, c, f : v = w.v /\ c = w.node /\ f = v[c].handle
      OBVIOUS
    <2>4. \/ fs' = fs /\ created' = created /\ vnodes' = v
          \/ /\ c # NoNode /\ v[c].driver \notin {"dev", "vfm"}
             /\ fs' = Without(v[c].driver, f) /\ created' = created
             /\ \/ fault' = "null_walk" /\ vnodes' = v
                \/ vnodes' = unlink(v, c)
      BY <1>5, <2>2, <2>3 DEF VFS_remove, Fails, Driver
    <2>5. /\ Grows(fs, vnodes, v) /\ Tree(v) /\ Numbered(fs, created)
          /\ c # NoNode => /\ c \in Nodes(v)
                           /\ v[c].driver \in {"fat", "vfm", "dev"}
          /\ c = NoNode \/ \E q \in 1 .. Len(v) : c \in Kids(v, q)
      BY <2>1, <2>2, <2>3, Walked
    <2>6. CASE fs' = fs /\ created' = created /\ vnodes' = v
      BY <2>5, <2>6 DEF Added, TreeInv
    <2>7. CASE /\ c # NoNode /\ v[c].driver \notin {"dev", "vfm"}
               /\ fs' = Without(v[c].driver, f) /\ created' = created
      <3>1. /\ fs' = fs \ Matches(v[c].driver, v[c].handle.dir, v[c].handle.name)
            /\ fs' \subseteq fs /\ v[c].driver = "fat"
        BY <2>3, <2>5, <2>7 DEF Without
      <3>2. Numbered(fs', created')
        BY <2>5, <2>7, <3>1 DEF Numbered
      <3>3. CASE fault' = "null_walk" /\ vnodes' = v
        BY <2>5, <3>2, <3>3 DEF Added, TreeInv
      <3>4. CASE vnodes' = unlink(v, c)
        <4>1. PICK q \in 1 .. Len(v) : c \in Kids(v, q)
          BY <2>5, <2>7
        <4>2. Tree(unlink(v, c))
          <5>1. PICK u : u = unlink(v, c)
            OBVIOUS
          <5>2. Tree(u)
            BY <2>5, <4>1, <5>1, Pruned
          <5> QED  BY <5>1, <5>2
        <4>3. Taken
          BY <2>5, <2>7, <3>1, <3>4, <4>1 DEF Taken
        <4> QED  BY <3>2, <3>4, <4>2, <4>3 DEF TreeInv
      <3>5. (fault' = "null_walk" /\ vnodes' = v) \/ vnodes' = unlink(v, c) \/ (fs' = fs /\ vnodes' = v)
        BY <2>4
      <3> QED  BY <2>6, <2>7, <3>3, <3>4, <3>5, <2>4
    <2> QED  BY <2>4, <2>6, <2>7
  <1>6. ASSUME UNCHANGED <<fs, created, vnodes>>
        PROVE  TreeInv' /\ Added
    BY <1>6, GrowsNone DEF TreeInv, Added
  <1>7. ASSUME NEW h \in held, VFS_close(h)  PROVE TreeInv' /\ Added
    <2>1. UNCHANGED <<fs, created, vnodes>>
      BY <1>7 DEF VFS_close, Fails
    <2> QED  BY <1>6, <2>1
  <1>8. ASSUME UNCHANGED vars  PROVE TreeInv' /\ Added
    BY <1>6, <1>8 DEF vars
  <1> QED  BY <1>2, <1>3, <1>4, <1>5, <1>7, <1>8 DEF Next


-----------------------------------------------------------------------------
(* The first state                                                         *)

\* The kernel starts with the directories and devices, and with a file of
\* the disk when it has looked one up.
LEMMA TreeStarts == Init => TreeInv
  <1> SUFFICES ASSUME Init  PROVE TreeInv
    OBVIOUS
  <1> DEFINE node(p, h, d, cs) == [parent |-> p, handle |-> h, driver |-> d, children |-> cs]
             list(k) == [i \in 1 .. k |-> i + 1]
             lake == node(1, File(1, ROOT, "LAKEOS"), "fat", <<>>)
  <1>1. PICK installed \in BOOLEAN :
          vnodes = <<node(NoNode, File(ROOT, ROOT, ""), "fat", list(IF installed THEN 3 ELSE 2))>>
                   \o (IF installed THEN <<lake>> ELSE <<>>)
                   \o <<node(1, Dirs.virt, "vfm", <<>>),
                        node(1, Dirs.dev, "dev", <<(IF installed THEN 3 ELSE 2) + 2,
                                                   (IF installed THEN 3 ELSE 2) + 3>>),
                        node((IF installed THEN 3 ELSE 2) + 1, Devices.stdin, "dev", <<>>),
                        node((IF installed THEN 3 ELSE 2) + 1, Devices.stdout, "dev", <<>>)>>
    BY DEF Init
  <1>2. PICK k, s : /\ k = IF installed THEN 3 ELSE 2
                    /\ s = IF installed THEN <<lake>> ELSE <<>>
    OBVIOUS
  <1>3. /\ {File(ROOT, ROOT, ""), File(1, ROOT, "LAKEOS"), File(2, ROOT, "USER"),
            Dirs.virt, Dirs.dev, Devices.stdin, Devices.stdout} \subseteq Handle
    <2>1. "USER" \in Names
      BY VFSAssumption DEF Names
    <2>2. {"", "LAKEOS", "VIRT", "DEV", "STDIN", "STDOUT"} \subseteq Names
      BY DEF Names
    <2>3. {ROOT, VIRT, DEV, STDIN, STDOUT, 1, 2} \subseteq Int
      BY DEF ROOT, VIRT, DEV, STDIN, STDOUT
    <2>4. \A i, j \in Int : \A m \in Names : File(i, j, m) \in Handle
      BY DEF File, Handle
    <2>5. /\ Dirs.virt = File(VIRT, ROOT, "VIRT") /\ Dirs.dev = File(DEV, ROOT, "DEV")
          /\ Devices.stdin = File(STDIN, DEV, "STDIN")
          /\ Devices.stdout = File(STDOUT, DEV, "STDOUT")
      BY DEF Dirs, Devices
    <2> HIDE DEF Names, File, ROOT, VIRT, DEV, STDIN, STDOUT
    <2>6. /\ File(ROOT, ROOT, "") \in Handle /\ File(1, ROOT, "LAKEOS") \in Handle
      BY <2>2, <2>3, <2>4
    <2>7. File(2, ROOT, "USER") \in Handle
      BY <2>1, <2>3, <2>4
    <2>8. Dirs.virt \in Handle /\ Dirs.dev \in Handle
      BY <2>2, <2>3, <2>4, <2>5
    <2>9. Devices.stdin \in Handle /\ Devices.stdout \in Handle
      BY <2>2, <2>3, <2>4, <2>5
    <2> QED  BY <2>6, <2>7, <2>8, <2>9
  <1>4. /\ k \in {2, 3} /\ list(k) \in Seq(Nat) /\ <<k + 2, k + 3>> \in Seq(Nat)
        /\ <<>> \in Seq(Nat) /\ k + 1 \in Nat /\ 1 \in Nat /\ NoNode \in Nat
    <2>1. k \in {2, 3}
      BY <1>2
    <2>2. <<>> \in Seq(Nat)
      BY EmptySeq
    <2>3. list(k) \in Seq(Nat)
      BY <2>1
    <2> QED  BY <2>1, <2>2, <2>3 DEF NoNode
  <1> DEFINE r == node(NoNode, File(ROOT, ROOT, ""), "fat", list(k))
             a == node(1, Dirs.virt, "vfm", <<>>)
             b == node(1, Dirs.dev, "dev", <<k + 2, k + 3>>)
             c == node(k + 1, Devices.stdin, "dev", <<>>)
             d == node(k + 1, Devices.stdout, "dev", <<>>)
  <1>5. r \in Node /\ a \in Node /\ b \in Node /\ c \in Node /\ d \in Node /\ lake \in Node
    <2> HIDE DEF list
    <2> QED  BY <1>3, <1>4 DEF Node
  <1>7. vnodes = <<r>> \o s \o <<a, b, c, d>>
    BY <1>1, <1>2
  <1> HIDE DEF r, a, b, c, d, lake
  <1>6. /\ s \in Seq(Node) /\ Len(s) = k - 2
        /\ k = 3 => s[1] = lake
    <2>1. CASE installed
      <3> HIDE DEF lake
      <3>1. s = <<lake>> /\ k = 3
        BY <1>2, <2>1
      <3>2. Len(<<lake>>) = 1 /\ <<lake>>[1] = lake /\ <<lake>> \in Seq(Node)
        BY <1>5, OneElement
      <3> QED  BY <3>1, <3>2
    <2>2. CASE ~ installed
      BY <1>2, <2>2, EmptySeq
    <2> QED  BY <2>1, <2>2
  <1>8. /\ vnodes \in Seq(Node) /\ Len(vnodes) = k + 3 /\ vnodes[1] = r
        /\ k = 3 => vnodes[2] = lake
        /\ vnodes[k] = a /\ vnodes[k + 1] = b /\ vnodes[k + 2] = c /\ vnodes[k + 3] = d
    <2>1. PICK q, t, v : q = <<r>> /\ t = <<a, b, c, d>> /\ v = vnodes
      OBVIOUS
    <2>2. v = q \o s \o t
      BY <1>7, <2>1
    <2>3. q \in Seq(Node) /\ Len(q) = 1 /\ q[1] = r
      BY <1>5, <2>1, OneElement
    <2>4. /\ t \in Seq(Node) /\ Len(t) = 4
          /\ t[1] = a /\ t[2] = b /\ t[3] = c /\ t[4] = d
      BY <1>5, <2>1
    <2>5. IsJoined(Node, v, q, s, t)
      <3>1. s \in Seq(Node) /\ q \in Seq(Node) /\ t \in Seq(Node) /\ Len(q) = 1 /\ Len(t) = 4
        BY <1>6, <2>3, <2>4
      <3>2. IsJoined(Node, q \o s \o t, q, s, t)
        BY ZenonT(20), <3>1, Joined
      <3> QED  BY <2>2, <3>2
    <2>6. CASE k = 2
      BY <1>6, <2>1, <2>3, <2>4, <2>5, <2>6 DEF IsJoined
    <2>7. CASE k = 3
      BY <1>6, <2>1, <2>3, <2>4, <2>5, <2>7 DEF IsJoined
    <2> QED  BY <1>4, <2>6, <2>7
  <1>21. k \in {2, 3}
    BY <1>4
  <1>9. /\ Kids(vnodes, 1) = 2 .. k + 1 /\ IsInjective(vnodes[1].children)
        /\ Kids(vnodes, k + 1) = {k + 2, k + 3} /\ IsInjective(vnodes[k + 1].children)
        /\ \A i \in 1 .. k + 3 : i \notin {1, k + 1} =>
             Kids(vnodes, i) = {} /\ IsInjective(vnodes[i].children)
    <2>1. ToSet(<<>>) = {} /\ IsInjective(<<>>)
      BY DEF ToSet, IsInjective
    <2>2. ToSet(list(k)) = 2 .. k + 1 /\ IsInjective(list(k))
      BY <1>4 DEF ToSet, IsInjective
    <2>3. ToSet(<<k + 2, k + 3>>) = {k + 2, k + 3} /\ IsInjective(<<k + 2, k + 3>>)
      BY <1>4 DEF ToSet, IsInjective
    <2>4. /\ vnodes[1].children = list(k) /\ vnodes[k + 1].children = <<k + 2, k + 3>>
          /\ \A i \in 1 .. k + 3 : i \notin {1, k + 1} => vnodes[i].children = <<>>
      <3> HIDE DEF list
      <3>1. /\ r.children = list(k) /\ b.children = <<k + 2, k + 3>>
            /\ a.children = <<>> /\ c.children = <<>> /\ d.children = <<>>
            /\ lake.children = <<>>
        BY DEF r, a, b, c, d, lake
      <3>2. \A i \in 1 .. k + 3 : i \in {1, k, k + 1, k + 2, k + 3} \/ (i = 2 /\ k = 3)
        BY <1>21
      <3> QED  BY <1>8, <3>1, <3>2
    <2> HIDE DEF list
    <2> QED  BY <2>1, <2>2, <2>3, <2>4 DEF Kids
  <1>10. /\ vnodes[1].handle = File(ROOT, ROOT, "") /\ vnodes[1].handle.id = ROOT
         /\ vnodes[1].handle.dir = ROOT
         /\ vnodes[1].handle.name = "" /\ vnodes[1].driver = "fat"
         /\ vnodes[1].parent = NoNode
         /\ vnodes[k].handle = Dirs.virt /\ vnodes[k].handle.id = VIRT
         /\ vnodes[k].handle.dir = ROOT
         /\ vnodes[k].handle.name = "VIRT" /\ vnodes[k].driver = "vfm"
         /\ vnodes[k].parent = 1
         /\ vnodes[k + 1].handle = Dirs.dev /\ vnodes[k + 1].handle.id = DEV
         /\ vnodes[k + 1].handle.dir = ROOT
         /\ vnodes[k + 1].handle.name = "DEV" /\ vnodes[k + 1].driver = "dev"
         /\ vnodes[k + 1].parent = 1
         /\ vnodes[k + 2].handle = Devices.stdin /\ vnodes[k + 2].handle.id = STDIN
         /\ vnodes[k + 2].handle.dir = DEV
         /\ vnodes[k + 2].handle.name = "STDIN" /\ vnodes[k + 2].driver = "dev"
         /\ vnodes[k + 2].parent = k + 1
         /\ vnodes[k + 3].handle = Devices.stdout /\ vnodes[k + 3].handle.id = STDOUT
         /\ vnodes[k + 3].handle.dir = DEV
         /\ vnodes[k + 3].handle.name = "STDOUT" /\ vnodes[k + 3].driver = "dev"
         /\ vnodes[k + 3].parent = k + 1
    <2>1. /\ r.handle = File(ROOT, ROOT, "") /\ r.handle.id = ROOT /\ r.handle.dir = ROOT
          /\ r.handle.name = "" /\ r.driver = "fat" /\ r.parent = NoNode
      BY DEF r, node, File, Dirs, Devices
    <2>2. /\ a.handle = Dirs.virt /\ a.handle.id = VIRT /\ a.handle.dir = ROOT
          /\ a.handle.name = "VIRT" /\ a.driver = "vfm" /\ a.parent = 1
      BY DEF a, node, File, Dirs, Devices
    <2>3. /\ b.handle = Dirs.dev /\ b.handle.id = DEV /\ b.handle.dir = ROOT
          /\ b.handle.name = "DEV" /\ b.driver = "dev" /\ b.parent = 1
      BY DEF b, node, File, Dirs, Devices
    <2>4. /\ c.handle = Devices.stdin /\ c.handle.id = STDIN /\ c.handle.dir = DEV
          /\ c.handle.name = "STDIN" /\ c.driver = "dev" /\ c.parent = k + 1
      BY DEF c, node, File, Dirs, Devices
    <2>5. /\ d.handle = Devices.stdout /\ d.handle.id = STDOUT /\ d.handle.dir = DEV
          /\ d.handle.name = "STDOUT" /\ d.driver = "dev" /\ d.parent = k + 1
      BY DEF d, node, File, Dirs, Devices
    <2> QED  BY <1>8, <2>1, <2>2, <2>3, <2>4, <2>5
  <1>11. ASSUME k = 3
         PROVE  /\ vnodes[2].handle = File(1, ROOT, "LAKEOS") /\ vnodes[2].handle.id = 1
                /\ vnodes[2].handle.dir = ROOT
                /\ vnodes[2].handle.name = "LAKEOS" /\ vnodes[2].driver = "fat"
                /\ vnodes[2].parent = 1
    <2>1. /\ lake.handle = File(1, ROOT, "LAKEOS") /\ lake.handle.id = 1
          /\ lake.handle.dir = ROOT
          /\ lake.handle.name = "LAKEOS" /\ lake.driver = "fat" /\ lake.parent = 1
      BY DEF lake, node, File
    <2> QED  BY <1>8, <1>11, <2>1
  <1>12. /\ ROOT \notin {VIRT, DEV} /\ 1 \notin {VIRT, DEV, ROOT}
         /\ STDIN \notin {VIRT, DEV, ROOT} /\ STDOUT \notin {VIRT, DEV, ROOT}
    BY DEF ROOT, VIRT, DEV, STDIN, STDOUT
  <1> HIDE DEF File, ROOT, VIRT, DEV, STDIN, STDOUT, node, list
  <1>13. \A i \in 1 .. k + 3 : i \in {1, k, k + 1, k + 2, k + 3} \/ (i = 2 /\ k = 3)
    BY <1>21
  <1>14. \A i \in 1 .. k + 3 : /\ vnodes[i].handle.id \in {VIRT, DEV} => vnodes[i].driver # "fat"
                               /\ vnodes[i].handle.id = ROOT => i = 1
    BY <1>10, <1>11, <1>12, <1>13
  <1>15. Family(vnodes, 1)
    <2>1. \A i \in 2 .. k + 1 : i \in 1 + 1 .. k + 3 /\ (i \in {k, k + 1} \/ (i = 2 /\ k = 3))
      BY <1>21
    <2>2. \A i \in 2 .. k + 1 : vnodes[i].parent = 1 /\ vnodes[i].handle.dir = ROOT
      BY <1>10, <1>11, <2>1
    <2>3. \A i \in 2 .. k + 1 : vnodes[i].handle.name =
            IF i = k THEN "VIRT" ELSE IF i = k + 1 THEN "DEV" ELSE "LAKEOS"
      BY <1>21, <1>10, <1>11, <2>1
    <2>4. \A i, j \in 2 .. k + 1 : vnodes[i].handle.name = vnodes[j].handle.name => i = j
      BY <1>21, <2>1, <2>3
    <2>5. vnodes[1].handle.id = ROOT
      BY <1>10
    <2>6. 1 \in 1 .. k + 3
      BY <1>21
    <2> QED  BY <1>8, <1>9, <1>14, <2>1, <2>2, <2>4, <2>5, <2>6 DEF Family
  <1>16. Family(vnodes, k + 1)
    <2>1. \A i \in {k + 2, k + 3} : i \in (k + 1) + 1 .. k + 3
      BY <1>21
    <2>2. \A i \in {k + 2, k + 3} : vnodes[i].parent = k + 1 /\ vnodes[i].handle.dir = DEV
      BY <1>10
    <2>3. /\ vnodes[k + 2].handle.name = "STDIN" /\ vnodes[k + 3].handle.name = "STDOUT"
          /\ "STDIN" # "STDOUT"
      BY <1>10
    <2>4. vnodes[k + 1].handle.id = DEV
      BY <1>10
    <2>6. k + 1 \in 1 .. k + 3
      BY <1>21
    <2> QED  BY <1>8, <1>9, <1>14, <2>1, <2>2, <2>3, <2>4, <2>6 DEF Family
  <1>17. \A i \in 1 .. k + 3 : i \notin {1, k + 1} => Family(vnodes, i)
    BY <1>9, <1>14 DEF Family
  <1>18. Tree(vnodes)
    <2>1. k + 3 >= 1
      BY <1>21
    <2> QED  BY <1>8, <1>15, <1>16, <1>17, <2>1 DEF Tree
  <1>20. Numbered(fs, created)
    <2>1. created = 2 /\ \A f \in fs : f.id \in {1, 2, STDIN, STDOUT}
      <3>1. created = 2 /\ fs = {Entry(1, ROOT, "LAKEOS", 1), Entry(2, ROOT, "USER", 2),
                                 Entry(2, 2, ".", 1), Entry(STDIN, DEV, "STDIN", 1),
                                 Entry(STDOUT, DEV, "STDOUT", 2)}
        BY DEF Init, Disk
      <3>2. \A i, j, m, t : Entry(i, j, m, t).id = i
        BY DEF Entry
      <3> QED  BY <3>1, <3>2
    <2>2. 2 \in Nat /\ {1, 2} \subseteq 1 .. 2
      OBVIOUS
    <2> HIDE DEF STDIN, STDOUT
    <2> QED  BY <2>1, <2>2 DEF Numbered
  <1> QED  BY <1>18, <1>20 DEF TreeInv


-----------------------------------------------------------------------------
(* The descriptors                                                         *)

\* There is never a hole in the list, so a descriptor goes to its end.
LEMMA SlotIs ==
  ASSUME NEW l \in Seq(Blocks), NEW b \in Blocks
  PROVE  VFS_add_descriptor(l, b) = Append(l, b) /\ Slot(l, b) = Len(l) + 1
  <1>1. "NULL" \notin ToSet(l)
    <2>1. \A i \in DOMAIN l : l[i] \in Blocks
      BY LenProperties, ElementOfSeq
    <2> QED  BY <2>1, VFSAssumption DEF ToSet
  <1>2. Len(Append(l, b)) = Len(l) + 1
    BY AppendProperties
  <1> QED  BY <1>1, <1>2 DEF VFS_add_descriptor, Slot

LEMMA DescStarts == Init => DescInv /\ OwnDescriptor
  <1> SUFFICES ASSUME Init  PROVE DescInv /\ OwnDescriptor
    OBVIOUS
  <1>1. PICK b, c \in Blocks :
          /\ b # c /\ descriptor_list = <<b, c>>
          /\ heap = [x \in Blocks |-> CASE x = b -> [file |-> STDIN, driver |-> "dev"]
                                        [] x = c -> [file |-> STDOUT, driver |-> "dev"]
                                        [] OTHER -> Free]
    BY DEF Init
  <1>2. held = {[fd |-> 0, id |-> STDIN], [fd |-> 1, id |-> STDOUT]}
    BY DEF Init
  <1>3. /\ heap[b] = [file |-> STDIN, driver |-> "dev"]
        /\ heap[c] = [file |-> STDOUT, driver |-> "dev"]
        /\ \A x \in Blocks : x # b /\ x # c => heap[x] = Free
        /\ DOMAIN heap = Blocks
    BY <1>1
  <1>4. /\ heap[b].file = STDIN /\ heap[b].driver = "dev"
        /\ heap[c].file = STDOUT /\ heap[c].driver = "dev" /\ Free.driver = "none"
    BY <1>3 DEF Free
  <1>5. /\ descriptor_list \in Seq(Blocks) /\ Len(descriptor_list) = 2
        /\ descriptor_list[0 + 1] = b /\ descriptor_list[1 + 1] = c
    BY <1>1
  <1>6. STDIN \in Int /\ STDOUT \in Int
    BY DEF STDIN, STDOUT
  <1>7. \A h \in held : /\ h \in [fd : Nat, id : Int] /\ h.fd < 2
                        /\ \/ h.fd = 0 /\ h.id = STDIN
                           \/ h.fd = 1 /\ h.id = STDOUT
    BY <1>2, <1>6
  <1> HIDE DEF Free, STDIN, STDOUT
  <1>8. DescInv
    BY <1>3, <1>4, <1>5, <1>7 DEF DescInv
  <1>9. OwnDescriptor
    <2>1. \A h \in held : \A g \in held \ {h} : h.fd # g.fd
      BY <1>2
    <2>2. ASSUME NEW h \in held
          PROVE  /\ heap[descriptor_list[h.fd + 1]].file = h.id
                 /\ \A g \in held \ {h} : descriptor_list[g.fd + 1] # descriptor_list[h.fd + 1]
      <3>1. heap[descriptor_list[h.fd + 1]].file = h.id
        BY <1>4, <1>5, <1>7
      <3>2. \A g \in held : \/ g.fd = 0 /\ descriptor_list[g.fd + 1] = b
                            \/ g.fd = 1 /\ descriptor_list[g.fd + 1] = c
        BY <1>5, <1>7
      <3> QED  BY <1>1, <2>1, <3>1, <3>2
    <2>3. \A x \in Blocks : heap[x] # Free => \E h \in held : descriptor_list[h.fd + 1] = x
      <3>1. [fd |-> 0, id |-> STDIN].fd = 0 /\ [fd |-> 1, id |-> STDOUT].fd = 1
        OBVIOUS
      <3>2. (\E h \in held : h.fd = 0) /\ (\E h \in held : h.fd = 1)
        BY <1>2, <3>1
      <3> QED  BY <1>3, <1>5, <3>2
    <2> QED  BY <2>2, <2>3 DEF OwnDescriptor
  <1> QED  BY <1>8, <1>9

\* A descriptor is opened, and one is closed.
LEMMA DescSteps ==
  ASSUME TreeInv, DescInv, OwnDescriptor, [Next]_vars
  PROVE  DescInv' /\ OwnDescriptor'
  <1> DEFINE l == descriptor_list
             n == Len(descriptor_list)
  <1>1. ASSUME UNCHANGED <<descriptor_list, heap, held>>  PROVE DescInv' /\ OwnDescriptor'
    BY <1>1 DEF DescInv, OwnDescriptor
  <1>2. /\ l \in Seq(Blocks) /\ n \in Nat /\ DOMAIN heap = Blocks
        /\ \A i \in 1 .. n : l[i] \in Blocks
        /\ \A h \in held : /\ h.fd \in Nat /\ h.id \in Int /\ h.fd < n /\ h.fd + 1 \in 1 .. n
                           /\ l[h.fd + 1] \in Blocks /\ heap[l[h.fd + 1]] # Free
    <2>1. l \in Seq(Blocks) /\ DOMAIN heap = Blocks
      BY DEF DescInv
    <2>2. n \in Nat /\ \A i \in 1 .. n : l[i] \in Blocks
      BY <2>1, LenProperties, ElementOfSeq
    <2>3. \A h \in held : h.fd \in Nat /\ h.id \in Int /\ h.fd < n /\ heap[l[h.fd + 1]] # Free
      BY DEF DescInv
    <2> HIDE DEF l, n
    <2>4. \A h \in held : h.fd + 1 \in 1 .. n
      BY <2>2, <2>3
    <2> QED  BY <2>1, <2>2, <2>3, <2>4
  <1>3. ASSUME NEW path \in Paths, VFS_open(path)  PROVE DescInv' /\ OwnDescriptor'
    <2>1. PICK w : w = VFS_walk_path(vnodes, path)
      OBVIOUS
    <2>2. CASE UNCHANGED <<descriptor_list, heap, held>>
      BY <1>1, <2>2
    <2>3. CASE /\ fault = "none" /\ w.node # NoNode
               /\ \E b \in Blocks :
                    /\ heap[b] = Free
                    /\ heap' = [heap EXCEPT ![b] = [file   |-> w.v[w.node].handle.id,
                                                    driver |-> Driver(w)]]
                    /\ descriptor_list' = VFS_add_descriptor(descriptor_list, b)
                    /\ held' = held \cup {[fd |-> Slot(descriptor_list, b) - 1,
                                           id |-> w.v[w.node].handle.id]}
      <3>1. PICK b \in Blocks :
                    /\ heap[b] = Free
                    /\ heap' = [heap EXCEPT ![b] = [file   |-> w.v[w.node].handle.id,
                                                    driver |-> Driver(w)]]
                    /\ descriptor_list' = VFS_add_descriptor(descriptor_list, b)
                    /\ held' = held \cup {[fd |-> Slot(descriptor_list, b) - 1,
                                           id |-> w.v[w.node].handle.id]}
        BY <2>3
      <3>2. PICK id, x, g : /\ id = w.v[w.node].handle.id
                            /\ x = [file |-> id, driver |-> Driver(w)]
                            /\ g = [fd |-> Slot(descriptor_list, b) - 1, id |-> id]
        OBVIOUS
      <3>3. id \in Int /\ x.file = id /\ x.driver # "none" /\ x # Free
        <4>1. Len(path) \in 0 .. 3 /\ \A i \in 1 .. Len(path) : path[i] \in Names
          BY PathIs
        <4>2. /\ w.v[w.node].driver \in {"fat", "vfm", "dev"}
              /\ w.v[w.node].handle \in Handle
          BY <2>1, <2>3, <4>1, Walked
        <4> QED  BY <3>2, <4>2 DEF Driver, Free, Handle
      <3>4. g.fd = n /\ g.id = id /\ descriptor_list' = Append(l, b) /\ g \in [fd : Nat, id : Int]
        <4>1. Slot(descriptor_list, b) - 1 = n /\ descriptor_list' = Append(l, b)
          BY <1>2, <3>1, SlotIs
        <4>2. g = [fd |-> n, id |-> id]
          BY <3>2, <4>1
        <4> HIDE DEF n
        <4> QED  BY <1>2, <3>3, <4>1, <4>2
      <3>5. held' = held \cup {g}
        BY <3>1, <3>2
      <3>6. /\ DOMAIN heap' = Blocks /\ heap'[b] = x
            /\ \A y \in Blocks : y # b => heap'[y] = heap[y]
        BY <1>2, <3>1, <3>2
      <3>7. /\ descriptor_list' \in Seq(Blocks) /\ Len(descriptor_list') = n + 1
            /\ descriptor_list'[n + 1] = b
            /\ \A i \in 1 .. n : descriptor_list'[i] = l[i]
        BY <1>2, <3>4, Longer
      <3> HIDE DEF l, n
      <3>8. \A h \in held : /\ descriptor_list'[h.fd + 1] = l[h.fd + 1]
                            /\ l[h.fd + 1] # b /\ l[h.fd + 1] \in Blocks /\ h.fd < n
                            /\ h # g
        BY <1>2, <3>1, <3>4, <3>7
      <3>9. descriptor_list'[g.fd + 1] = b
        BY <3>4, <3>7
      <3>10. DescInv'
        <4>1. held' \subseteq [fd : Nat, id : Int]
          BY <3>4, <3>5 DEF DescInv
        <4>2. \A h \in held' : h.fd < n + 1
          BY <1>2, <3>4, <3>5
        <4>3. \A h \in held' : heap'[descriptor_list'[h.fd + 1]] # Free
          BY <1>2, <3>3, <3>5, <3>6, <3>8, <3>9
        <4>4. \A y \in Blocks : heap'[y] # Free => heap'[y].driver # "none"
          BY <3>3, <3>6 DEF DescInv
        <4> QED  BY <3>6, <3>7, <4>1, <4>2, <4>3, <4>4 DEF DescInv
      <3>11. OwnDescriptor'
        <4>1. ASSUME NEW h \in held'
              PROVE  /\ heap'[descriptor_list'[h.fd + 1]].file = h.id
                     /\ \A f \in held' \ {h} :
                          descriptor_list'[f.fd + 1] # descriptor_list'[h.fd + 1]
          <5>1. CASE h = g
            BY <3>3, <3>4, <3>5, <3>6, <3>8, <3>9, <5>1
          <5>2. CASE h # g
            <6>1. h \in held
              BY <3>5, <4>1, <5>2
            <6>2. /\ heap[l[h.fd + 1]].file = h.id
                  /\ \A f \in held \ {h} : l[f.fd + 1] # l[h.fd + 1]
              BY <6>1 DEF OwnDescriptor, l
            <6> QED  BY <3>5, <3>6, <3>8, <3>9, <6>1, <6>2
          <5> QED  BY <5>1, <5>2
        <4>2. ASSUME NEW y \in Blocks, heap'[y] # Free
              PROVE  \E h \in held' : descriptor_list'[h.fd + 1] = y
          <5>1. CASE y = b
            BY <3>5, <3>9, <5>1
          <5>2. CASE y # b
            <6>1. PICK h \in held : l[h.fd + 1] = y
              BY <3>6, <4>2, <5>2 DEF OwnDescriptor, l
            <6> QED  BY <3>5, <3>8, <6>1
          <5> QED  BY <5>1, <5>2
        <4> QED  BY <4>1, <4>2 DEF OwnDescriptor
      <3> QED  BY <3>10, <3>11
    <2> QED  BY <1>3, <2>1, <2>2, <2>3 DEF VFS_open, Fails
  <1>4. ASSUME NEW h \in held, VFS_close(h)  PROVE DescInv' /\ OwnDescriptor'
    <2>1. CASE UNCHANGED <<descriptor_list, heap, held>>
      BY <1>1, <2>1
    <2>2. CASE /\ heap' = [heap EXCEPT ![l[h.fd + 1]] = Free]
               /\ held' = held \ {h} /\ descriptor_list' = descriptor_list
      <3>1. PICK b : b = l[h.fd + 1]
        OBVIOUS
      <3>2. b \in Blocks /\ DOMAIN heap' = Blocks /\ heap'[b] = Free
            /\ \A y \in Blocks : y # b => heap'[y] = heap[y]
        BY <1>2, <2>2, <3>1
      <3>3. \A g \in held' : /\ g \in held /\ l[g.fd + 1] \in Blocks /\ l[g.fd + 1] # b
                             /\ heap'[l[g.fd + 1]] = heap[l[g.fd + 1]]
        <4>1. \A g \in held' : g \in held /\ g # h /\ l[g.fd + 1] \in Blocks
          BY <1>2, <2>2
        <4>2. \A g \in held \ {h} : l[g.fd + 1] # b
          BY <3>1 DEF OwnDescriptor
        <4> QED  BY <3>2, <4>1, <4>2
      <3>4. DescInv'
        BY <2>2, <3>2, <3>3 DEF DescInv
      <3>5. OwnDescriptor'
        <4>1. ASSUME NEW g \in held'
              PROVE  /\ heap'[l[g.fd + 1]].file = g.id
                     /\ \A f \in held' \ {g} : l[f.fd + 1] # l[g.fd + 1]
          BY <3>3 DEF OwnDescriptor
        <4>2. ASSUME NEW y \in Blocks, heap'[y] # Free
              PROVE  \E g \in held' : l[g.fd + 1] = y
          <5>1. y # b /\ heap[y] # Free
            BY <3>2, <4>2
          <5>2. PICK g \in held : l[g.fd + 1] = y
            BY <5>1 DEF OwnDescriptor
          <5> QED  BY <2>2, <3>1, <5>1, <5>2
        <4> QED  BY <2>2, <4>1, <4>2 DEF OwnDescriptor
      <3> QED  BY <3>4, <3>5
    <2> QED  BY <1>4, <2>1, <2>2 DEF VFS_close, Fails
  <1>5. ASSUME NEW path \in Paths, VFS_create(path)  PROVE DescInv' /\ OwnDescriptor'
    BY <1>1, <1>5 DEF VFS_create, Fails, VFS_make_file
  <1>6. ASSUME NEW path \in Paths, VFS_remove(path)  PROVE DescInv' /\ OwnDescriptor'
    BY <1>1, <1>6 DEF VFS_remove, Fails
  <1>7. ASSUME NEW path \in Paths, VFS_stat(path)  PROVE DescInv' /\ OwnDescriptor'
    BY <1>1, <1>7 DEF VFS_stat, Fails
  <1>8. ASSUME UNCHANGED vars  PROVE DescInv' /\ OwnDescriptor'
    BY <1>1, <1>8 DEF vars
  <1> QED  BY <1>3, <1>4, <1>5, <1>6, <1>7, <1>8 DEF Next


-----------------------------------------------------------------------------
(* Theorems                                                                *)

VFSInv == TreeInv /\ DescInv /\ OwnDescriptor

LEMMA VFSSteps ==
  ASSUME VFSInv, [Next]_vars
  PROVE  VFSInv'
  BY TreeSteps, DescSteps DEF VFSInv

LEMMA VFSStarts == Init => VFSInv
  BY TreeStarts, DescStarts DEF VFSInv

LEMMA VFSInductive == Spec => []VFSInv
  <1>1. VFSInv /\ [Next]_vars => VFSInv'
    BY VFSSteps
  <1> QED  BY VFSStarts, <1>1, PTL DEF Spec

\* What can be reached, and what is stale, in terms of the tree.
Three(v, S) == Wider(v, Wider(v, Wider(v, S)))

Fixed == {File(ROOT, ROOT, ""), Dirs.virt, Dirs.dev}

LEMMA BelowIs ==
  /\ \A i : Below(i) = Three(vnodes, {i})
  /\ Reachable = Nodes(vnodes)
  <1>1. \A i : Below(i) = Three(vnodes, {i})
    BY DEF Below, Three, Wider, Kids
  <1> QED  BY <1>1 DEF Reachable, Nodes, Three

LEMMA BelowThen ==
  Reachable' = Nodes(vnodes')
  <1>1. Below(1)' = Three(vnodes', {1})
    BY DEF Below, Three, Wider, Kids
  <1> QED  BY <1>1 DEF Reachable, Nodes, Three

LEMMA StaleIs ==
  /\ \A i : IsStale(i) <=> vnodes[i].handle \notin Fixed /\ ~ Found(fs, vnodes[i])
  /\ \A i : IsStale(i)' <=> vnodes'[i].handle \notin Fixed /\ ~ Found(fs', vnodes'[i])
  BY DEF IsStale, Fixed, Found, Listed, Matches

LEMMA ThreeGrows ==
  ASSUME NEW F, NEW v, NEW w, Tree(v), Grows(F, v, w), NEW S, NEW T, Trimmed(v, w, T, S)
  PROVE  Three(w, T) \cap 1 .. Len(v) = Three(v, S)
  <1>1. Trimmed(v, w, Wider(w, T), Wider(v, S))
    BY WiderGrows
  <1>2. Trimmed(v, w, Wider(w, Wider(w, T)), Wider(v, Wider(v, S)))
    BY <1>1, WiderGrows
  <1>3. Trimmed(v, w, Three(w, T), Three(v, S))
    BY <1>2, WiderGrows DEF Three
  <1> QED  BY <1>3 DEF Trimmed

\* What the loss of a vnode takes out of reach lies below that vnode.
LEMMA OneLost ==
  ASSUME NEW v, Tree(v), NEW q \in 1 .. Len(v), NEW c \in Kids(v, q), NEW w, w = unlink(v, c)
  PROVE  /\ Nodes(w) \subseteq Nodes(v) /\ c \notin Nodes(w)
         /\ \A i \in Nodes(v) : i \notin Nodes(w) => i \in Three(v, {c})
  <1>1. /\ Tree(w) /\ Len(w) = Len(v)
        /\ \A i \in 1 .. Len(v) : Kids(w, i) = Kids(v, i) \ {c}
    BY Pruned
  <1>2. /\ 1 \in 1 .. Len(v) /\ c # 1
        /\ \A X \in SUBSET (1 .. Len(v)) : Wider(v, X) \in SUBSET (1 .. Len(v))
    BY VnodePlaces
  <1>3. ASSUME NEW S \in SUBSET (1 .. Len(v)), NEW U \in SUBSET S, NEW D, c \in D, c \notin U,
               \A i \in S : i \in U \/ i \in D
        PROVE  /\ Wider(v, S) \in SUBSET (1 .. Len(v))
               /\ Wider(w, U) \in SUBSET Wider(v, S) /\ c \in Wider(v, D) /\ c \notin Wider(w, U)
               /\ \A i \in Wider(v, S) : i \in Wider(w, U) \/ i \in Wider(v, D)
    <2>1. \A i \in U : Kids(w, i) = Kids(v, i) \ {c}
      BY <1>1, <1>3
    <2>2. ASSUME NEW i \in Wider(v, S)  PROVE i \in Wider(w, U) \/ i \in Wider(v, D)
      <3>1. CASE i \in S
        BY <1>3, <3>1 DEF Wider
      <3>2. CASE i \notin S
        <4>1. PICK s \in S : i \in Kids(v, s)
          BY <3>2 DEF Wider
        <4>2. CASE s \in D
          BY <4>1, <4>2 DEF Wider
        <4>3. CASE s \in U
          BY <1>3, <2>1, <4>1, <4>3 DEF Wider
        <4> QED  BY <1>3, <4>2, <4>3
      <3> QED  BY <3>1, <3>2
    <2>3. Wider(w, U) \in SUBSET Wider(v, S) /\ c \notin Wider(w, U)
      BY <1>3, <2>1 DEF Wider
    <2>4. c \in Wider(v, D)
      BY <1>3 DEF Wider
    <2> QED  BY <1>2, <2>2, <2>3, <2>4
  <1> DEFINE S0 == {1}
             S1 == Wider(v, S0)
             S2 == Wider(v, S1)
             S3 == Wider(v, S2)
             U1 == Wider(w, S0)
             U2 == Wider(w, U1)
             U3 == Wider(w, U2)
             D0 == {c}
             D1 == Wider(v, D0)
             D2 == Wider(v, D1)
             D3 == Wider(v, D2)
  <1>4. /\ S1 \in SUBSET (1 .. Len(v)) /\ U1 \in SUBSET S1 /\ c \in D1 /\ c \notin U1
        /\ \A i \in S1 : i \in U1 \/ i \in D1
    <2>1. /\ S0 \in SUBSET (1 .. Len(v)) /\ S0 \in SUBSET S0 /\ c \in D0 /\ c \notin S0
          /\ \A i \in S0 : i \in S0 \/ i \in D0
      BY <1>2
    <2> HIDE DEF S0, D0
    <2> QED  BY <1>3, <2>1
  <1> HIDE DEF S1, U1, D1
  <1>5. /\ S2 \in SUBSET (1 .. Len(v)) /\ U2 \in SUBSET S2 /\ c \in D2 /\ c \notin U2
        /\ \A i \in S2 : i \in U2 \/ i \in D2
    BY <1>3, <1>4
  <1> HIDE DEF S2, U2, D2
  <1>6. /\ U3 \in SUBSET S3 /\ c \notin U3
        /\ \A i \in S3 : i \in U3 \/ i \in D3
    BY <1>3, <1>5
  <1>7. S3 = Nodes(v) /\ U3 = Nodes(w) /\ D3 = Three(v, {c})
    BY DEF S2, U2, D2, S1, U1, D1, Nodes, Three
  <1> QED  BY <1>6, <1>7

LEMMA Alone == TreeInv => OneVnodePerName
  <1> SUFFICES ASSUME TreeInv, NEW i \in Reachable
               PROVE  /\ IsInjective(vnodes[i].children)
                      /\ \A c \in Kids(vnodes, i) :
                           /\ vnodes[c].parent = i /\ vnodes[c].handle.dir = vnodes[i].handle.id
                           /\ \A d \in Kids(vnodes, i) :
                                c # d => vnodes[c].handle.name # vnodes[d].handle.name
    BY DEF OneVnodePerName, Kids
  <1>1. Tree(vnodes)
    BY DEF TreeInv
  <1>2. i \in 1 .. Len(vnodes)
    BY <1>1, BelowIs, VnodePlaces
  <1> QED  BY <1>1, <1>2 DEF Tree, Family

\* A vnode in reach goes stale only with a twin that is taken out.
LEMMA TwinGone ==
  ASSUME TreeInv, [Next]_vars, fault' = "none", NEW i \in Nodes(vnodes'), IsStale(i)'
  PROVE  \/ i \in Nodes(vnodes) /\ IsStale(i)
         \/ \E j \in DOMAIN vnodes' \ Nodes(vnodes') :
              (j \in DOMAIN vnodes => j \in Nodes(vnodes)) /\ Twins(i, j)'
  <1>1. Tree(vnodes) /\ (Added \/ Taken)
    BY TreeSteps DEF TreeInv
  <1>2. DOMAIN vnodes = 1 .. Len(vnodes)
    BY <1>1, VnodePlaces
  <1>3. vnodes'[i].handle \notin Fixed /\ ~ Found(fs', vnodes'[i])
    BY StaleIs
  <1>4. ASSUME NEW v, Grows(fs, vnodes, v), i \in Nodes(v), vnodes'[i].handle = v[i].handle,
               ~ Found(fs, v[i])
        PROVE  i \in Nodes(vnodes) /\ IsStale(i)
    <2>1. i \in 1 .. Len(v)
      BY <1>4, VnodePlaces DEF Grows
    <2>2. i \in 1 .. Len(vnodes)
      BY <1>4, <2>1 DEF Grows
    <2>3. i \in Nodes(vnodes)
      BY <1>1, <1>4, <2>2, NodesGrow
    <2>4. v[i].handle = vnodes[i].handle /\ v[i].driver = vnodes[i].driver
      BY <1>4, <2>2 DEF Grows
    <2> QED  BY <1>3, <1>4, <2>3, <2>4, StaleIs DEF Found
  <1>5. CASE Added
    <2>1. fs \subseteq fs' /\ Grows(fs, vnodes, vnodes')
      BY <1>5 DEF Added
    <2>2. ~ Found(fs, vnodes'[i])
      BY <1>3, <2>1 DEF Found, Listed
    <2> QED  BY <1>4, <2>1, <2>2
  <1>6. CASE Taken
    <2>1. PICK v, q, c : /\ Grows(fs, vnodes, v) /\ q \in 1 .. Len(v) /\ c \in Kids(v, q)
                         /\ c \in Nodes(v) /\ v[c].driver = "fat" /\ vnodes' = unlink(v, c)
                         /\ fs' = fs \ Matches(v[c].driver, v[c].handle.dir, v[c].handle.name)
      BY <1>6 DEF Taken
    <2>2. PICK u : u = vnodes'
      OBVIOUS
    <2>3. /\ Tree(v) /\ Tree(u) /\ Len(u) = Len(v) /\ Nodes(u) \subseteq Nodes(v)
          /\ c \notin Nodes(u) /\ DOMAIN u = 1 .. Len(v) /\ Nodes(v) \subseteq 1 .. Len(v)
          /\ \A j \in 1 .. Len(v) : u[j].handle = v[j].handle /\ u[j].driver = v[j].driver
      <3>1. Tree(v) /\ u = unlink(v, c)
        BY <2>1, <2>2 DEF Grows
      <3>2. /\ Tree(u) /\ Len(u) = Len(v)
            /\ \A j \in 1 .. Len(v) : u[j].handle = v[j].handle /\ u[j].driver = v[j].driver
        BY <2>1, <3>1, Pruned
      <3>3. Nodes(u) \subseteq Nodes(v) /\ c \notin Nodes(u)
        BY <2>1, <3>1, OneLost
      <3>4. DOMAIN u = 1 .. Len(v) /\ Nodes(v) \subseteq 1 .. Len(v)
        BY <3>1, <3>2, VnodePlaces
      <3> QED  BY <3>1, <3>2, <3>3, <3>4
    <2>4. i \in Nodes(v) /\ i \in 1 .. Len(v) /\ c \in 1 .. Len(v)
      BY <2>1, <2>2, <2>3
    <2>5. CASE ~ Found(fs, v[i])
      BY <1>4, <2>1, <2>2, <2>3, <2>4, <2>5
    <2>6. CASE Found(fs, v[i])
      <3>1. PICK f \in fs : /\ f.dir = v[i].handle.dir /\ f.id = v[i].handle.id
                            /\ f.name = Key(v[i].driver, v[i].handle.name)
        BY <2>6 DEF Found, Listed
      <3>2. f \notin fs'
        BY <1>3, <2>2, <2>3, <2>4, <3>1 DEF Found, Listed
      <3>3. f.dir = v[c].handle.dir /\ f.name = Key(v[c].driver, v[c].handle.name)
        BY <2>1, <3>2 DEF Matches
      <3>4. Twins(i, c)'
        BY <2>2, <2>3, <2>4, <3>1, <3>3 DEF Twins
      <3>5. c \in DOMAIN vnodes => c \in Nodes(vnodes)
        BY <1>1, <1>2, <2>1, NodesGrow
      <3> QED  BY <2>2, <2>3, <2>4, <3>4, <3>5
    <2> QED  BY <2>5, <2>6
  <1> QED  BY <1>1, <1>5, <1>6

\* A vnode out of reach was below one whose entry is gone.
LEMMA LostBelow ==
  ASSUME TreeInv, [Next]_vars, NEW i \in Nodes(vnodes), i \notin Nodes(vnodes')
  PROVE  \E a \in Nodes(vnodes) : i \in Three(vnodes, {a}) /\ IsStale(a)'
  <1>1. Tree(vnodes) /\ (Added \/ Taken)
    BY TreeSteps DEF TreeInv
  <1>2. ~ Added
    BY <1>1, NodesGrow DEF Added
  <1>3. PICK v, q, c : /\ Grows(fs, vnodes, v) /\ q \in 1 .. Len(v) /\ c \in Kids(v, q)
                       /\ c \in Nodes(v) /\ v[c].driver = "fat" /\ vnodes' = unlink(v, c)
                       /\ fs' = fs \ Matches(v[c].driver, v[c].handle.dir, v[c].handle.name)
    BY <1>1, <1>2 DEF Taken
  <1>4. PICK u : u = vnodes'
    OBVIOUS
  <1>5. /\ Tree(v) /\ Nodes(v) \subseteq 1 .. Len(v) /\ Nodes(vnodes) \subseteq 1 .. Len(vnodes)
        /\ \A j \in 1 .. Len(v) : u[j].handle = v[j].handle /\ u[j].driver = v[j].driver
        /\ \A j \in Nodes(v) : j \notin Nodes(u) => j \in Three(v, {c})
        /\ Nodes(v) \cap 1 .. Len(vnodes) = Nodes(vnodes)
    <2>1. Tree(v) /\ u = unlink(v, c)
      BY <1>3, <1>4 DEF Grows
    <2>2. /\ \A j \in 1 .. Len(v) : u[j].handle = v[j].handle /\ u[j].driver = v[j].driver
      BY <1>3, <2>1, Pruned
    <2>3. \A j \in Nodes(v) : j \notin Nodes(u) => j \in Three(v, {c})
      BY <1>3, <2>1, OneLost
    <2>4. Nodes(v) \subseteq 1 .. Len(v) /\ Nodes(vnodes) \subseteq 1 .. Len(vnodes)
      BY <1>1, <2>1, VnodePlaces
    <2>5. Nodes(v) \cap 1 .. Len(vnodes) = Nodes(vnodes)
      BY <1>1, <1>3, NodesGrow
    <2> QED  BY <2>1, <2>2, <2>3, <2>4, <2>5
  <1>6. i \in Three(v, {c}) /\ i \in 1 .. Len(vnodes) /\ c \in 1 .. Len(v)
    BY <1>3, <1>4, <1>5
  <1>7. c \in 1 .. Len(vnodes)
    <2> SUFFICES ASSUME c \notin 1 .. Len(vnodes)  PROVE FALSE
      OBVIOUS
    <2>1. Trimmed(vnodes, v, {c}, {})
      BY <1>6 DEF Trimmed
    <2>2. Three(v, {c}) \cap 1 .. Len(vnodes) = Three(vnodes, {})
      BY <1>1, <1>3, <2>1, ThreeGrows
    <2>3. Three(vnodes, {}) = {}
      BY DEF Three, Wider
    <2> QED  BY <1>6, <2>2, <2>3
  <1>8. i \in Three(vnodes, {c})
    <2>1. Trimmed(vnodes, v, {c}, {c})
      BY <1>6, <1>7 DEF Trimmed
    <2>2. Three(v, {c}) \cap 1 .. Len(vnodes) = Three(vnodes, {c})
      BY <1>1, <1>3, <2>1, ThreeGrows
    <2> QED  BY <1>6, <2>2
  <1>9. IsStale(c)'
    <2>1. vnodes'[c].handle = v[c].handle /\ vnodes'[c].driver = v[c].driver
      BY <1>4, <1>5, <1>6
    <2>2. ~ Found(fs', vnodes'[c])
      BY <1>3, <2>1 DEF Found, Listed, Matches
    <2>3. v[c].handle.id \notin {ROOT, VIRT, DEV}
      <3>1. Family(v, c) /\ c # 1
        BY <1>3, <1>5, <1>6, VnodePlaces DEF Tree
      <3>2. /\ v[c].handle.id \in {VIRT, DEV} => v[c].driver # "fat"
            /\ v[c].handle.id = ROOT => c = 1
        BY <3>1 DEF Family
      <3>3. v[c].handle.id # ROOT /\ v[c].handle.id \notin {VIRT, DEV}
        BY <1>3, <3>1, <3>2
      <3> HIDE DEF ROOT, VIRT, DEV
      <3> QED  BY <3>3
    <2>4. \A h \in Fixed : h.id \in {ROOT, VIRT, DEV}
      <3>3. /\ File(ROOT, ROOT, "").id = ROOT /\ Dirs.virt.id = VIRT /\ Dirs.dev.id = DEV
        BY DEF File, Dirs
      <3> QED  BY <3>3 DEF Fixed
    <2> QED  BY <2>1, <2>2, <2>3, <2>4, StaleIs
  <1> QED  BY <1>3, <1>5, <1>7, <1>8, <1>9

\* However often VFS_lookup is asked for a name below a vnode, it makes one
\* vnode of it, in its place in the tree.
THEOREM NamesHaveOneVnode == Spec => []OneVnodePerName
  <1>1. VFSInv => OneVnodePerName
    BY Alone DEF VFSInv
  <1> QED  BY VFSInductive, <1>1, PTL

\* What VFS_lookup remembers goes stale in one way only: the file is removed
\* through the vnode of another of its spellings.
THEOREM StaleByTwins == Spec => OnlyTwinsGoStale
  <1>1. VFSInv /\ [Next]_vars =>
          [fault' = "none" =>
             \A i \in {k \in Reachable' : IsStale(k)'} :
               \/ i \in Reachable /\ IsStale(i)
               \/ \E j \in DOMAIN vnodes' \ Reachable' :
                    (j \in DOMAIN vnodes => j \in Reachable) /\ Twins(i, j)']_vars
    <2> SUFFICES ASSUME VFSInv, [Next]_vars, fault' = "none", NEW i \in Reachable', IsStale(i)'
                 PROVE  \/ i \in Reachable /\ IsStale(i)
                        \/ \E j \in DOMAIN vnodes' \ Reachable' :
                             (j \in DOMAIN vnodes => j \in Reachable) /\ Twins(i, j)'
      OBVIOUS
    <2> QED  BY TwinGone, BelowIs, BelowThen DEF VFSInv
  <1> QED  BY VFSInductive, <1>1, PTL DEF Spec, OnlyTwinsGoStale

\* An open descriptor is the one its VFS_open made and shares its place with
\* no other, although VFS_close leaves pointers to freed blocks behind.
THEOREM DescriptorsKept == Spec => []OwnDescriptor
  <1>1. VFSInv => OwnDescriptor
    BY DEF VFSInv
  <1> QED  BY VFSInductive, <1>1, PTL

\* A step of VFS_insert_vnode or VFS_remove takes no vnode out of the tree but
\* that of the entry removed and those below it.
THEOREM VnodesKept == Spec => VnodesStay
  <1>1. VFSInv /\ [Next]_vars =>
          [\A i \in Reachable \ Reachable' :
             \E a \in Reachable : i \in Below(a) /\ IsStale(a)']_vars
    <2> SUFFICES ASSUME VFSInv, [Next]_vars, NEW i \in Reachable, i \notin Reachable'
                 PROVE  \E a \in Reachable : i \in Below(a) /\ IsStale(a)'
      OBVIOUS
    <2> QED  BY LostBelow, BelowIs, BelowThen DEF VFSInv
  <1> QED  BY VFSInductive, <1>1, PTL DEF Spec, VnodesStay
=============================================================================
