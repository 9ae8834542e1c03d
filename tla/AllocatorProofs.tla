-------------------------- MODULE AllocatorProofs --------------------------
(***************************************************************************)
(* The two allocators of the kernel.  Page frames have one owner, none is  *)
(* lost and none of the kernel's is handed out, for every memory map and   *)
(* block size; the heap stays whole and does what its contract says, for   *)
(* every size of the heap and its headers and every sequence of calls.     *)
(***************************************************************************)
EXTENDS PMM, KMM, Induction

-----------------------------------------------------------------------------
(* Page frames                                                             *)

FramesInv == PMMTypeOK /\ OneOwner /\ Conserved

\* PMM_init marks numbered blocks.
LEMMA InitBlocks == \A m : PMM_init(m) \subseteq Int
  BY DEF PMM_init, MarkedFree

\* PMM_init establishes the invariant: nobody holds a frame yet.
LEMMA FramesInit == PMMInit => FramesInv
  BY InitBlocks, PMMAssumption DEF PMMInit, FramesInv, PMMTypeOK, OneOwner, Conserved, RunBlocks

\* alloc_page, free_page, alloc_pages and free_pages keep the invariant.
LEMMA FramesNext == FramesInv /\ [PMMNext]_pmmVars => FramesInv'
<1> SUFFICES ASSUME FramesInv, [PMMNext]_pmmVars PROVE FramesInv'
  OBVIOUS
<1> USE DEF FramesInv
<1>1. CASE alloc_page
  <2>1. CASE UNCHANGED pmmVars
    BY <2>1 DEF pmmVars, PMMTypeOK, OneOwner, Conserved, RunBlocks
  <2>2. CASE \E b \in Candidates :
               /\ free' = free \ {b} /\ pages' = pages \cup {b}
               /\ UNCHANGED <<map, last_freed_block, runs>>
    <3>1. PICK b \in Candidates :
               /\ free' = free \ {b} /\ pages' = pages \cup {b}
               /\ UNCHANGED <<map, last_freed_block, runs>>
      BY <2>2
    <3>2. b \in free /\ RunBlocks' = RunBlocks
      BY <3>1 DEF Candidates, RunBlocks
    <3>3. PMMTypeOK'
      BY <3>1, <3>2 DEF PMMTypeOK
    <3>4. OneOwner'
      BY <3>1, <3>2 DEF OneOwner
    <3>5. Conserved'
      BY <3>1, <3>2 DEF Conserved
    <3> QED  BY <3>3, <3>4, <3>5
  <2> QED  BY <1>1, <2>1, <2>2 DEF alloc_page
<1>2. ASSUME NEW b \in pages, free_page(b) PROVE FramesInv'
  <2>1. RunBlocks' = RunBlocks
    BY <1>2 DEF free_page, RunBlocks
  <2>2. PMMTypeOK'
    BY <1>2 DEF free_page, PMMTypeOK, Conserved
  <2>3. OneOwner'
    BY <1>2, <2>1 DEF free_page, OneOwner
  <2>4. Conserved'
    BY <1>2, <2>1 DEF free_page, Conserved
  <2> QED  BY <2>2, <2>3, <2>4
<1>3. ASSUME NEW n \in RunLengths, alloc_pages(n) PROVE FramesInv'
  <2>1. CASE UNCHANGED pmmVars
    BY <2>1 DEF pmmVars, PMMTypeOK, OneOwner, Conserved, RunBlocks
  <2>2. CASE \E b \in RunCandidates(n) :
               /\ free' = free \ Run(b, n) /\ runs' = runs \cup {<<b, n>>}
               /\ UNCHANGED <<map, last_freed_block, pages>>
    <3>1. PICK b \in RunCandidates(n) :
               /\ free' = free \ Run(b, n) /\ runs' = runs \cup {<<b, n>>}
               /\ UNCHANGED <<map, last_freed_block, pages>>
      BY <2>2
    <3>2. b \in Int /\ Run(b, n) \subseteq free
      BY <3>1 DEF RunCandidates, Blocks
    <3>3. RunBlocks' = RunBlocks \cup Run(b, n)
      <4> DEFINE q == <<b, n>>
      <4>1. q[1] = b /\ q[2] = n /\ runs' = runs \cup {q}
        BY <3>1
      <4> HIDE DEF q
      <4>2. RunBlocks' = UNION {Run(r[1], r[2]) : r \in runs \cup {q}}
        BY <4>1 DEF RunBlocks
      <4>3. UNION {Run(r[1], r[2]) : r \in runs \cup {q}}
              = (UNION {Run(r[1], r[2]) : r \in runs}) \cup Run(q[1], q[2])
        OBVIOUS
      <4> QED  BY <4>1, <4>2, <4>3 DEF RunBlocks
    <3>4. PMMTypeOK'
      <4>1. <<b, n>> \in Int \X RunLengths
        BY <3>2
      <4> QED  BY <3>1, <3>2, <4>1 DEF PMMTypeOK
    <3>5. OneOwner'
      <4>1. \A r \in runs : Run(r[1], r[2]) \cap Run(b, n) = {}
        BY <3>2 DEF OneOwner, RunBlocks
      <4>2. \A r, s \in runs' : r # s => Run(r[1], r[2]) \cap Run(s[1], s[2]) = {}
        BY <3>1, <4>1 DEF OneOwner
      <4> QED  BY <3>1, <3>2, <3>3, <4>2 DEF OneOwner
    <3>6. Conserved'
      BY <3>1, <3>2, <3>3 DEF Conserved
    <3> QED  BY <3>4, <3>5, <3>6
  <2> QED  BY <1>3, <2>1, <2>2 DEF alloc_pages
<1>4. ASSUME NEW r \in runs, free_pages(r[1], r[2]) PROVE FramesInv'
  <2> DEFINE R == Run(r[1], r[2])
  <2>1. /\ free' = free \cup R /\ runs' = runs \ {r} /\ last_freed_block' = r[1]
        /\ UNCHANGED <<map, pages>> /\ r[1] \in Int /\ R \subseteq Int
    BY <1>4 DEF free_pages, PMMTypeOK, Run
  <2>2. RunBlocks = RunBlocks' \cup R
    BY <2>1 DEF RunBlocks
  <2>3. RunBlocks' \cap R = {}
    <3>1. \A s \in runs \ {r} : Run(s[1], s[2]) \cap R = {}
      BY DEF OneOwner
    <3> QED  BY <2>1, <3>1 DEF RunBlocks
  <2>4. PMMTypeOK'
    <3>1. r[1] \in R
      <4>1. r \in Int \X RunLengths
        BY DEF PMMTypeOK
      <4>2. r[1] \in Int /\ r[2] \in Nat
        BY <4>1, PMMAssumption
      <4> QED  BY <4>2 DEF Run
    <3>2. r[1] \in PMM_init(map)
      BY <3>1, <2>2 DEF Conserved
    <3> QED  BY <2>1, <3>2 DEF PMMTypeOK
  <2>5. OneOwner'
    BY <2>1, <2>2, <2>3 DEF OneOwner
  <2>6. Conserved'
    BY <2>1, <2>2 DEF Conserved
  <2> QED  BY <2>4, <2>5, <2>6
<1>5. CASE UNCHANGED pmmVars
  BY <1>5 DEF pmmVars, PMMTypeOK, OneOwner, Conserved, RunBlocks
<1> QED  BY <1>1, <1>2, <1>3, <1>4, <1>5 DEF PMMNext

\* The inductive invariant: types, ownership and conservation together.
THEOREM FramesInvariant == PMMSpec => []FramesInv
  BY FramesInit, FramesNext, PTL DEF PMMSpec

\* A page frame never has two owners, and a frame that is held is never
\* marked free, for every memory map and every sequence of calls.
THEOREM FramesOneOwner == PMMSpec => []OneOwner
  BY FramesInvariant, PTL DEF FramesInv

\* No frame is lost, and no frame that PMM_init left reserved is handed out.
THEOREM FramesConserved == PMMSpec => []Conserved
  BY FramesInvariant, PTL DEF FramesInv

-----------------------------------------------------------------------------
(* The kernel and the bitmap                                               *)

LEMMA MemoryCounted ==
  ASSUME NEW n \in Nat, NEW m \in [1 .. n -> Regions]
  PROVE  TotalMemory(m) \in Nat
  <1> DEFINE G == [i \in Nat |-> [x \in Nat |-> IF i + 1 <= n THEN x + m[i + 1].length ELSE x]]
             Step(h) == [i \in 0 .. n |-> IF i = 0 THEN 0 ELSE h[i - 1] + m[i].length]
             sum == CHOOSE h : h = Step(h)
  <1>1. CountedMaps(G, Nat)
    <2>1. ASSUME NEW i \in Nat, NEW x \in Nat
          PROVE  (IF i + 1 <= n THEN x + m[i + 1].length ELSE x) \in Nat
      <3>1. i + 1 <= n => m[i + 1].length \in Nat
        BY DEF Regions
      <3> QED  BY <3>1
    <2> QED  BY <2>1 DEF CountedMaps, Maps
  <1>2. PICK f : CountedSolves(f, Nat, 0, G)
    <2> HIDE DEF G
    <2>1. 0 \in Nat
      OBVIOUS
    <2> QED  BY <1>1, <2>1, CountedRecursion
  <1>3. /\ f \in [Nat -> Nat] /\ f[0] = 0
        /\ \A i \in Nat : f[i + 1] = IF i + 1 <= n THEN f[i] + m[i + 1].length ELSE f[i]
    BY <1>2 DEF CountedSolves
  <1> DEFINE g == [i \in 0 .. n |-> f[i]]
  <1>4. g = Step(g)
    <2>1. ASSUME NEW i \in 0 .. n, i # 0  PROVE f[i] = f[i - 1] + m[i].length
      <3>1. i - 1 \in Nat /\ (i - 1) + 1 = i /\ i <= n
        BY <2>1
      <3> QED  BY <1>3, <3>1
    <2>2. \A i \in 0 .. n : i # 0 => g[i - 1] = f[i - 1]
      OBVIOUS
    <2>3. \A i \in 0 .. n : g[i] = IF i = 0 THEN 0 ELSE g[i - 1] + m[i].length
      BY <1>3, <2>1, <2>2
    <2> QED  BY <2>3
  <1> HIDE DEF g
  <1>5. sum = Step(sum)
    BY <1>4
  <1> HIDE DEF sum
  <1> DEFINE S == {i \in Nat : i <= n => sum[i] \in Nat}
  <1>6. 0 \in S
    BY <1>5
  <1>7. ASSUME NEW i \in Nat, i \in S  PROVE i + 1 \in S
    <2> SUFFICES ASSUME i + 1 <= n  PROVE sum[i + 1] \in Nat
      OBVIOUS
    <2>1. sum[i] \in Nat /\ i + 1 \in 0 .. n /\ i + 1 # 0 /\ (i + 1) - 1 = i
      BY <1>7
    <2>2. sum[i + 1] = sum[i] + m[i + 1].length
      BY <1>5, <2>1
    <2>3. m[i + 1].length \in Nat
      BY <2>1 DEF Regions
    <2> QED  BY <2>1, <2>2, <2>3
  <1> HIDE DEF S
  <1>8. n \in S
    BY <1>6, <1>7, Induct
  <1>9. sum[n] \in Nat
    BY <1>8 DEF S
  <1>10. DOMAIN m = 1 .. n /\ Cardinality(1 .. n) = n
    BY FS_Interval
  <1>11. TotalMemory(m) = sum[n]
    BY <1>10 DEF TotalMemory, sum
  <1> QED  BY <1>9, <1>11

\* Rounding up stays below the next multiple.
LEMMA RoundUp ==
  ASSUME NEW a \in Nat, NEW b \in Nat \ {0}
  PROVE  /\ div_round_up(a, b) \in Nat
         /\ a <= div_round_up(a, b) * b
         /\ div_round_up(a, b) * b < a + b
         /\ a % b = 0 => div_round_up(a, b) * b = a
  <1> DEFINE q == a \div b
             r == a % b
  <1>1. q \in Nat /\ r \in 0 .. b - 1 /\ a = q * b + r
    BY Divide
  <1>2. div_round_up(a, b) = IF r # 0 THEN q + 1 ELSE q
    BY DEF div_round_up
  <1>3. (q + 1) * b = q * b + b /\ q * b \in Int
    BY <1>1
  <1> HIDE DEF q, r
  <1>4. CASE r = 0
    BY <1>1, <1>2, <1>3, <1>4 DEF r
  <1>5. CASE r # 0
    BY <1>1, <1>2, <1>3, <1>5 DEF r
  <1> QED  BY <1>4, <1>5

LEMMA BitmapCounted ==
  ASSUME NEW n \in Nat, NEW m \in [1 .. n -> Regions]
  PROVE  bitmap_size(m) \in Nat
  <1>1. TotalMemory(m) \div MEMORY_BLOCK_SIZE \in Nat
    BY MemoryCounted, PMMAssumption, Divide DEF PMMAssumption
  <1>2. 8 \in Nat \ {0}
    OBVIOUS
  <1> QED  BY <1>1, <1>2, RoundUp DEF bitmap_size, bitmap_len


LEMMA Region ==
  ASSUME NEW r \in Regions
  PROVE  /\ r.address \in Nat /\ r.length \in Nat /\ r.available \in BOOLEAN
         /\ RegionEnd(r) = r.address + r.length /\ RegionEnd(r) \in Nat
  BY DEF Regions, RegionEnd

\* Below the end of the kernel a region can only lose its end.
LEMMA ShrunkIs ==
  ASSUME NEW r \in Regions, RegionEnd(r) < KernelEnd
  PROVE  /\ Shrunk(r) \in Regions
         /\ Shrunk(r).address = r.address /\ Shrunk(r).available = r.available
         /\ RegionEnd(Shrunk(r)) <= RegionEnd(r)
  <1> DEFINE e == RegionEnd(r)
             l == r.length - ((e - KernelBegin) + 1)
  <1>1. /\ r.address \in Nat /\ r.length \in Nat /\ e = r.address + r.length
        /\ KernelBegin \in Nat /\ KernelEnd \in Nat /\ e < KernelEnd
    BY Region, PMMAssumption DEF PMMAssumption
  <1>2. CASE Shrunk(r) = r
    <2> HIDE DEF e
    <2> QED  BY <1>1, <1>2 DEF e
  <1>3. CASE Shrunk(r) # r
    <2>1. region_in_kernel(r) /\ Shrunk(r) = shrink_region_around_kernel(r)
      BY <1>3 DEF Shrunk
    <2>2. KernelBegin <= e
      BY <1>1, <2>1 DEF region_in_kernel
    <2>3. /\ ~(r.address > KernelBegin /\ e < KernelEnd)
          /\ ~(r.address >= KernelBegin /\ e > KernelEnd)
      BY <1>1, <1>3, <2>1 DEF shrink_region_around_kernel
    <2>4. ~(r.address < KernelBegin /\ e <= KernelEnd) => shrink_region_around_kernel(r) = r
      BY <2>3 DEF shrink_region_around_kernel
    <2>5. r.address < KernelBegin
      BY <1>3, <2>1, <2>4
    <2>6. shrink_region_around_kernel(r) = [r EXCEPT !.length = l]
      BY <1>1, <2>3, <2>5 DEF shrink_region_around_kernel
    <2>7. l \in Nat /\ l <= r.length
      <3> HIDE DEF e
      <3> QED  BY <1>1, <2>2, <2>5 DEF l
    <2> HIDE DEF l
    <2>8. /\ [r EXCEPT !.length = l] \in Regions
          /\ LET s == [r EXCEPT !.length = l] IN
             s.address = r.address /\ s.available = r.available /\ s.length = l
      BY <2>7 DEF Regions
    <2>9. Shrunk(r) \in Regions /\ Shrunk(r).address = r.address
          /\ Shrunk(r).available = r.available /\ Shrunk(r).length = l
      BY <2>1, <2>6, <2>8
    <2>10. RegionEnd(Shrunk(r)) = r.address + l
      BY <2>9 DEF RegionEnd
    <2> QED  BY <1>1, <2>7, <2>9, <2>10
  <1> QED  BY <1>2, <1>3

\* Where the blocks of a region are.
LEMMA MarkedIs ==
  ASSUME KernelBegin % MEMORY_BLOCK_SIZE = 0,
         NEW s \in Regions, RegionEnd(s) < KernelEnd, NEW b \in MarkedFree(s)
  PROVE  /\ s.available /\ b \in Nat
         /\ s.address <= b * MEMORY_BLOCK_SIZE
         /\ (b + 1) * MEMORY_BLOCK_SIZE <= KernelBegin
         /\ s.address % MEMORY_BLOCK_SIZE = 0 => (b + 1) * MEMORY_BLOCK_SIZE <= RegionEnd(s)
  <1> DEFINE z == MEMORY_BLOCK_SIZE
             f == div_round_up(s.address, z)
             n == s.length \div z
             k == KernelBegin \div z
  <1>1. /\ z \in Nat \ {0} /\ KernelBegin \in Nat /\ KernelEnd \in Nat
        /\ s.address \in Nat /\ s.length \in Nat /\ RegionEnd(s) = s.address + s.length
    BY Region, PMMAssumption DEF PMMAssumption
  <1>2. s.available /\ ~region_in_kernel(s) /\ b \in f .. f + n - 1
    BY DEF MarkedFree
  <1>3. /\ f \in Nat /\ s.address <= f * z /\ f * z < s.address + z
        /\ s.address % z = 0 => f * z = s.address
    BY <1>1, RoundUp
  <1>4. n \in Nat /\ n * z \in Int /\ n * z <= s.length
    <2>1. n \in Nat /\ s.length % z \in 0 .. z - 1 /\ s.length = n * z + (s.length % z)
      BY <1>1, Divide
    <2>2. n * z \in Int
      BY <1>1, <2>1
    <2> HIDE DEF n
    <2> QED  BY <1>1, <2>1, <2>2
  <1>5. k \in Nat /\ KernelBegin = k * z
    <2>1. k \in Nat /\ KernelBegin % z \in 0 .. z - 1 /\ KernelBegin = k * z + (KernelBegin % z)
      BY <1>1, Divide
    <2>2. k * z \in Int
      BY <1>1, <2>1
    <2> HIDE DEF k
    <2> QED  BY <2>1, <2>2
  <1>6. RegionEnd(s) < KernelBegin
    BY <1>1, <1>2 DEF region_in_kernel
  <1> HIDE DEF f, n, k, z
  <1>7. b \in Nat /\ f <= b /\ b + 1 <= f + n
    BY <1>2, <1>3, <1>4
  <1>8. f * z <= b * z /\ (b + 1) * z <= (f + n) * z
    BY <1>1, <1>3, <1>4, <1>7, Monotone
  <1>9. (f + n) * z = f * z + n * z /\ f * z \in Int /\ b * z \in Int /\ (b + 1) * z \in Int
    BY <1>1, <1>3, <1>4, <1>7
  <1>10. s.address <= b * z
    BY <1>1, <1>3, <1>8, <1>9
  <1>11. (f + n) * z < RegionEnd(s) + z
    BY <1>1, <1>3, <1>4, <1>9
  <1>12. f + n <= k
    <2> SUFFICES ASSUME k + 1 <= f + n  PROVE FALSE
      BY <1>3, <1>4, <1>5
    <2>1. (k + 1) * z <= (f + n) * z
      BY <1>1, <1>3, <1>4, <1>5, Monotone
    <2>2. (k + 1) * z = KernelBegin + z
      BY <1>1, <1>5
    <2> DEFINE x == (f + n) * z
               y == (k + 1) * z
    <2>3. x \in Int /\ y = KernelBegin + z /\ y <= x /\ x < RegionEnd(s) + z
      BY <1>1, <1>3, <1>4, <1>11, <2>1, <2>2
    <2> HIDE DEF x, y
    <2> QED  BY <1>1, <1>6, <2>3
  <1>13. (b + 1) * z <= KernelBegin
    <2>1. b + 1 <= k /\ b + 1 \in Int
      BY <1>3, <1>4, <1>5, <1>7, <1>12
    <2> QED  BY <1>1, <1>5, <2>1, Monotone
  <1>14. s.address % z = 0 => (b + 1) * z <= RegionEnd(s)
    BY <1>1, <1>3, <1>4, <1>8, <1>9
  <1> QED  BY <1>2, <1>7, <1>10, <1>13, <1>14 DEF z

\* Wherever a region lies, shrinking it does not change what it is.
LEMMA ShrunkKeeps ==
  ASSUME NEW r \in [address : Int, length : Int, available : BOOLEAN]
  PROVE  /\ Shrunk(r) \in [address : Int, length : Int, available : BOOLEAN]
         /\ Shrunk(r).available = r.available
  <1> DEFINE l == r.length - ((RegionEnd(r) - KernelBegin) + 1)
             a == KernelEnd + 1
  <1>1. l \in Int /\ a \in Int
    BY PMMAssumption DEF PMMAssumption, RegionEnd
  <1>2. shrink_region_around_kernel(r) \in {r, [r EXCEPT !.length = l], [r EXCEPT !.address = a]}
    BY DEF shrink_region_around_kernel
  <1> HIDE DEF l, a
  <1>3. Shrunk(r) \in {r, [r EXCEPT !.length = l], [r EXCEPT !.address = a]}
    BY <1>2 DEF Shrunk
  <1> QED  BY <1>1, <1>3

\* The blocks PMM_init marks free are below the kernel and beside the bitmap.
LEMMA MarkedApart ==
  ASSUME NEW m, PCMemory(m), NEW b \in PMM_init(m)
  PROVE  /\ BitmapAddress(m) \in Nat /\ bitmap_size(m) \in Nat
         /\ b \in Nat /\ (b + 1) * MEMORY_BLOCK_SIZE <= KernelBegin
         /\ \/ (b + 1) * MEMORY_BLOCK_SIZE <= BitmapAddress(m)
            \/ BitmapAddress(m) + bitmap_size(m) <= b * MEMORY_BLOCK_SIZE
  <1> DEFINE z == MEMORY_BLOCK_SIZE
             w == bitmap_size(m)
             j == BitmapRegion(m)
             a == BitmapAddress(m)
  <1> DEFINE n == Len(m)
  <1>1. n \in Nat /\ m \in [1 .. n -> Regions]
    BY DEF PCMemory
  <1> HIDE DEF n
  <1>2. w \in Nat /\ DOMAIN m = 1 .. n /\ z \in Nat \ {0}
    BY <1>1, BitmapCounted, PMMAssumption DEF PMMAssumption
  <1>3. \A i \in 1 .. n : m[i] \in Regions /\ (m[i].available => RegionEnd(m[i]) < KernelEnd)
    BY <1>1, <1>2 DEF PCMemory
  <1>4. j \in 1 .. n /\ HoldsBitmap(m, j)
    <2> DEFINE S == {i \in Nat : i \in 1 .. n /\ HoldsBitmap(m, i)}
    <2>1. S # {} /\ S \in SUBSET Nat
      BY <1>2 DEF PCMemory
    <2> HIDE DEF S
    <2>2. PICK i \in S : \A k \in S : i <= k
      BY <2>1, Least
    <2>3. i \in 1 .. n /\ HoldsBitmap(m, i) /\ \A k \in 1 .. i - 1 : ~HoldsBitmap(m, k)
      <3>1. i \in 1 .. n /\ HoldsBitmap(m, i)
        BY <2>2 DEF S
      <3>2. ASSUME NEW k \in 1 .. i - 1, HoldsBitmap(m, k)  PROVE FALSE
        <4>1. i \in Nat /\ k \in Nat /\ k < i /\ k \in 1 .. n
          BY <1>1, <3>1
        <4>2. k \in S
          BY <3>2, <4>1 DEF S
        <4> QED  BY <2>2, <4>1, <4>2
      <3> QED  BY <3>1, <3>2
    <2> QED  BY <1>2, <2>3 DEF BitmapRegion
  <1> HIDE DEF j, w
  <1>5. /\ m[j] \in Regions /\ Shrunk(m[j]) \in Regions /\ Shrunk(m[j]).available = m[j].available
        /\ Shrunk(m[j]).address = m[j].address /\ RegionEnd(Shrunk(m[j])) <= RegionEnd(m[j])
        /\ Shrunk(m[j]).length >= w /\ m[j].available
    <2>1. m[j] \in Regions /\ m[j].available /\ Shrunk(m[j]).length >= w
      BY <1>3, <1>4 DEF HoldsBitmap, IsTried, w
    <2> QED  BY <1>3, <1>4, <2>1, ShrunkIs
  <1>6. a = m[j].address /\ a \in Nat /\ a + w <= RegionEnd(m[j]) /\ a % z = 0
    <2>1. a = m[j].address
      BY <1>5 DEF BitmapAddress, j
    <2>2. /\ m[j].address \in Nat /\ RegionEnd(m[j]) \in Nat
          /\ RegionEnd(Shrunk(m[j])) = m[j].address + Shrunk(m[j]).length
          /\ Shrunk(m[j]).length \in Nat
      BY <1>5, Region
    <2>3. m[j].address % z = 0
      BY <1>2, <1>4, <1>5 DEF PCMemory
    <2> HIDE DEF a
    <2> QED  BY <1>2, <1>5, <2>1, <2>2, <2>3
  <1> HIDE DEF a
  <1>7. PICK i \in 1 .. n : b \in MarkedFree(Shrunk(Placed(m)[i]))
    BY <1>2 DEF PMM_init
  <1> DEFINE p == Placed(m)[i]
  <1>8. KernelBegin % z = 0
    BY DEF PCMemory
  <1>9. CASE i = j
    <2> DEFINE r == Shrunk(m[j])
               x == r.address + w
               y == r.length - w
    <2>1. p = [r EXCEPT !.address = x, !.length = y]
      <3>1. p = [r EXCEPT !.address = @ + w, !.length = @ - w]
        BY <1>2, <1>9 DEF Placed, j, w
      <3>2. r \in Regions
        BY <1>5
      <3> HIDE DEF r
      <3>3. [r EXCEPT !.address = @ + w, !.length = @ - w] = [r EXCEPT !.address = x, !.length = y]
        BY <3>2 DEF Regions
      <3> QED  BY <3>1, <3>3
    <2>2. x \in Nat /\ y \in Nat /\ x + y = RegionEnd(r) /\ x = a + w
      <3>1. r.address \in Nat /\ r.length \in Nat /\ RegionEnd(r) = r.address + r.length
        BY <1>5, Region
      <3>2. r.address = a /\ r.length >= w
        BY <1>5, <1>6
      <3> HIDE DEF r
      <3> QED  BY <1>2, <3>1, <3>2
    <2> HIDE DEF x, y, p
    <2>3. p \in Regions /\ p.address = x /\ p.length = y
      BY <1>5, <2>1, <2>2 DEF Regions
    <2>4. RegionEnd(p) < KernelEnd
      <3>1. RegionEnd(p) = RegionEnd(r) /\ RegionEnd(r) <= RegionEnd(m[j])
        BY <1>5, <2>2, <2>3 DEF RegionEnd
      <3>2. RegionEnd(r) \in Nat /\ RegionEnd(m[j]) \in Nat /\ RegionEnd(m[j]) < KernelEnd
        BY <1>3, <1>4, <1>5, Region
      <3> HIDE DEF r
      <3> QED  BY <3>1, <3>2, PMMAssumption DEF PMMAssumption
    <2>5. Shrunk(p) \in Regions /\ Shrunk(p).address = x /\ RegionEnd(Shrunk(p)) < KernelEnd
      <3>1. /\ Shrunk(p) \in Regions /\ Shrunk(p).address = x
            /\ RegionEnd(Shrunk(p)) <= RegionEnd(p)
        BY <2>3, <2>4, ShrunkIs
      <3>2. RegionEnd(Shrunk(p)) \in Nat /\ RegionEnd(p) \in Nat
        BY <2>3, <3>1, Region
      <3> QED  BY <2>4, <3>1, <3>2, PMMAssumption DEF PMMAssumption
    <2>6. /\ b \in Nat /\ x <= b * z /\ (b + 1) * z <= KernelBegin
      <3> DEFINE s == Shrunk(p)
      <3>1. s \in Regions /\ s.address = x /\ RegionEnd(s) < KernelEnd /\ b \in MarkedFree(s)
        BY <1>7, <2>5 DEF p
      <3> HIDE DEF s
      <3> QED  BY <1>8, <3>1, MarkedIs
    <2> QED  BY <1>2, <1>6, <2>2, <2>6 DEF a, w
  <1>10. CASE i # j
    <2>1. p \in {m[i], Shrunk(m[i])}
      BY <1>2, <1>10 DEF Placed, j
    <2>9. m[i].available
      <3>1. Shrunk(p).available
        BY <1>7 DEF MarkedFree
      <3>2. m[i] \in [address : Int, length : Int, available : BOOLEAN]
        BY <1>3 DEF Regions
      <3>3. p \in [address : Int, length : Int, available : BOOLEAN] /\ p.available = m[i].available
        <4> HIDE DEF p
        <4> QED  BY <2>1, <3>2, ShrunkKeeps
      <3> HIDE DEF p
      <3> QED  BY <3>1, <3>3, ShrunkKeeps
    <2>2. Shrunk(p) \in Regions /\ Shrunk(p).address = m[i].address
          /\ Shrunk(p).available = m[i].available /\ RegionEnd(Shrunk(p)) <= RegionEnd(m[i])
      <3> DEFINE r == m[i]
                 s == Shrunk(r)
      <3>1. r \in Regions /\ RegionEnd(r) < KernelEnd
        BY <1>3, <2>9
      <3>2. /\ s \in Regions /\ s.address = r.address /\ s.available = r.available
            /\ RegionEnd(s) <= RegionEnd(r)
        BY <3>1, ShrunkIs
      <3>3. RegionEnd(r) \in Nat /\ RegionEnd(s) \in Nat /\ KernelEnd \in Nat
        BY <3>1, <3>2, Region, PMMAssumption DEF PMMAssumption
      <3>4. p = r \/ p = s
        BY <2>1
      <3> HIDE DEF p, r, s
      <3>5. CASE p = r
        BY <3>2, <3>5 DEF s, r
      <3>6. CASE p = s
        <4>1. RegionEnd(s) < KernelEnd
          BY <3>1, <3>2, <3>3
        <4>2. /\ Shrunk(s) \in Regions /\ Shrunk(s).address = s.address
              /\ Shrunk(s).available = s.available /\ RegionEnd(Shrunk(s)) <= RegionEnd(s)
          BY <3>2, <4>1, ShrunkIs
        <4>3. RegionEnd(Shrunk(s)) \in Nat
          BY <4>2, Region
        <4> QED  BY <3>2, <3>3, <3>6, <4>2, <4>3 DEF r
      <3> QED  BY <3>4, <3>5, <3>6
    <2> DEFINE s == Shrunk(p)
    <2>3. RegionEnd(s) < KernelEnd /\ RegionEnd(s) \in Nat /\ RegionEnd(m[i]) \in Nat /\ m[i].address \in Nat
      <3>1. RegionEnd(m[i]) \in Nat /\ RegionEnd(s) \in Nat /\ KernelEnd \in Nat /\ m[i].address \in Nat
        BY <1>3, <2>2, Region, PMMAssumption DEF PMMAssumption
      <3> QED  BY <1>3, <2>2, <2>9, <3>1
    <2>4. s \in Regions /\ b \in MarkedFree(s)
      BY <1>7, <2>2
    <2> HIDE DEF s
    <2>5. /\ s.available /\ b \in Nat /\ s.address <= b * z /\ (b + 1) * z <= KernelBegin
          /\ s.address % z = 0 => (b + 1) * z <= RegionEnd(s)
      BY <1>8, <2>3, <2>4, MarkedIs
    <2>6. m[i].available /\ s.address % z = 0
      BY <1>2, <2>2, <2>5 DEF PCMemory, s
    <2>7. CASE i < j
      <3>1. RegionEnd(m[i]) <= a
        BY <1>2, <1>4, <1>5, <1>6, <2>6, <2>7 DEF PCMemory
      <3>2. (b + 1) * z <= RegionEnd(s) /\ RegionEnd(s) <= RegionEnd(m[i]) /\ (b + 1) * z \in Int
        BY <1>2, <2>2, <2>5, <2>6 DEF s
      <3>3. (b + 1) * z <= a
        BY <1>6, <2>3, <3>1, <3>2
      <3> QED  BY <1>2, <1>6, <2>5, <3>3 DEF a, w
    <2>8. CASE j < i
      <3>1. RegionEnd(m[j]) <= m[i].address
        BY <1>2, <1>4, <1>5, <2>6, <2>8 DEF PCMemory
      <3>2. RegionEnd(m[j]) \in Nat /\ m[i].address <= b * z /\ b * z \in Int
        BY <1>2, <1>5, <2>2, <2>5, Region DEF s
      <3>3. a + w <= b * z
        BY <1>2, <1>6, <2>3, <3>1, <3>2
      <3> QED  BY <1>2, <1>6, <2>5, <3>3 DEF a, w
    <2> QED  BY <1>4, <1>10, <2>7, <2>8
  <1> QED  BY <1>9, <1>10

\* Neither the kernel image nor the bitmap is ever handed out, on any machine
\* with a memory map of a PC.
THEOREM KernelKept ==
  ASSUME \A m \in MemoryMaps : PCMemory(m)
  PROVE  PMMSpec => []KernelNotGranted
  <1>1. FramesInv => KernelNotGranted
    <2> SUFFICES ASSUME FramesInv, NEW b \in pages \cup RunBlocks
                 PROVE  /\ ~Overlaps(b, KernelBegin, KernelEnd)
                        /\ ~Overlaps(b, BitmapAddress(map), BitmapAddress(map) + bitmap_size(map))
      BY DEF KernelNotGranted
    <2>1. map \in MemoryMaps /\ b \in PMM_init(map)
      BY DEF FramesInv, PMMTypeOK, Conserved
    <2>2. /\ BitmapAddress(map) \in Nat /\ bitmap_size(map) \in Nat
          /\ b \in Nat /\ (b + 1) * MEMORY_BLOCK_SIZE <= KernelBegin
          /\ \/ (b + 1) * MEMORY_BLOCK_SIZE <= BitmapAddress(map)
             \/ BitmapAddress(map) + bitmap_size(map) <= b * MEMORY_BLOCK_SIZE
      BY <2>1, MarkedApart
    <2> DEFINE x == b * MEMORY_BLOCK_SIZE
               y == (b + 1) * MEMORY_BLOCK_SIZE
    <2>3. x \in Int /\ y \in Int /\ KernelBegin \in Int
      BY <2>2, PMMAssumption DEF PMMAssumption
    <2> HIDE DEF x, y
    <2> QED  BY <2>2, <2>3 DEF Overlaps, x, y
  <1> QED  BY FramesInvariant, <1>1, PTL

-----------------------------------------------------------------------------
(* The heap                                                                *)

HeapOK(h) == HeapType(h) /\ BlocksInside(h) /\ BlocksApart(h) /\ ListSorted(h)

Inv == TypeOK /\ (fault = "none" => HeapOK(heap))

USE SizesAssumption DEF freelist

\* KMM_init makes one free block of the whole heap.
LEMMA InitOK == HeapOK(KMM_init)
  BY DEF HeapOK, KMM_init, HeapType, BlocksInside, BlocksApart, ListSorted,
         Free, Live, Extent, Addr

\* Unlinking any node but the head keeps the list sound and every other
\* block in its place.
LEMMA UnlinkOK ==
  ASSUME NEW h, HeapOK(h), NEW x \in Free(h), x # freelist
  PROVE  /\ HeapOK(Unlink(h, x))
         /\ Free(Unlink(h, x)) = Free(h) \ {x}
         /\ \A y \in Free(h) \ {x} : Unlink(h, x).size[y] = h.size[y]
         /\ Unlink(h, x).alloc = h.alloc
<1> DEFINE u == Unlink(h, x)
<1>1. /\ Free(u) = Free(h) \ {x}
      /\ Live(u) = Live(h)
      /\ \A y \in Free(h) \ {x} : u.size[y] = h.size[y]
      /\ u.alloc = h.alloc
  BY DEF Unlink, Drop, Free, Live
<1>2. h.next[x] # x /\ h.prev[x] # x
  BY DEF HeapOK, HeapType, ListSorted, Addr
<1>3. HeapType(u)
  <2>1. /\ h.size \in [Free(h) -> Nat] /\ h.next \in [Free(h) -> Free(h)]
        /\ h.prev \in [Free(h) -> Free(h)] /\ h.alloc \in [Live(h) -> Nat]
        /\ Free(h) \subseteq Addr /\ Live(h) \subseteq Addr
    BY DEF HeapOK, HeapType
  <2>2. u.size \in [Free(u) -> Nat] /\ u.alloc \in [Live(u) -> Nat]
    BY <1>1, <2>1 DEF Unlink, Drop
  <2>3. u.next \in [Free(u) -> Free(u)]
    <3> SUFFICES ASSUME NEW y \in Free(h) \ {x}
                 PROVE  (IF y = h.prev[x] THEN h.next[x] ELSE h.next[y]) \in Free(h) \ {x}
      BY <1>1 DEF Unlink
    <3> QED  BY <1>2, <2>1 DEF HeapOK, ListSorted
  <2>4. u.prev \in [Free(u) -> Free(u)]
    <3> SUFFICES ASSUME NEW y \in Free(h) \ {x}
                 PROVE  (IF y = h.next[x] THEN h.prev[x] ELSE h.prev[y]) \in Free(h) \ {x}
      BY <1>1 DEF Unlink
    <3> QED  BY <1>2, <2>1 DEF HeapOK, ListSorted
  <2> QED  BY <1>1, <2>1, <2>2, <2>3, <2>4 DEF HeapType
<1>4. BlocksInside(u) /\ BlocksApart(u)
  <2>1. \A b \in Free(u) \cup Live(u) : b \in Free(h) \cup Live(h) /\ Extent(u, b) = Extent(h, b)
    BY <1>1 DEF Extent, HeapOK, BlocksApart
  <2> QED  BY <1>1, <2>1 DEF HeapOK, BlocksInside, BlocksApart
<1>5. ListSorted(u)
  <2> DEFINE nx(y) == IF y = h.prev[x] THEN h.next[x] ELSE h.next[y]
             pv(y) == IF y = h.next[x] THEN h.prev[x] ELSE h.prev[y]
  <2>1. \A y \in Free(h) \ {x} : u.next[y] = nx(y) /\ u.prev[y] = pv(y)
    BY DEF Unlink
  <2>2. freelist \in Free(u)
    BY <1>1 DEF HeapOK, ListSorted
  <2>3. ASSUME NEW y \in Free(h) \ {x}
        PROVE  /\ u.prev[u.next[y]] = y /\ u.next[u.prev[y]] = y
               /\ IF u.next[y] = freelist
                  THEN \A z \in Free(h) \ {x} : z <= y
                  ELSE u.next[y] > y /\ \A z \in Free(h) \ {x} : z <= y \/ u.next[y] <= z
    <3>1. nx(y) \in Free(h) \ {x} /\ pv(y) \in Free(h) \ {x}
      BY <1>2 DEF HeapOK, HeapType, ListSorted
    <3>2. pv(nx(y)) = y /\ nx(pv(y)) = y
      BY <1>2 DEF HeapOK, HeapType, ListSorted
    <3>3. IF nx(y) = freelist
          THEN \A z \in Free(h) \ {x} : z <= y
          ELSE nx(y) > y /\ \A z \in Free(h) \ {x} : z <= y \/ nx(y) <= z
      <4>1. Free(h) \subseteq Int /\ \A z \in Free(h) : h.next[z] \in Free(h) /\ h.prev[z] \in Free(h) /\ z >= 0
        BY DEF HeapOK, HeapType, Addr
      <4>2. \A z \in Free(h) : IF h.next[z] = freelist
                               THEN \A w \in Free(h) : w <= z
                               ELSE h.next[z] > z /\ \A w \in Free(h) : w <= z \/ h.next[z] <= w
        BY DEF HeapOK, ListSorted
      <4>3. CASE y = h.prev[x]
        <5>1. h.next[y] = x
          BY <4>3 DEF HeapOK, ListSorted
        <5>2. x > y /\ \A w \in Free(h) : w <= y \/ x <= w
          BY <4>1, <4>2, <5>1
        <5>3. h.next[x] = nx(y) /\ nx(y) \in Free(h)
          BY <4>1, <4>3
        <5>4. IF nx(y) = freelist
              THEN \A w \in Free(h) : w <= x
              ELSE nx(y) > x /\ \A w \in Free(h) : w <= x \/ nx(y) <= w
          BY <4>2, <5>3
        <5> HIDE DEF nx
        <5>5. CASE nx(y) = freelist
          BY <4>1, <5>2, <5>4, <5>5
        <5>6. CASE nx(y) # freelist
          BY <4>1, <5>2, <5>3, <5>4, <5>6
        <5> QED  BY <5>5, <5>6
      <4>4. CASE y # h.prev[x]
        BY <4>2, <4>4
      <4> QED  BY <4>3, <4>4
    <3> QED  BY <2>1, <3>1, <3>2, <3>3
  <2> QED  BY <1>1, <2>2, <2>3 DEF ListSorted
<1> QED  BY <1>1, <1>3, <1>4, <1>5 DEF HeapOK

\* Blocks change hands without touching the list: the list stays sound.
LEMMA SameList ==
  ASSUME NEW h, NEW g, ListSorted(h),
         Free(g) = Free(h), g.next = h.next, g.prev = h.prev
  PROVE  ListSorted(g)
  BY DEF ListSorted

\* The high end of a block that keeps its node is disjoint from all blocks.
LEMMA CarveOK ==
  ASSUME NEW h, HeapOK(h), NEW x \in Free(h), NEW n \in Nat, n >= NODE,
         Carves(h, x, n)
  PROVE  /\ HeapOK(Carve(h, x, n))
         /\ x + h.size[x] - n \in Addr \ (Free(h) \cup Live(h))
         /\ Carve(h, x, n).alloc = Bind(h.alloc, x + h.size[x] - n, n)
<1> DEFINE rest == h.size[x] - n
           a == x + rest
           g == Carve(h, x, n)
<1>1. /\ h.size \in [Free(h) -> Nat] /\ h.next \in [Free(h) -> Free(h)]
      /\ h.prev \in [Free(h) -> Free(h)] /\ h.alloc \in [Live(h) -> Nat]
      /\ Free(h) \subseteq Addr /\ Live(h) \subseteq Addr
  BY DEF HeapOK, HeapType
<1>2. rest \in Nat /\ rest >= NODE /\ x \in Nat /\ x + h.size[x] <= HEAP_SIZE
  BY <1>1 DEF Carves, HeapOK, BlocksInside, Extent, Addr
<1>3. a \in Addr /\ a > x /\ a < x + h.size[x] /\ a + n = x + h.size[x]
  BY <1>1, <1>2 DEF Addr
<1>4. a \notin Free(h) \cup Live(h)
  BY <1>1, <1>3 DEF HeapOK, BlocksApart, Extent, Addr
<1>5. /\ Free(g) = Free(h) /\ Live(g) = Live(h) \cup {a}
      /\ g.size = [h.size EXCEPT ![x] = rest] /\ g.alloc = Bind(h.alloc, a, n)
      /\ g.next = h.next /\ g.prev = h.prev
  BY <1>1 DEF Carve, Free, Live, Bind
<1>6. HeapType(g)
  BY <1>1, <1>2, <1>3, <1>5 DEF HeapType, Bind
<1>7. /\ Extent(g, x) = rest /\ Extent(g, a) = n
      /\ \A b \in (Free(h) \cup Live(h)) \ {x} : Extent(g, b) = Extent(h, b)
      /\ Extent(h, x) = h.size[x]
  BY <1>1, <1>4, <1>5 DEF Extent, Bind
<1>8. BlocksInside(g)
  BY <1>1, <1>2, <1>3, <1>5, <1>7 DEF HeapOK, BlocksInside, Addr
<1>9. BlocksApart(g)
  <2>1. Free(g) \cap Live(g) = {}
    BY <1>4, <1>5 DEF HeapOK, BlocksApart
  <2>2. ASSUME NEW b \in Free(h) \cup Live(h), NEW c \in Free(h) \cup Live(h), b < c
        PROVE  b + Extent(g, b) <= c
    <3>1. b + Extent(h, b) <= c /\ b \in Int /\ c \in Int
      BY <1>1, <2>2 DEF HeapOK, BlocksApart, Addr
    <3> QED  BY <1>1, <1>2, <1>7, <3>1
  <2>3. ASSUME NEW b \in Free(h) \cup Live(h)
        PROVE  (b < a => b + Extent(g, b) <= a) /\ (a < b => a + n <= b)
    <3>1. /\ b < x => b + Extent(h, b) <= x
          /\ x < b => x + h.size[x] <= b
          /\ b \in Int /\ x \in Int /\ Extent(h, b) \in Nat
      BY <1>1, <1>7 DEF HeapOK, BlocksApart, Extent, Addr
    <3>2. CASE b = x
      BY <1>1, <1>2, <1>3, <1>7, <3>2
    <3>3. CASE b # x
      <4>1. Extent(g, b) = Extent(h, b) /\ h.size[x] \in Nat
        BY <1>1, <1>7, <3>3
      <4> HIDE DEF a
      <4> QED  BY <1>2, <1>3, <3>1, <3>3, <4>1 DEF Addr
    <3> QED  BY <3>2, <3>3
  <2> QED  BY <1>3, <1>5, <1>7, <2>1, <2>2, <2>3 DEF BlocksApart, Addr
<1>10. ListSorted(g)
  BY <1>5, SameList DEF HeapOK
<1> QED  BY <1>3, <1>4, <1>5, <1>6, <1>8, <1>9, <1>10 DEF HeapOK

\* A block that leaves the list goes, whole or in part, to the caller.
LEMMA TakeOK ==
  ASSUME NEW h, HeapOK(h), NEW x \in Free(h), x # freelist,
         NEW n \in Nat, n >= NODE, h.size[x] >= n
  PROVE  /\ HeapOK(Take(h, x, n))
         /\ x \in Addr \ Live(h)
         /\ Take(h, x, n).alloc = Bind(h.alloc, x, n)
<1> DEFINE u == Unlink(h, x)
           g == Take(h, x, n)
<1>1. /\ HeapOK(u) /\ Free(u) = Free(h) \ {x} /\ u.alloc = h.alloc
      /\ \A y \in Free(h) \ {x} : u.size[y] = h.size[y]
  BY UnlinkOK
<1>2. /\ x \in Addr /\ x \notin Live(h) /\ x + h.size[x] <= HEAP_SIZE /\ h.size[x] \in Nat
      /\ h.alloc \in [Live(h) -> Nat]
  BY DEF HeapOK, HeapType, BlocksApart, BlocksInside, Extent
<1>3. /\ Free(g) = Free(u) /\ Live(g) = Live(h) \cup {x}
      /\ g.size = u.size /\ g.alloc = Bind(h.alloc, x, n)
      /\ g.next = u.next /\ g.prev = u.prev
  BY <1>1 DEF Take, Free, Live, Bind
<1>4. HeapType(g)
  BY <1>1, <1>2, <1>3 DEF HeapOK, HeapType, Bind, Live
<1>5. /\ Extent(g, x) = n
      /\ \A b \in Free(u) \cup Live(h) : Extent(g, b) = Extent(h, b)
  BY <1>1, <1>2, <1>3 DEF Extent, Bind, HeapOK, BlocksApart
<1>6. BlocksInside(g)
  <2>1. ASSUME NEW b \in Free(u) \cup Live(h)
        PROVE  Extent(g, b) >= NODE /\ b + Extent(g, b) <= HEAP_SIZE
    BY <1>1, <1>5 DEF HeapOK, BlocksInside
  <2>2. Extent(g, x) >= NODE /\ x + Extent(g, x) <= HEAP_SIZE
    BY <1>2, <1>5 DEF Addr
  <2> QED  BY <1>3, <2>1, <2>2 DEF BlocksInside
<1>7. BlocksApart(g)
  <2>1. Free(g) \cap Live(g) = {}
    BY <1>1, <1>3 DEF HeapOK, BlocksApart
  <2>2. ASSUME NEW b \in Free(u) \cup Live(h), NEW c \in Free(u) \cup Live(h), b < c
        PROVE  b + Extent(g, b) <= c
    BY <1>1, <1>5, <2>2 DEF HeapOK, BlocksApart
  <2>3. ASSUME NEW b \in Free(u) \cup Live(h)
        PROVE  (b < x => b + Extent(g, b) <= x) /\ (x < b => x + n <= b)
    <3>1. /\ b < x => b + Extent(h, b) <= x
          /\ x < b => x + h.size[x] <= b
          /\ b \in Int
      BY <1>1, <1>2 DEF HeapOK, HeapType, BlocksApart, Extent, Addr
    <3> QED  BY <1>2, <1>5, <3>1 DEF Addr
  <2> QED  BY <1>2, <1>3, <1>5, <2>1, <2>2, <2>3 DEF BlocksApart, Addr
<1>8. ListSorted(g)
  BY <1>1, <1>3, SameList DEF HeapOK
<1> QED  BY <1>2, <1>3, <1>4, <1>6, <1>7, <1>8 DEF HeapOK

\* A block absorbs the free block that starts where it ends.
LEMMA MergeOK ==
  ASSUME NEW h, HeapOK(h), NEW a \in Free(h), NEW b \in Free(h), b # freelist,
         a + h.size[a] = b
  PROVE  HeapOK(Merge(h, a, b)) /\ Merge(h, a, b).alloc = h.alloc
<1> DEFINE u == Unlink(h, b)
           g == Merge(h, a, b)
<1>1. /\ HeapOK(u) /\ Free(u) = Free(h) \ {b} /\ u.alloc = h.alloc
      /\ \A y \in Free(h) \ {b} : u.size[y] = h.size[y]
  BY UnlinkOK
<1>2. /\ h.size[a] \in Nat /\ h.size[b] \in Nat /\ h.size[a] >= NODE
      /\ a \in Nat /\ a < b /\ b + h.size[b] <= HEAP_SIZE /\ a \in Free(u)
  BY <1>1 DEF HeapOK, HeapType, BlocksInside, Extent, Addr
<1>3. /\ Free(g) = Free(u) /\ Live(g) = Live(h)
      /\ g.size = [u.size EXCEPT ![a] = @ + h.size[b]] /\ g.alloc = h.alloc
      /\ g.next = u.next /\ g.prev = u.prev
  BY <1>1 DEF Merge, Free, Live
<1>4. u.size[a] = h.size[a]
  BY <1>1, <1>2
<1>5. HeapType(g)
  BY <1>1, <1>2, <1>3, <1>4 DEF HeapOK, HeapType, Live
<1>6. /\ Extent(g, a) = h.size[a] + h.size[b]
      /\ \A c \in (Free(u) \cup Live(h)) \ {a} : Extent(g, c) = Extent(h, c)
      /\ Extent(h, a) = h.size[a] /\ Extent(h, b) = h.size[b]
  <2>1. u.size \in [Free(u) -> Nat]
    BY <1>1 DEF HeapOK, HeapType
  <2>2. Extent(g, a) = h.size[a] + h.size[b]
    BY <1>2, <1>3, <1>4, <2>1 DEF Extent
  <2>3. ASSUME NEW c \in (Free(u) \cup Live(h)) \ {a}
        PROVE  Extent(g, c) = Extent(h, c)
    <3>1. CASE c \in Free(u)
      BY <1>1, <1>3, <2>1, <3>1 DEF Extent
    <3>2. CASE c \in Live(h)
      BY <1>1, <1>3, <3>2 DEF Extent, HeapOK, BlocksApart
    <3> QED  BY <3>1, <3>2
  <2>4. Extent(h, a) = h.size[a] /\ Extent(h, b) = h.size[b]
    BY DEF Extent
  <2> QED  BY <2>2, <2>3, <2>4
<1>7. BlocksInside(g)
  BY <1>1, <1>2, <1>3, <1>6 DEF HeapOK, BlocksInside
<1>8. BlocksApart(g)
  <2>1. Free(g) \cap Live(g) = {}
    BY <1>1, <1>3 DEF HeapOK, BlocksApart
  <2>2. ASSUME NEW c \in Free(u) \cup Live(h), NEW d \in Free(u) \cup Live(h), c < d
        PROVE  c + Extent(g, c) <= d
    <3>1. CASE c = a
      <4>1. d # b /\ d \in Int /\ a + h.size[a] <= d /\ (b < d => b + h.size[b] <= d)
        BY <1>1, <1>6, <2>2, <3>1 DEF HeapOK, HeapType, BlocksApart, Addr
      <4> QED  BY <1>2, <1>6, <3>1, <4>1
    <3>2. CASE c # a
      BY <1>1, <1>6, <2>2, <3>2 DEF HeapOK, BlocksApart
    <3> QED  BY <3>1, <3>2
  <2> QED  BY <1>3, <2>1, <2>2 DEF BlocksApart
<1>9. ListSorted(g)
  BY <1>1, <1>3, SameList DEF HeapOK
<1> QED  BY <1>3, <1>5, <1>7, <1>8, <1>9 DEF HeapOK

\* Where kfree's walk stops: right below the freed block.
LEMMA InsertPointBelow ==
  ASSUME NEW h, HeapOK(h), NEW f \in Live(h), NEW i, InsertPoint(h, i, f)
  PROVE  /\ i \in Free(h) /\ i < f
         /\ h.next[i] = freelist \/ f < h.next[i]
         /\ f \notin Free(h) /\ f \in Nat /\ f > 0
         /\ \A y \in Free(h) : y <= i \/ f < y
<1>1. /\ i \in Free(h) /\ Free(h) \subseteq Nat /\ Live(h) \subseteq Nat
      /\ \A y \in Free(h) : h.next[y] \in Free(h) /\ h.prev[y] \in Free(h)
  BY DEF HeapOK, HeapType, InsertPoint, Addr
<1>2. f \notin Free(h) /\ f \in Nat /\ f > 0
  BY <1>1 DEF HeapOK, BlocksApart, ListSorted
<1>3. h.next[i] = freelist \/ f < h.next[i]
  <2>1. h.next[i] >= f \/ h.next[i] <= i
    BY <1>1, <1>2 DEF InsertPoint, StopsAt
  <2>2. h.next[i] <= i => h.next[i] = freelist
    BY <1>1 DEF HeapOK, ListSorted
  <2> QED  BY <1>1, <1>2, <2>1, <2>2
<1>4. i < f
  <2>1. CASE i = freelist
    BY <1>2, <2>1
  <2>2. CASE i # freelist
    <3>1. h.next[h.prev[i]] = i /\ h.prev[i] < i
      BY <1>1, <2>2 DEF HeapOK, ListSorted
    <3> QED  BY <1>1, <3>1 DEF InsertPoint, StopsAt
  <2> QED  BY <2>1, <2>2
<1>5. ASSUME NEW y \in Free(h)
      PROVE  y <= i \/ f < y
  BY <1>1, <1>2, <1>3 DEF HeapOK, ListSorted
<1> QED  BY <1>1, <1>2, <1>3, <1>4, <1>5

\* kfree links the block in between its neighbours in address order.
LEMMA InsertOK ==
  ASSUME NEW h, HeapOK(h), NEW f \in Live(h), NEW i, InsertPoint(h, i, f)
  PROVE  /\ HeapOK(Insert(h, i, f))
         /\ f \in Free(Insert(h, i, f)) /\ f # freelist
         /\ Insert(h, i, f).alloc = Drop(h.alloc, f)
<1> DEFINE n == h.next[i]
           g == Insert(h, i, f)
<1>1. /\ h.size \in [Free(h) -> Nat] /\ h.next \in [Free(h) -> Free(h)]
      /\ h.prev \in [Free(h) -> Free(h)] /\ h.alloc \in [Live(h) -> Nat]
      /\ Free(h) \subseteq Addr /\ Live(h) \subseteq Addr
  BY DEF HeapOK, HeapType
<1>2. /\ n = freelist \/ f < n
      /\ f \notin Free(h) /\ f \in Nat /\ f > 0
      /\ \A y \in Free(h) : y <= i \/ f < y
  BY InsertPointBelow
<1>3. i \in Free(h) /\ i < f
  BY InsertPointBelow
<1>4. /\ Free(g) = Free(h) \cup {f} /\ Live(g) = Live(h) \ {f}
      /\ g.size = Bind(h.size, f, h.alloc[f]) /\ g.alloc = Drop(h.alloc, f)
      /\ g.next = Bind([h.next EXCEPT ![i] = f], f, n)
      /\ g.prev = Bind([h.prev EXCEPT ![n] = f], f, i)
  BY DEF Insert, Free, Live, Bind, Drop
<1>5. /\ g.next = [y \in Free(h) \cup {f} |->
                     IF y = f THEN n ELSE IF y = i THEN f ELSE h.next[y]]
      /\ g.prev = [y \in Free(h) \cup {f} |->
                     IF y = f THEN i ELSE IF y = n THEN f ELSE h.prev[y]]
  BY <1>1, <1>2, <1>3, <1>4 DEF Bind
<1>6. HeapType(g)
  <2>1. g.size \in [Free(g) -> Nat] /\ g.alloc \in [Live(g) -> Nat]
    BY <1>1, <1>4 DEF Bind, Drop
  <2>2. g.next \in [Free(g) -> Free(g)] /\ g.prev \in [Free(g) -> Free(g)]
    <3>1. \A y \in Free(h) : h.next[y] \in Free(h) /\ h.prev[y] \in Free(h)
      BY <1>1
    <3> HIDE DEF g
    <3> QED  BY <1>3, <1>4, <1>5, <3>1
  <2> QED  BY <1>1, <1>4, <2>1, <2>2 DEF HeapType
<1>7. \A b \in Free(g) \cup Live(g) : b \in Free(h) \cup Live(h) /\ Extent(g, b) = Extent(h, b)
  BY <1>1, <1>2, <1>4 DEF Extent, Bind, Drop, HeapOK, BlocksApart
<1>8. BlocksInside(g) /\ BlocksApart(g)
  <2>1. Free(g) \cap Live(g) = {}
    BY <1>4 DEF HeapOK, BlocksApart
  <2> QED  BY <1>7, <2>1 DEF HeapOK, BlocksInside, BlocksApart
<1>9. ListSorted(g)
  <2>1. freelist \in Free(g)
    BY <1>4 DEF HeapOK, ListSorted
  <2>2. ASSUME NEW x \in Free(g)
        PROVE  g.prev[g.next[x]] = x /\ g.next[g.prev[x]] = x
    <3>1. \A y \in Free(h) : h.prev[h.next[y]] = y /\ h.next[h.prev[y]] = y
      BY DEF HeapOK, ListSorted
    <3> QED  BY <1>1, <1>2, <1>3, <1>4, <1>5, <3>1
  <2>3. ASSUME NEW x \in Free(g)
        PROVE  IF g.next[x] = freelist
               THEN \A y \in Free(g) : y <= x
               ELSE g.next[x] > x /\ \A y \in Free(g) : y <= x \/ g.next[x] <= y
    <3>1. Free(h) \subseteq Nat /\ n \in Free(h)
      BY <1>1, <1>3 DEF Addr
    <3>2. \A z \in Free(h) : IF h.next[z] = freelist
                             THEN \A w \in Free(h) : w <= z
                             ELSE h.next[z] > z /\ \A w \in Free(h) : w <= z \/ h.next[z] <= w
      BY DEF HeapOK, ListSorted
    <3>3. CASE x = f
      <4>1. g.next[x] = n
        BY <1>5, <3>3
      <4>2. IF n = freelist THEN \A w \in Free(h) : w <= i
                            ELSE n > i /\ \A w \in Free(h) : w <= i \/ n <= w
        BY <1>3, <3>2
      <4> QED  BY <1>2, <1>3, <1>4, <3>1, <3>3, <4>1, <4>2
    <3>4. CASE x = i
      BY <1>2, <1>3, <1>4, <1>5, <3>1, <3>4
    <3>5. CASE x # f /\ x # i
      <4>1. g.next[x] = h.next[x] /\ x \in Free(h) /\ h.next[x] \in Free(h)
        BY <1>1, <1>4, <1>5, <3>5
      <4>2. IF h.next[x] = freelist
            THEN \A w \in Free(h) : w <= x
            ELSE h.next[x] > x /\ \A w \in Free(h) : w <= x \/ h.next[x] <= w
        BY <3>2, <4>1
      <4>3. h.next[x] # n
        BY <1>3, <3>5, <4>1 DEF HeapOK, ListSorted
      <4>4. f <= x \/ (h.next[x] # freelist /\ h.next[x] <= f)
        BY <1>2, <1>3, <3>1, <3>5, <4>1, <4>2, <4>3
      <4> QED  BY <1>2, <1>4, <3>1, <4>1, <4>2, <4>4
    <3> QED  BY <3>3, <3>4, <3>5
  <2> QED  BY <2>1, <2>2, <2>3 DEF ListSorted
<1> QED  BY <1>2, <1>4, <1>6, <1>8, <1>9 DEF HeapOK

\* kfree as a whole: the block goes back to the list, merged or not.
LEMMA ReleaseOK ==
  ASSUME NEW h, HeapOK(h), NEW f \in Live(h), NEW i, InsertPoint(h, i, f)
  PROVE  /\ HeapOK(Release(h, i, f))
         /\ Release(h, i, f).alloc = Drop(h.alloc, f)
<1> DEFINE g == Insert(h, i, f)
           n == g.next[f]
           p == g.prev[f]
<1>1. HeapOK(g) /\ f \in Free(g) /\ f # freelist /\ g.alloc = Drop(h.alloc, f)
  BY InsertOK
<1>2. n \in Free(g) /\ p \in Free(g) /\ Free(g) \subseteq Nat /\ g.size[f] \in Nat
  BY <1>1 DEF HeapOK, HeapType, Addr
<1>3. CASE f + g.size[f] = n
  <2>1. n # freelist
    BY <1>1, <1>2, <1>3
  <2> QED
    BY <1>1, <1>2, <1>3, <2>1, MergeOK DEF Release, coalesce_neighbors
<1>4. CASE f + g.size[f] # n
  BY <1>1, <1>2, <1>4, MergeOK DEF Release, coalesce_neighbors
<1> QED  BY <1>3, <1>4

\* krealloc moves the node of the free block behind f up by off.
LEMMA ShiftOK ==
  ASSUME NEW h, HeapOK(h), NEW f \in Live(h), NEW off \in Nat \ {0},
         NEW x \in Free(h), x = f + h.alloc[f], h.size[x] - off >= NODE
  PROVE  /\ HeapOK(Shift(h, f, x, off))
         /\ Shift(h, f, x, off).alloc = [h.alloc EXCEPT ![f] = @ + off]
<1> DEFINE m == x + off
           P == h.prev[x]
           N == h.next[x]
           u == Unlink(h, x)
           g == Shift(h, f, x, off)
<1>1. /\ h.size \in [Free(h) -> Nat] /\ h.next \in [Free(h) -> Free(h)]
      /\ h.prev \in [Free(h) -> Free(h)] /\ h.alloc \in [Live(h) -> Nat]
      /\ Free(h) \subseteq Addr /\ Live(h) \subseteq Addr
  BY DEF HeapOK, HeapType
<1>2. /\ f \in Nat /\ x \in Nat /\ f < x /\ x # freelist /\ f \notin Free(h)
      /\ h.alloc[f] \in Nat /\ h.alloc[f] >= NODE
      /\ h.size[x] \in Nat /\ x + h.size[x] <= HEAP_SIZE
  BY <1>1 DEF HeapOK, BlocksInside, BlocksApart, Extent, Addr
<1>3. m \in Nat /\ m \in Addr /\ x < m /\ m + (h.size[x] - off) = x + h.size[x] /\ m < x + h.size[x]
  BY <1>2 DEF Addr
<1>4. ASSUME NEW b \in Free(h) \cup Live(h), b # x
      PROVE  b \in Nat /\ Extent(h, b) \in Nat
             /\ ((b < x /\ b + Extent(h, b) <= x) \/ (x < b /\ x + h.size[x] <= b))
  BY <1>1, <1>2, <1>4 DEF HeapOK, BlocksApart, Extent, Addr
<1>5. m \notin Free(h) \cup Live(h)
  BY <1>2, <1>3, <1>4
<1>6. P \in Free(h) \ {x} /\ N \in Free(h) \ {x}
  BY <1>1, <1>2 DEF HeapOK, ListSorted
<1>7. /\ Free(g) = (Free(h) \ {x}) \cup {m} /\ Live(g) = Live(h)
      /\ g.size = [y \in (Free(h) \ {x}) \cup {m} |->
                     IF y = m THEN h.size[x] - off ELSE h.size[y]]
      /\ g.alloc = [h.alloc EXCEPT ![f] = @ + off]
  BY <1>1 DEF Shift, Unlink, Drop, Bind, Free, Live
<1>8. /\ g.next = [y \in (Free(h) \ {x}) \cup {m} |->
                     IF y = m THEN N ELSE IF y = P THEN m ELSE h.next[y]]
      /\ g.prev = [y \in (Free(h) \ {x}) \cup {m} |->
                     IF y = m THEN P ELSE IF y = N THEN m ELSE h.prev[y]]
  BY <1>5, <1>6 DEF Shift, Unlink, Bind, Free
<1>9. \A y \in Free(h) : h.prev[h.next[y]] = y /\ h.next[h.prev[y]] = y
  BY DEF HeapOK, ListSorted
<1>10. HeapType(g)
  <2>0. h.size[x] - off \in Nat /\ h.alloc[f] + off \in Nat
    BY <1>2
  <2>1. g.size \in [Free(g) -> Nat] /\ g.alloc \in [Live(g) -> Nat]
    <3> HIDE DEF g, m
    <3>1. g.size \in [Free(g) -> Nat]
      BY <1>1, <1>7, <2>0
    <3>2. g.alloc \in [Live(g) -> Nat]
      BY <1>1, <1>7, <2>0
    <3> QED  BY <3>1, <3>2
  <2>2. \A y \in Free(h) : h.next[y] \in Free(h) /\ h.prev[y] \in Free(h)
    BY <1>1
  <2>3. \A y \in Free(h) \ {x} : (y # P => h.next[y] # x) /\ (y # N => h.prev[y] # x)
    BY <1>9
  <2>4. g.next \in [Free(g) -> Free(g)] /\ g.prev \in [Free(g) -> Free(g)]
    <3> HIDE DEF g, m, P, N
    <3>1. \A y \in Free(g) : (IF y = m THEN N ELSE IF y = P THEN m ELSE h.next[y]) \in Free(g)
      BY <1>6, <1>7, <2>2, <2>3
    <3>2. \A y \in Free(g) : (IF y = m THEN P ELSE IF y = N THEN m ELSE h.prev[y]) \in Free(g)
      BY <1>6, <1>7, <2>2, <2>3
    <3> DEFINE F == Free(g)
    <3>3. /\ g.next = [y \in F |-> IF y = m THEN N ELSE IF y = P THEN m ELSE h.next[y]]
          /\ g.prev = [y \in F |-> IF y = m THEN P ELSE IF y = N THEN m ELSE h.prev[y]]
      BY <1>7, <1>8, Zenon
    <3>4. /\ \A y \in F : (IF y = m THEN N ELSE IF y = P THEN m ELSE h.next[y]) \in F
          /\ \A y \in F : (IF y = m THEN P ELSE IF y = N THEN m ELSE h.prev[y]) \in F
      BY <3>1, <3>2
    <3> HIDE DEF F
    <3>5. g.next \in [F -> F]
      BY <3>3, <3>4
    <3>6. g.prev \in [F -> F]
      BY <3>3, <3>4
    <3> QED  BY <3>5, <3>6 DEF F
  <2> QED  BY <1>1, <1>3, <1>7, <2>1, <2>4 DEF HeapType
<1>11. /\ Extent(g, m) = h.size[x] - off
       /\ Extent(g, f) = h.alloc[f] + off
       /\ Extent(h, f) = h.alloc[f]
       /\ \A b \in (Free(h) \cup Live(h)) \ {x, f} : Extent(g, b) = Extent(h, b)
  <2>1. \A b \in Live(h) : b \notin Free(h)
    BY DEF HeapOK, BlocksApart
  <2> HIDE DEF g, m
  <2> QED  BY <1>1, <1>2, <1>5, <1>7, <2>1 DEF Extent
<1>12. BlocksInside(g)
  <2>1. ASSUME NEW b \in (Free(h) \cup Live(h)) \ {x, f}
        PROVE  Extent(g, b) >= NODE /\ b + Extent(g, b) <= HEAP_SIZE
    BY <1>11 DEF HeapOK, BlocksInside
  <2>2. Extent(g, f) >= NODE /\ f + Extent(g, f) <= HEAP_SIZE
    BY <1>2, <1>3, <1>11
  <2>3. Extent(g, m) >= NODE /\ m + Extent(g, m) <= HEAP_SIZE
    BY <1>2, <1>3, <1>11
  <2>4. Free(g) \cup Live(g) = ((Free(h) \cup Live(h)) \ {x, f}) \cup {f, m}
    BY <1>2, <1>7 DEF HeapOK, BlocksApart
  <2> HIDE DEF g, m
  <2> QED  BY <2>1, <2>2, <2>3, <2>4 DEF BlocksInside
<1>13. BlocksApart(g)
  <2>1. Free(g) \cap Live(g) = {}
    BY <1>5, <1>7 DEF HeapOK, BlocksApart
  <2>2. \A b, c \in Free(h) \cup Live(h) : b < c => b + Extent(h, b) <= c
    BY DEF HeapOK, BlocksApart
  <2>3. ASSUME NEW b \in (Free(h) \cup Live(h)) \ {x, f},
               NEW c \in (Free(h) \cup Live(h)) \ {x}, b < c
        PROVE  b + Extent(g, b) <= c
    BY <1>11, <2>2, <2>3
  <2>4. ASSUME NEW c \in (Free(h) \cup Live(h)) \ {x}, f < c
        PROVE  f + Extent(g, f) <= c
    <3>1. f + h.alloc[f] <= c
      BY <1>11, <2>2, <2>4
    <3> QED  BY <1>2, <1>3, <1>4, <1>11, <2>4, <3>1
  <2>5. ASSUME NEW c \in (Free(h) \cup Live(h)) \ {x}
        PROVE  /\ m < c => m + Extent(g, m) <= c
               /\ c < m => c + Extent(g, c) <= m
    <3>1. CASE c = f
      BY <1>2, <1>3, <1>11, <3>1
    <3>2. CASE c # f
      <4>1. Extent(g, c) = Extent(h, c)
        BY <1>11, <3>2
      <4> HIDE DEF g, m
      <4> QED  BY <1>2, <1>3, <1>4, <1>11, <4>1
    <3> QED  BY <3>1, <3>2
  <2>6. Free(g) \cup Live(g) = ((Free(h) \cup Live(h)) \ {x}) \cup {m}
    BY <1>2, <1>7 DEF HeapOK, BlocksApart
  <2>7. ASSUME NEW b \in Free(g) \cup Live(g), NEW c \in Free(g) \cup Live(g), b < c
        PROVE  b + Extent(g, b) <= c
    <3> HIDE DEF g, m
    <3>1. CASE b = m \/ c = m
      BY <1>3, <2>5, <2>6, <2>7, <3>1
    <3>2. CASE b # m /\ c # m /\ b # f
      BY <2>3, <2>6, <2>7, <3>2
    <3>3. CASE b # m /\ c # m /\ b = f
      BY <2>4, <2>6, <2>7, <3>3
    <3> QED  BY <3>1, <3>2, <3>3
  <2> HIDE DEF g
  <2> QED  BY <2>1, <2>7 DEF BlocksApart
<1>14. ListSorted(g)
  <2>1. freelist \in Free(g)
    BY <1>2, <1>7 DEF HeapOK, ListSorted
  <2>2. ASSUME NEW y \in Free(g)
        PROVE  g.prev[g.next[y]] = y /\ g.next[g.prev[y]] = y
    <3>1. \A z \in Free(h) : h.next[z] \in Free(h) /\ h.prev[z] \in Free(h)
      BY <1>1
    <3>2. h.next[P] = x /\ h.prev[N] = x
      BY <1>9
    <3> HIDE DEF g, m, P, N
    <3>3. /\ \A z \in Free(h) \ {x} : z # m
          /\ g.next[m] = N /\ g.prev[m] = P
          /\ g.next[P] = m /\ g.prev[N] = m
          /\ \A z \in Free(h) \ {x} : z # P => g.next[z] = h.next[z]
          /\ \A z \in Free(h) \ {x} : z # N => g.prev[z] = h.prev[z]
      BY <1>5, <1>6, <1>8
    <3>4. CASE y = m
      BY <3>3, <3>4
    <3>5. CASE y # m
      <4>1. y \in Free(h) \ {x}
        BY <1>7, <3>5
      <4>2. g.prev[g.next[y]] = y
        <5>1. CASE y = P
          BY <3>3, <5>1
        <5>2. CASE y # P
          <6>1. g.next[y] = h.next[y] /\ h.next[y] \in Free(h) /\ h.prev[h.next[y]] = y
            BY <1>9, <3>1, <3>3, <4>1, <5>2
          <6>2. h.next[y] # x /\ h.next[y] # N
            BY <3>2, <4>1, <5>2, <6>1 DEF P
          <6> QED  BY <3>3, <6>1, <6>2
        <5> QED  BY <5>1, <5>2
      <4>3. g.next[g.prev[y]] = y
        <5>1. CASE y = N
          BY <3>3, <5>1
        <5>2. CASE y # N
          <6>1. g.prev[y] = h.prev[y] /\ h.prev[y] \in Free(h) /\ h.next[h.prev[y]] = y
            BY <1>9, <3>1, <3>3, <4>1, <5>2
          <6>2. h.prev[y] # x /\ h.prev[y] # P
            BY <3>2, <4>1, <5>2, <6>1 DEF N
          <6> QED  BY <3>3, <6>1, <6>2
        <5> QED  BY <5>1, <5>2
      <4> QED  BY <4>2, <4>3
    <3> QED  BY <3>4, <3>5
  <2>3. ASSUME NEW y \in Free(g)
        PROVE  IF g.next[y] = freelist
               THEN \A z \in Free(g) : z <= y
               ELSE g.next[y] > y /\ \A z \in Free(g) : z <= y \/ g.next[y] <= z
    <3>1. Free(h) \subseteq Nat
      BY <1>1 DEF Addr
    <3>2. \A z \in Free(h) : IF h.next[z] = freelist
                             THEN \A w \in Free(h) : w <= z
                             ELSE h.next[z] > z /\ \A w \in Free(h) : w <= z \/ h.next[z] <= w
      BY DEF HeapOK, ListSorted
    <3>3. \A b \in Free(h) \ {x} : (b < x /\ b < m) \/ (x < b /\ m < b)
      BY <1>2, <1>3, <1>4, <3>1
    <3>4. CASE y = m
      <4>1. g.next[y] = N
        BY <1>7, <1>8, <3>4
      <4>2. IF N = freelist THEN \A w \in Free(h) : w <= x
                            ELSE N > x /\ \A w \in Free(h) : w <= x \/ N <= w
        BY <3>2
      <4> HIDE DEF g, m, N
      <4> QED  BY <1>2, <1>3, <1>6, <1>7, <3>1, <3>3, <3>4, <4>1, <4>2
    <3>5. CASE y # m /\ y = P
      <4>1. g.next[y] = m
        BY <1>7, <1>8, <3>5
      <4>2. P < x /\ \A w \in Free(h) : w <= P \/ x <= w
        <5>1. h.next[P] = x
          BY <1>9
        <5> QED  BY <1>2, <1>6, <3>2, <5>1
      <4> HIDE DEF g, m, P
      <4> QED  BY <1>2, <1>3, <1>6, <1>7, <3>1, <3>3, <3>5, <4>1, <4>2
    <3>6. CASE y # m /\ y # P
      <4>1. y \in Free(h) \ {x} /\ g.next[y] = h.next[y] /\ h.next[y] # x /\ h.next[y] \in Free(h)
        BY <1>1, <1>7, <1>8, <1>9, <3>6
      <4>2. IF h.next[y] = freelist
            THEN \A w \in Free(h) : w <= y
            ELSE h.next[y] > y /\ \A w \in Free(h) : w <= y \/ h.next[y] <= w
        BY <3>2, <4>1
      <4> HIDE DEF g, m
      <4> QED  BY <1>2, <1>3, <1>7, <3>1, <3>3, <4>1, <4>2
    <3> QED  BY <3>4, <3>5, <3>6
  <2> QED  BY <2>1, <2>2, <2>3 DEF ListSorted
<1> QED  BY <1>7, <1>10, <1>12, <1>13, <1>14 DEF HeapOK

\* krealloc gives the whole free block behind f to f.
LEMMA AbsorbOK ==
  ASSUME NEW h, HeapOK(h), NEW f \in Live(h),
         NEW x \in Free(h), x = f + h.alloc[f]
  PROVE  /\ HeapOK(Absorb(h, f, x))
         /\ Absorb(h, f, x).alloc = [h.alloc EXCEPT ![f] = @ + h.size[x]]
<1> DEFINE u == Unlink(h, x)
           g == Absorb(h, f, x)
<1>1. /\ f \in Nat /\ x \in Nat /\ f < x /\ x # freelist /\ f \notin Free(h)
      /\ h.alloc[f] \in Nat /\ h.alloc[f] >= NODE
      /\ h.size[x] \in Nat /\ x + h.size[x] <= HEAP_SIZE
      /\ h.alloc \in [Live(h) -> Nat]
  BY DEF HeapOK, HeapType, BlocksInside, BlocksApart, Extent, Addr
<1>2. /\ HeapOK(u) /\ Free(u) = Free(h) \ {x} /\ u.alloc = h.alloc
      /\ \A y \in Free(h) \ {x} : u.size[y] = h.size[y]
  BY <1>1, UnlinkOK
<1>3. /\ Free(g) = Free(u) /\ Live(g) = Live(h)
      /\ g.size = u.size /\ g.alloc = [h.alloc EXCEPT ![f] = @ + h.size[x]]
      /\ g.next = u.next /\ g.prev = u.prev
  BY DEF Absorb, Free, Live
<1>4. HeapType(g)
  BY <1>1, <1>2, <1>3 DEF HeapOK, HeapType, Live
<1>5. /\ Extent(g, f) = h.alloc[f] + h.size[x]
      /\ Extent(h, f) = h.alloc[f] /\ Extent(h, x) = h.size[x]
      /\ \A b \in (Free(u) \cup Live(h)) \ {f} : Extent(g, b) = Extent(h, b)
  <2>1. \A b \in Live(h) : b \notin Free(h)
    BY DEF HeapOK, BlocksApart
  <2> HIDE DEF g, u
  <2> QED  BY <1>1, <1>2, <1>3, <2>1 DEF Extent
<1>6. BlocksInside(g)
  <2>1. ASSUME NEW b \in (Free(u) \cup Live(h)) \ {f}
        PROVE  Extent(g, b) >= NODE /\ b + Extent(g, b) <= HEAP_SIZE
    BY <1>2, <1>5 DEF HeapOK, BlocksInside
  <2>2. Extent(g, f) >= NODE /\ f + Extent(g, f) <= HEAP_SIZE
    BY <1>1, <1>5
  <2> QED  BY <1>3, <2>1, <2>2 DEF BlocksInside
<1>7. BlocksApart(g)
  <2>1. Free(g) \cap Live(g) = {}
    BY <1>2, <1>3 DEF HeapOK, BlocksApart
  <2>2. \A b, c \in Free(h) \cup Live(h) : b < c => b + Extent(h, b) <= c
    BY DEF HeapOK, BlocksApart
  <2>3. ASSUME NEW b \in (Free(u) \cup Live(h)) \ {f},
               NEW c \in Free(u) \cup Live(h), b < c
        PROVE  b + Extent(g, b) <= c
    BY <1>2, <1>5, <2>2, <2>3
  <2>4. ASSUME NEW c \in Free(u) \cup Live(h), f < c
        PROVE  f + Extent(g, f) <= c
    <3>1. f + h.alloc[f] <= c /\ c \in Nat /\ c # x /\ (x < c => x + h.size[x] <= c)
      BY <1>2, <1>5, <2>2, <2>4 DEF HeapOK, HeapType, BlocksApart, Addr
    <3> QED  BY <1>1, <1>5, <3>1
  <2> QED  BY <1>3, <2>1, <2>3, <2>4 DEF BlocksApart
<1>8. ListSorted(g)
  BY <1>2, <1>3, SameList DEF HeapOK
<1> QED  BY <1>3, <1>4, <1>6, <1>7, <1>8 DEF HeapOK

\* kmalloc hands out a block that nobody holds, unless it gives the head away.
LEMMA GrantOK ==
  ASSUME NEW h, HeapOK(h), NEW n \in Nat, n >= NODE,
         NEW x, FirstFit(h, x, n), ~TakesHead(h, x, n)
  PROVE  /\ HeapOK(Grant(h, x, n))
         /\ \E a \in Addr \ Live(h) : Grant(h, x, n).alloc = Bind(h.alloc, a, n)
<1>1. x \in Free(h) /\ h.size[x] >= n
  BY DEF FirstFit
<1>2. CASE Carves(h, x, n)
  BY <1>1, <1>2, CarveOK DEF Grant
<1>3. CASE ~Carves(h, x, n)
  BY <1>1, <1>3, TakeOK DEF Grant, TakesHead
<1> QED  BY <1>2, <1>3

\* find_first_fit asks for the request and its header, and at least a node.
LEMMA BlockSizeOK ==
  ASSUME NEW req \in Nat
  PROVE  BlockSize(req) \in Nat /\ BlockSize(req) >= NODE /\ BlockSize(req) >= req + HDR
  BY DEF BlockSize

\* What krealloc's three paths do to the blocks in callers' hands.
LEMMA KexpandOK ==
  ASSUME HeapOK(heap), NEW f \in Live(heap), NEW off \in Increments,
         Kexpand(f, off), fault' = "none"
  PROVE  /\ HeapOK(heap')
         /\ \E a \in Addr, n \in Nat :
              /\ a \notin Live(heap) \ {f}
              /\ n >= heap.alloc[f] + off
              /\ heap'.alloc = Bind(Drop(heap.alloc, f), a, n)
<1> DEFINE x == f + heap.alloc[f]
<1>1. /\ off \in Nat \ {0} /\ f \in Addr /\ heap.alloc[f] \in Nat
      /\ heap.alloc \in [Live(heap) -> Nat]
  BY DEF HeapOK, HeapType
<1>2. CASE GrowsInPlace(f, off)
  <2>1. x \in Free(heap) /\ heap.size[x] >= off /\ heap.size[x] \in Nat
    BY <1>2 DEF GrowsInPlace, HeapOK, HeapType
  <2>2. CASE KexpandShift(f, off)
    <3>1. heap' = Shift(heap, f, x, off) /\ heap.size[x] - off >= NODE
      BY <2>2 DEF KexpandShift
    <3>2. HeapOK(heap') /\ heap'.alloc = [heap.alloc EXCEPT ![f] = @ + off]
      BY <1>1, <2>1, <3>1, ShiftOK
    <3>3. heap'.alloc = Bind(Drop(heap.alloc, f), f, heap.alloc[f] + off)
      BY <1>1, <3>2 DEF Bind, Drop
    <3> QED  BY <1>1, <3>2, <3>3
  <2>3. CASE KexpandAbsorb(f, off)
    <3>1. heap' = Absorb(heap, f, x)
      BY <2>3 DEF KexpandAbsorb
    <3>2. HeapOK(heap') /\ heap'.alloc = [heap.alloc EXCEPT ![f] = @ + heap.size[x]]
      BY <2>1, <3>1, AbsorbOK
    <3>3. heap'.alloc = Bind(Drop(heap.alloc, f), f, heap.alloc[f] + heap.size[x])
      BY <1>1, <3>2 DEF Bind, Drop
    <3> QED  BY <1>1, <2>1, <3>2, <3>3
  <2> QED  BY <1>2, <2>2, <2>3 DEF Kexpand
<1>3. CASE ~GrowsInPlace(f, off)
  <2> DEFINE n == BlockSize(heap.alloc[f] + off)
  <2>1. n \in Nat /\ n >= NODE /\ n >= heap.alloc[f] + off
    BY <1>1, BlockSizeOK
  <2>2. PICK y \in Free(heap) :
          /\ FirstFit(heap, y, n) /\ ~TakesHead(heap, y, n)
          /\ \E i \in Free(Grant(heap, y, n)) :
               /\ InsertPoint(Grant(heap, y, n), i, f)
               /\ heap' = Release(Grant(heap, y, n), i, f)
    BY <1>3 DEF Kexpand, KexpandMove
  <2> DEFINE h == Grant(heap, y, n)
  <2> HIDE DEF n
  <2>3. HeapOK(h) /\ \E a \in Addr \ Live(heap) : h.alloc = Bind(heap.alloc, a, n)
    BY <2>1, <2>2, GrantOK
  <2>4. PICK a \in Addr \ Live(heap) : h.alloc = Bind(heap.alloc, a, n)
    BY <2>3
  <2>5. f \in Live(h)
    BY <2>4 DEF Live, Bind
  <2>6. HeapOK(heap') /\ heap'.alloc = Drop(h.alloc, f)
    BY <2>2, <2>3, <2>5, ReleaseOK
  <2>7. heap'.alloc = Bind(Drop(heap.alloc, f), a, n)
    BY <2>4, <2>6 DEF Bind, Drop, Live
  <2> QED  BY <2>1, <2>4, <2>6, <2>7
<1> QED  BY <1>2, <1>3

\* KMM_init leaves one free block that covers the heap.
LEMMA InitInv == Init => Inv
  BY InitOK DEF Init, Inv, TypeOK, Faults, HeapOK

\* Each operation keeps the heap sound, or sets fault.
LEMMA NextInv == Inv /\ [Next]_vars => Inv'
<1> SUFFICES ASSUME Inv, [Next]_vars PROVE Inv'
  OBVIOUS
<1> USE DEF Inv
<1>1. ASSUME NEW req \in Requests, Kmalloc(req) PROVE Inv'
  <2> DEFINE n == BlockSize(req)
  <2>1. n \in Nat /\ n >= NODE
    BY BlockSizeOK
  <2>2. HeapOK(heap) /\ fault = "none"
    BY <1>1 DEF Kmalloc
  <2>3. CASE NoFit(heap, n) /\ UNCHANGED vars
    BY <2>2, <2>3 DEF vars, TypeOK
  <2>4. CASE \E x \in Free(heap) :
               /\ FirstFit(heap, x, n) /\ heap' = Grant(heap, x, n)
               /\ fault' = IF TakesHead(heap, x, n) THEN "head" ELSE fault
    <3>1. PICK x \in Free(heap) :
               /\ FirstFit(heap, x, n) /\ heap' = Grant(heap, x, n)
               /\ fault' = IF TakesHead(heap, x, n) THEN "head" ELSE fault
      BY <2>4
    <3>2. CASE TakesHead(heap, x, n)
      BY <3>1, <3>2 DEF TypeOK, Faults
    <3>3. CASE ~TakesHead(heap, x, n)
      <4> HIDE DEF n
      <4>1. HeapOK(heap')
        BY <2>1, <2>2, <3>1, <3>3, GrantOK
      <4> QED  BY <2>2, <3>1, <3>3, <4>1 DEF TypeOK, HeapOK, Faults
    <3> QED  BY <3>2, <3>3
  <2> QED  BY <1>1, <2>3, <2>4 DEF Kmalloc
<1>2. ASSUME NEW f \in Live(heap), Kfree(f) PROVE Inv'
  <2>1. HeapOK(heap) /\ fault = "none" /\ fault' = "none"
    BY <1>2 DEF Kfree
  <2>2. HeapOK(heap')
    BY <1>2, <2>1, ReleaseOK DEF Kfree
  <2> QED  BY <2>1, <2>2 DEF TypeOK, HeapOK, Faults
<1>3. ASSUME NEW f \in Live(heap), NEW off \in Increments, Kexpand(f, off) PROVE Inv'
  <2>1. HeapOK(heap) /\ fault = "none"
    BY <1>3 DEF Kexpand
  <2>2. fault' \in Faults
    BY <1>3, <2>1 DEF Kexpand, KexpandShift, KexpandAbsorb, KexpandMove, Overrun, Faults
  <2>3. fault' = "none" => HeapOK(heap')
    BY <1>3, <2>1, KexpandOK
  <2> QED  BY <2>2, <2>3 DEF TypeOK, HeapOK
<1>4. CASE Damaged \/ UNCHANGED vars
  BY <1>4 DEF Damaged, vars, TypeOK
<1> QED  BY <1>1, <1>2, <1>3, <1>4 DEF Next

\* In every reachable state the allocator's metadata is sound, or the damage
\* is on record: the inductive invariant behind the heap's theorems.
THEOREM HeapInvariant == Spec => []Inv
  BY InitInv, NextInv, PTL DEF Spec

\* Type correctness of the kernel heap.
THEOREM HeapTypeOK == Spec => []TypeOK
  BY HeapInvariant, PTL DEF Inv

\* For every heap size, header size and node size and every sequence of
\* kmalloc, kfree and kexpand: blocks never overlap and never leave the heap.
THEOREM HeapNoOverlap == Spec => []NoOverlap
<1>1. Inv => NoOverlap
  BY DEF Inv, HeapOK, NoOverlap
<1> QED  BY HeapInvariant, <1>1, PTL

\* Likewise the free list stays doubly linked, complete and in address order.
THEOREM HeapListOK == Spec => []ListOK
<1>1. Inv => ListOK
  BY DEF Inv, HeapOK, ListOK
<1> QED  BY HeapInvariant, <1>1, PTL

\* The blocks in callers' hands after a step, from the soundness of the heap
\* they live in: [a, a + n) is inside the heap and meets no other block.
LEMMA BlockVacant ==
  ASSUME NEW l, NEW g, HeapOK(g), NEW a \in Addr, NEW n \in Nat,
         l \in [DOMAIN l -> Nat], a \notin DOMAIN l, g.alloc = Bind(l, a, n)
  PROVE  Contract!Vacant(l, a, n) /\ n \in 1 .. HEAP_SIZE
<1>1. Live(g) = DOMAIN l \cup {a} /\ a \in Live(g)
  BY DEF Live, Bind
<1>2. \A b \in Live(g) : Extent(g, b) = g.alloc[b]
  BY DEF HeapOK, BlocksApart, Extent
<1>3. g.alloc[a] = n /\ \A b \in DOMAIN l : g.alloc[b] = l[b]
  BY DEF Bind
<1>4. n >= NODE /\ a + n <= HEAP_SIZE
  BY <1>1, <1>2, <1>3 DEF HeapOK, BlocksInside
<1>5. ASSUME NEW b \in DOMAIN l
      PROVE  a + n <= b \/ b + l[b] <= a
  <2>1. b \in Int /\ a \in Int /\ (a < b => a + n <= b) /\ (b < a => b + l[b] <= a)
    BY <1>1, <1>2, <1>3 DEF HeapOK, HeapType, BlocksApart, Addr
  <2> QED  BY <2>1
<1> QED  BY <1>4, <1>5 DEF Contract!Vacant, Addr

\* Every step of the allocator is a step of the contract or changes nothing
\* that the contract speaks of.
LEMMA StepImplements ==
  Inv /\ [Next]_vars => [Contract!Next]_<<heap.alloc, (fault # "none")>>
<1> SUFFICES ASSUME Inv, [Next]_vars
             PROVE  [Contract!Next]_<<heap.alloc, (fault # "none")>>
  OBVIOUS
<1>0. Inv'
  BY NextInv
<1>1. CASE Damaged \/ UNCHANGED vars
  BY <1>1 DEF Damaged, vars
<1>2. ASSUME fault = "none", fault' # "none"
      PROVE  Contract!Next
  BY <1>2 DEF Contract!Next, Contract!Damage
<1>3. ASSUME NEW req \in Requests, Kmalloc(req), fault' = "none"
      PROVE  Contract!Next \/ UNCHANGED <<heap.alloc, (fault # "none")>>
  <2> DEFINE n == BlockSize(req)
  <2>1. n \in Nat /\ n >= NODE /\ n >= req + HDR
    BY BlockSizeOK
  <2>2. HeapOK(heap) /\ HeapOK(heap') /\ fault = "none"
    BY <1>0, <1>3 DEF Kmalloc, Inv
  <2>3. CASE NoFit(heap, n) /\ UNCHANGED vars
    BY <2>3 DEF vars
  <2>4. CASE \E x \in Free(heap) :
               /\ FirstFit(heap, x, n) /\ heap' = Grant(heap, x, n)
               /\ fault' = IF TakesHead(heap, x, n) THEN "head" ELSE fault
    <3>1. PICK x \in Free(heap) :
               FirstFit(heap, x, n) /\ heap' = Grant(heap, x, n) /\ ~TakesHead(heap, x, n)
      BY <1>3, <2>4
    <3> HIDE DEF n
    <3>2. PICK a \in Addr \ Live(heap) : heap'.alloc = Bind(heap.alloc, a, n)
      BY <2>1, <2>2, <3>1, GrantOK
    <3>3. heap.alloc \in [DOMAIN heap.alloc -> Nat]
      BY <2>2 DEF HeapOK, HeapType, Live
    <3>4. Contract!Vacant(heap.alloc, a, n) /\ n \in 1 .. HEAP_SIZE
      BY <2>1, <2>2, <3>2, <3>3, BlockVacant DEF Live
    <3>5. Contract!Malloc(a, n)
      BY <1>3, <2>1, <2>2, <3>2, <3>4
      DEF Contract!Malloc, Contract!With, Bind, Live
    <3> QED  BY <3>2, <3>4, <3>5 DEF Contract!Next, Contract!Addr, Addr
  <2> QED  BY <1>3, <2>3, <2>4 DEF Kmalloc
<1>4. ASSUME NEW f \in Live(heap), Kfree(f)
      PROVE  Contract!Next
  <2>1. HeapOK(heap) /\ fault = "none" /\ fault' = "none"
    BY <1>4 DEF Kfree, Inv
  <2>2. heap'.alloc = Drop(heap.alloc, f)
    BY <1>4, <2>1, ReleaseOK DEF Kfree
  <2>3. Contract!Dispose(f)
    BY <2>1, <2>2 DEF Contract!Dispose, Contract!Without, Drop, Live
  <2> QED  BY <2>3 DEF Contract!Next, Live
<1>5. ASSUME NEW f \in Live(heap), NEW off \in Increments, Kexpand(f, off), fault' = "none"
      PROVE  Contract!Next
  <2>1. HeapOK(heap) /\ fault = "none" /\ HeapOK(heap')
    BY <1>0, <1>5 DEF Kexpand, Inv
  <2>2. PICK a \in Addr, n \in Nat :
              /\ a \notin Live(heap) \ {f}
              /\ n >= heap.alloc[f] + off
              /\ heap'.alloc = Bind(Drop(heap.alloc, f), a, n)
    BY <1>5, <2>1, KexpandOK
  <2>3. /\ Drop(heap.alloc, f) \in [DOMAIN Drop(heap.alloc, f) -> Nat]
        /\ DOMAIN Drop(heap.alloc, f) = Live(heap) \ {f}
    BY <2>1 DEF HeapOK, HeapType, Live, Drop
  <2>4. Contract!Vacant(Drop(heap.alloc, f), a, n) /\ n \in 1 .. HEAP_SIZE
    BY <2>1, <2>2, <2>3, BlockVacant
  <2>5. Contract!Expand(f, a, n)
    BY <1>5, <2>1, <2>2, <2>4
    DEF Contract!Expand, Contract!Without, Contract!With, Bind, Drop, Live
  <2> QED  BY <2>2, <2>4, <2>5 DEF Contract!Next, Contract!Addr, Addr, Live
<1>6. ASSUME NEW req \in Requests, Kmalloc(req)
      PROVE  Contract!Next \/ UNCHANGED <<heap.alloc, (fault # "none")>>
  BY <1>2, <1>3, <1>6 DEF Kmalloc
<1>7. ASSUME NEW f \in Live(heap), NEW off \in Increments, Kexpand(f, off)
      PROVE  Contract!Next
  BY <1>2, <1>5, <1>7 DEF Kexpand
<1> QED  BY <1>1, <1>4, <1>6, <1>7 DEF Next

\* The kernel heap implements its contract, for all sizes and all callers.
THEOREM HeapImplementsContract == Spec => Implements
<1>1. Init => Contract!Init
  BY DEF Init, KMM_init, Contract!Init
<1> QED
  BY HeapInvariant, StepImplements, <1>1, PTL DEF Spec, Implements, Contract!Spec

\* krealloc's three paths give the caller at least the increment and leave
\* the blocks of everybody else as they were.
THEOREM HeapExpandGrows == Spec => ExpandGrows
<1>1. ASSUME Inv, NEW f \in Live(heap), NEW off \in Increments,
             Kexpand(f, off), fault' = "none"
      PROVE  \E g \in Live(heap)' :
               /\ heap'.alloc[g] >= heap.alloc[f] + off
               /\ Live(heap)' \ {g} = Live(heap) \ {f}
               /\ \A b \in Live(heap) \ {f} : heap'.alloc[b] = heap.alloc[b]
  <2>1. HeapOK(heap)
    BY <1>1 DEF Kexpand, Inv
  <2>2. PICK a \in Addr, n \in Nat :
              /\ a \notin Live(heap) \ {f}
              /\ n >= heap.alloc[f] + off
              /\ heap'.alloc = Bind(Drop(heap.alloc, f), a, n)
    BY <1>1, <2>1, KexpandOK
  <2>3. a \in DOMAIN heap'.alloc /\ heap'.alloc[a] = n
    BY <2>2 DEF Bind
  <2>4. DOMAIN heap'.alloc \ {a} = Live(heap) \ {f}
    BY <2>2 DEF Bind, Drop, Live
  <2>5. \A b \in Live(heap) \ {f} : heap'.alloc[b] = heap.alloc[b]
    BY <2>2 DEF Bind, Drop, Live
  <2> QED  BY <2>2, <2>3, <2>4, <2>5 DEF Live
<1>2. Inv /\ [Next]_vars =>
        [\A f \in Live(heap), off \in Increments :
           Kexpand(f, off) /\ fault' = "none" =>
             \E g \in Live(heap)' :
               /\ heap'.alloc[g] >= heap.alloc[f] + off
               /\ Live(heap)' \ {g} = Live(heap) \ {f}
               /\ \A b \in Live(heap) \ {f} : heap'.alloc[b] = heap.alloc[b]]_vars
  BY <1>1
<1> QED  BY HeapInvariant, <1>2, PTL DEF Spec, ExpandGrows
=============================================================================
