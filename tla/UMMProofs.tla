----------------------------- MODULE UMMProofs -----------------------------
(***************************************************************************)
(* The list of the blocks of a process and its page tables agree, and no   *)
(* frame is lost, for an address space, page tables and ranges of any size;*)
(* and a program of any size starts with what its file and its caller gave *)
(* it.                                                                     *)
(***************************************************************************)
EXTENDS UMM, Loader, Induction, SequenceTheorems

-----------------------------------------------------------------------------
(* One page                                                                *)

Faults == {"none", "no_frame", "remap", "null_read", "null_write", "halt", "wild_list"}

Spaces == [free : Int, table : SUBSET Int, page : SUBSET Int, write : SUBSET Int, fault : Faults]

\* The page tables are those of the pages that are present, and k frames are
\* free, behind a page or behind a page table.
Sane(a, k) ==
  /\ a \in Spaces /\ a.page \subseteq Pages
  /\ a.table = {PAGE_DIR_INDEX(v) : v \in a.page}
  /\ a.free + Cardinality(a.page) + Cardinality(a.table) = k

LEMMA Finite ==
  ASSUME NEW a, NEW k \in Int, Sane(a, k)
  PROVE  /\ IsFiniteSet(a.page) /\ IsFiniteSet(a.table)
         /\ Cardinality(a.page) \in Nat /\ Cardinality(a.table) \in Nat
  <1>1. NumPages \in Nat
    BY VMMAssumption DEF VMMAssumption
  <1>2. IsFiniteSet(Pages)
    BY <1>1, FS_Interval DEF Pages
  <1>3. IsFiniteSet(a.page)
    BY <1>2, FS_Subset DEF Sane
  <1>4. IsFiniteSet({PAGE_DIR_INDEX(v) : v \in a.page})
    <2> DEFINE T == {PAGE_DIR_INDEX(v) : v \in a.page}
               f == [v \in a.page |-> PAGE_DIR_INDEX(v)]
    <2>1. f \in Surjection(a.page, T)
      BY DEF Surjection
    <2> HIDE DEF f, T
    <2>2. IsFiniteSet(T)
      BY <1>3, <2>1, FS_Surjection
    <2> QED  BY <2>2 DEF T
  <1>5. IsFiniteSet(a.table)
    BY <1>4 DEF Sane
  <1> QED  BY <1>3, <1>5, FS_CardinalityType

LEMMA TableIs ==
  ASSUME NEW v \in Int
  PROVE  PAGE_DIR_INDEX(v) \in Int
  BY VMMAssumption DEF VMMAssumption, PAGE_DIR_INDEX

LEMMA FaultIn ==
  ASSUME NEW a \in Spaces, NEW m \in Faults
  PROVE  /\ Fault(a, m) \in Spaces /\ Fault(a, m).page = a.page
         /\ a.fault # "none" => Fault(a, m) = a
         /\ a.fault = "none" => Fault(a, m).fault = m
  <1>1. [a EXCEPT !.fault = m] \in Spaces
    BY DEF Spaces
  <1>2. [a EXCEPT !.fault = m].page = a.page /\ [a EXCEPT !.fault = m].fault = m
    BY DEF Spaces
  <1> QED  BY <1>1, <1>2 DEF Fault

LEMMA WithTableIn ==
  ASSUME NEW a \in Spaces, NEW t \in Int
  PROVE  LET b == WithTable(a, t) IN
         /\ b \in Spaces /\ b.page = a.page /\ b.fault = a.fault /\ b.table = a.table \cup {t}
         /\ b.free = IF t \in a.table THEN a.free ELSE a.free - 1
         /\ b.write = IF t \in a.table THEN a.write ELSE a.write \ InTable(t)
  <1>1. CASE t \in a.table
    BY <1>1 DEF WithTable
  <1>2. CASE t \notin a.table
    <2> DEFINE f == a.free - 1
               T == a.table \cup {t}
               w == a.write \ InTable(t)
    <2>1. f \in Int /\ T \in SUBSET Int /\ w \in SUBSET Int
      BY DEF Spaces
    <2>2. WithTable(a, t) = [a EXCEPT !.free = f, !.table = T, !.write = w]
      BY <1>2 DEF WithTable
    <2> HIDE DEF f, T, w
    <2>3. [a EXCEPT !.free = f, !.table = T, !.write = w] \in Spaces
      BY <2>1 DEF Spaces
    <2>4. LET b == [a EXCEPT !.free = f, !.table = T, !.write = w] IN
          b.page = a.page /\ b.fault = a.fault /\ b.table = T /\ b.free = f /\ b.write = w
      BY DEF Spaces
    <2> QED  BY <1>2, <2>2, <2>3, <2>4 DEF f, T, w
  <1> QED  BY <1>1, <1>2

LEMMA SetEntryIn ==
  ASSUME NEW a \in Spaces, NEW v \in Int, NEW w \in BOOLEAN
  PROVE  LET b == SetEntry(a, v, w) IN
         /\ b \in Spaces /\ b.page = a.page \cup {v} /\ b.fault = a.fault /\ b.table = a.table
         /\ b.free = a.free - 1
         /\ b.write = IF w THEN a.write \cup {v} ELSE a.write
  <1> DEFINE f == a.free - 1
             p == a.page \cup {v}
             W == IF w THEN a.write \cup {v} ELSE a.write
  <1>1. f \in Int /\ p \in SUBSET Int /\ W \in SUBSET Int
    BY DEF Spaces
  <1>2. SetEntry(a, v, w) = [a EXCEPT !.free = f, !.page = p, !.write = W]
    BY DEF SetEntry
  <1> HIDE DEF f, p, W
  <1>3. [a EXCEPT !.free = f, !.page = p, !.write = W] \in Spaces
    BY <1>1 DEF Spaces
  <1>4. LET b == [a EXCEPT !.free = f, !.page = p, !.write = W] IN
        b.page = p /\ b.fault = a.fault /\ b.table = a.table /\ b.free = f /\ b.write = W
    BY DEF Spaces
  <1> QED  BY <1>2, <1>3, <1>4 DEF f, p, W

\* map_new_page in any address space.
LEMMA MapsPage ==
  ASSUME NEW a \in Spaces, NEW v \in Int, NEW w \in BOOLEAN
  PROVE  /\ map_new_page(a, v, w) \in Spaces
         /\ a.page \subseteq map_new_page(a, v, w).page
         /\ a.fault # "none" => map_new_page(a, v, w) = a
         /\ a.fault = "none" =>
              \/ map_new_page(a, v, w).fault # "none"
              \/ /\ v \notin a.page
                 /\ map_new_page(a, v, w) = SetEntry(WithTable(a, PAGE_DIR_INDEX(v)), v, w)
  <1>1. /\ PAGE_DIR_INDEX(v) \in Int
        /\ a = [free |-> a.free, table |-> a.table, page |-> a.page, write |-> a.write, fault |-> a.fault]
        /\ a.free \in Int /\ a.table \in SUBSET Int /\ a.page \in SUBSET Int /\ a.write \in SUBSET Int
        /\ a.fault \in Faults
    BY TableIs DEF Spaces
  <1> DEFINE b == WithTable(a, PAGE_DIR_INDEX(v))
  <1>2. b \in Spaces /\ b.page = a.page /\ b.fault = a.fault
    BY <1>1, WithTableIn
  <1> HIDE DEF b
  <1>3. SetEntry(b, v, w) \in Spaces /\ SetEntry(b, v, w).page = a.page \cup {v}
    <2>1. SetEntry(b, v, w) \in Spaces /\ SetEntry(b, v, w).page = b.page \cup {v}
      BY <1>2, SetEntryIn, ZenonT(30)
    <2> QED  BY <1>2, <2>1
  <1>4. \A m \in Faults : a.fault = "none" =>
           /\ Fault(a, m) \in Spaces /\ Fault(a, m).page = a.page /\ Fault(a, m).fault = m
    BY FaultIn
  <1>5. "no_frame" \in Faults /\ "remap" \in Faults /\ "no_frame" # "none" /\ "remap" # "none"
    BY DEF Faults
  <1> QED  BY <1>1, <1>3, <1>4, <1>5 DEF map_new_page, b

LEMMA MapsPageSane ==
  ASSUME NEW a, NEW k \in Int, Sane(a, k), a.fault = "none", NEW v \in Pages, NEW w \in BOOLEAN,
         map_new_page(a, v, w).fault = "none"
  PROVE  LET b == map_new_page(a, v, w) IN
         /\ Sane(b, k) /\ v \notin a.page /\ b.page = a.page \cup {v}
         /\ a.page \cap a.write \subseteq b.write
         /\ w => v \in b.write
  <1> DEFINE t == PAGE_DIR_INDEX(v)
             c == WithTable(a, t)
             b == map_new_page(a, v, w)
  <1>1. v \in Int /\ a \in Spaces /\ t \in Int
    BY TableIs DEF Pages, Sane
  <1>2. b = SetEntry(c, v, w) /\ v \notin a.page /\ b \in Spaces
    BY <1>1, MapsPage
  <1>3. /\ a.free \in Int /\ a.table \in SUBSET Int /\ a.page \in SUBSET Int /\ a.write \in SUBSET Int
        /\ a.table = {PAGE_DIR_INDEX(x) : x \in a.page}
        /\ a.free + Cardinality(a.page) + Cardinality(a.table) = k
    BY DEF Spaces, Sane
  <1>4. /\ c \in Spaces /\ c.page = a.page /\ c.table = a.table \cup {t}
        /\ c.free = IF t \in a.table THEN a.free ELSE a.free - 1
        /\ c.write = IF t \in a.table THEN a.write ELSE a.write \ InTable(t)
    BY <1>1, WithTableIn
  <1>5. a.page \cap a.write \subseteq c.write
    BY <1>3, <1>4 DEF InTable
  <1> HIDE DEF c, b
  <1>6. /\ b.page = c.page \cup {v} /\ b.table = c.table /\ b.free = c.free - 1
        /\ c.write \subseteq b.write /\ (w => v \in b.write)
    <2>0. c \in Spaces /\ v \in Int
      BY <1>1, <1>4
    <2>1. LET d == SetEntry(c, v, w) IN
         /\ d \in Spaces /\ d.page = c.page \cup {v} /\ d.fault = c.fault /\ d.table = c.table
         /\ d.free = c.free - 1
         /\ d.write = IF w THEN c.write \cup {v} ELSE c.write
      BY <2>0, SetEntryIn, ZenonT(30)
    <2> QED  BY <1>2, <2>1
  <1>7. b.page \subseteq Pages /\ b.table = {PAGE_DIR_INDEX(x) : x \in b.page}
    BY <1>3, <1>4, <1>6 DEF Sane
  <1>8. b.free + Cardinality(b.page) + Cardinality(b.table) = k
    <2>1. /\ IsFiniteSet(a.page) /\ IsFiniteSet(a.table)
          /\ Cardinality(a.page) \in Nat /\ Cardinality(a.table) \in Nat
      BY Finite
    <2>2. Cardinality(b.page) = Cardinality(a.page) + 1
      <3>1. b.page = a.page \cup {v}
        BY <1>4, <1>6
      <3> QED  BY <1>2, <2>1, <3>1, FS_AddElement, ZenonT(30)
    <2> HIDE DEF t
    <2>3. Cardinality(b.table) = IF t \in a.table THEN Cardinality(a.table) ELSE Cardinality(a.table) + 1
      <3>1. CASE t \in a.table
        <4>1. b.table = a.table
          BY <1>4, <1>6, <3>1
        <4> QED  BY <3>1, <4>1
      <3>2. CASE t \notin a.table
        <4>1. b.table = a.table \cup {t}
          BY <1>4, <1>6
        <4>2. IsFiniteSet(a.table)
          BY <2>1
        <4>3. Cardinality(a.table \cup {t}) = Cardinality(a.table) + 1
          BY <3>2, <4>2, FS_AddElement
        <4> QED  BY <3>2, <4>1, <4>3
      <3> QED  BY <3>1, <3>2
    <2> QED  BY <1>3, <1>4, <1>6, <2>1, <2>2, <2>3
  <1> QED  BY <1>2, <1>4, <1>5, <1>6, <1>7, <1>8 DEF Sane, b

LEMMA UnmapIn ==
  ASSUME NEW a \in Spaces, NEW v \in Int
  PROVE  LET b    == vmm_unmap_page(a, v)
             t    == PAGE_DIR_INDEX(v)
             last == (a.page \ {v}) \cap InTable(t) = {}
         IN
         /\ b \in Spaces /\ b.page = a.page \ {v} /\ b.write = a.write /\ b.fault = a.fault
         /\ b.table = IF last THEN a.table \ {t} ELSE a.table
         /\ b.free = IF last THEN a.free + 1 ELSE a.free
  <1> DEFINE t == PAGE_DIR_INDEX(v)
             b == vmm_unmap_page(a, v)
             p == a.page \ {v}
             f == a.free + 1
             T == a.table \ {t}
  <1>1. p \in SUBSET Int /\ f \in Int /\ T \in SUBSET Int
    BY DEF Spaces
  <1>2. CASE p \cap InTable(t) # {}
    <2>1. b = [a EXCEPT !.page = p]
      BY <1>2 DEF vmm_unmap_page, Spaces
    <2> HIDE DEF b, p
    <2>2. [a EXCEPT !.page = p] \in Spaces
      BY <1>1 DEF Spaces
    <2>3. LET c == [a EXCEPT !.page = p] IN
          c.page = p /\ c.free = a.free /\ c.table = a.table /\ c.write = a.write /\ c.fault = a.fault
      BY DEF Spaces
    <2> QED  BY <1>2, <2>1, <2>2, <2>3 DEF b, p
  <1>3. CASE p \cap InTable(t) = {}
    <2>1. b = [a EXCEPT !.page = p, !.free = f, !.table = T]
      BY <1>3 DEF vmm_unmap_page, Spaces
    <2> HIDE DEF b, p, f, T
    <2>2. [a EXCEPT !.page = p, !.free = f, !.table = T] \in Spaces
      BY <1>1 DEF Spaces
    <2>3. LET c == [a EXCEPT !.page = p, !.free = f, !.table = T] IN
          c.page = p /\ c.free = f /\ c.table = T /\ c.write = a.write /\ c.fault = a.fault
      BY DEF Spaces
    <2> QED  BY <1>3, <2>1, <2>2, <2>3 DEF b, p, f, T
  <1> QED  BY <1>2, <1>3

\* vmm_unmap_page drops one frame, and a page table only with its last page.
LEMMA UnmapsPage ==
  ASSUME NEW a, NEW k \in Int, Sane(a, k), NEW v \in a.page
  PROVE  LET b == vmm_unmap_page(a, v) IN
         /\ Sane(b, k - 1) /\ b.page = a.page \ {v} /\ b.write = a.write /\ b.fault = a.fault
  <1> DEFINE t == PAGE_DIR_INDEX(v)
             b == vmm_unmap_page(a, v)
             last == (a.page \ {v}) \cap InTable(t) = {}
  <1>1. /\ a.free \in Int /\ v \in Int /\ a \in Spaces /\ a.page \subseteq Pages
        /\ a.table = {PAGE_DIR_INDEX(x) : x \in a.page}
        /\ a.free + Cardinality(a.page) + Cardinality(a.table) = k
    BY DEF Spaces, Sane
  <1>2. /\ IsFiniteSet(a.page) /\ IsFiniteSet(a.table) /\ t \in a.table
        /\ Cardinality(a.page) \in Nat /\ Cardinality(a.table) \in Nat
    BY <1>1, Finite
  <1>3. /\ b \in Spaces /\ b.page = a.page \ {v} /\ b.write = a.write /\ b.fault = a.fault
        /\ b.table = IF last THEN a.table \ {t} ELSE a.table
        /\ b.free = IF last THEN a.free + 1 ELSE a.free
    BY <1>1, UnmapIn
  <1>4. Cardinality(a.page \ {v}) = Cardinality(a.page) - 1
    BY <1>2, FS_RemoveElement
  <1>5. Cardinality(a.table \ {t}) = Cardinality(a.table) - 1
    BY <1>2, FS_RemoveElement
  <1>6. b.table = {PAGE_DIR_INDEX(x) : x \in a.page \ {v}}
    <2>1. CASE last
      BY <1>1, <1>3, <2>1 DEF InTable
    <2>2. CASE ~last
      BY <1>1, <1>3, <2>2 DEF InTable
    <2> QED  BY <2>1, <2>2
  <1> HIDE DEF b, t, last
  <1>7. b.free + Cardinality(b.page) + Cardinality(b.table) = k - 1
    BY <1>1, <1>2, <1>3, <1>4, <1>5
  <1>8. Sane(b, k - 1)
    BY <1>1, <1>3, <1>6, <1>7 DEF Sane
  <1> QED  BY <1>3, <1>8 DEF b

\* vfree_page returns the frame as well, and does nothing about a page that is
\* not present.
LEMMA FreesPage ==
  ASSUME NEW a, NEW k \in Int, Sane(a, k), NEW v
  PROVE  LET b == vfree_page(a, v) IN
         /\ Sane(b, k) /\ b.page = a.page \ {v} /\ b.write = a.write /\ b.fault = a.fault
  <1> DEFINE b == vfree_page(a, v)
             c == [a EXCEPT !.free = @ + 1]
  <1>1. CASE v \in a.page
    <2>1. virt_to_phys(a, v)
      BY <1>1 DEF virt_to_phys, Sane
    <2>2. b = vmm_unmap_page(c, v)
      BY <2>1 DEF vfree_page
    <2>3. /\ c.page = a.page /\ c.write = a.write /\ c.fault = a.fault /\ c.table = a.table
          /\ c.free = a.free + 1 /\ c \in Spaces /\ a.free \in Int
      BY DEF Sane, Spaces
    <2> HIDE DEF b, c
    <2>4. Cardinality(a.page) \in Nat /\ Cardinality(a.table) \in Nat
      BY Finite
    <2>5. a.free + Cardinality(a.page) + Cardinality(a.table) = k
      BY DEF Sane
    <2>6. c.free + Cardinality(c.page) + Cardinality(c.table) = k + 1
      BY <2>3, <2>4, <2>5
    <2>7. Sane(c, k + 1)
      BY <2>3, <2>6 DEF Sane
    <2>8. Sane(b, (k + 1) - 1) /\ b.page = c.page \ {v} /\ b.write = c.write /\ b.fault = c.fault
      BY <1>1, <2>2, <2>3, <2>7, UnmapsPage
    <2>9. (k + 1) - 1 = k
      OBVIOUS
    <2> QED  BY <2>3, <2>8, <2>9 DEF b
  <1>2. CASE v \notin a.page
    BY <1>2 DEF vfree_page, virt_to_phys
  <1> QED  BY <1>1, <1>2

-----------------------------------------------------------------------------
(* Ranges of pages                                                         *)

\* map_new_range, after each of its pages.
MapLoop(a, first, w) ==
  LET upto[n \in Nat] == IF n = 0 THEN a ELSE map_new_page(upto[n - 1], first + n - 1, w)
  IN  upto

LEMMA MapLoopIs ==
  ASSUME NEW a \in Spaces, NEW first \in Int, NEW w \in BOOLEAN
  PROVE  /\ MapLoop(a, first, w)[0] = a
         /\ \A n \in Nat : /\ MapLoop(a, first, w)[n] \in Spaces
                           /\ MapLoop(a, first, w)[n + 1] = map_new_page(MapLoop(a, first, w)[n], first + n, w)
  <1> DEFINE Step(x, n) == map_new_page(x, first + n - 1, w)
             G == [n \in Nat |-> [x \in Spaces |-> Step(x, n + 1)]]
             Body(f) == [n \in Nat |-> IF n = 0 THEN a ELSE Step(f[n - 1], n)]
             N == CHOOSE f : f = Body(f)
  <1>1. CountedMaps(G, Spaces)
    <2>1. ASSUME NEW n \in Nat, NEW x \in Spaces  PROVE Step(x, n + 1) \in Spaces
      <3>1. first + (n + 1) - 1 \in Int
        OBVIOUS
      <3> QED  BY <3>1, MapsPage
    <2> HIDE DEF Step
    <2> QED  BY <2>1 DEF CountedMaps, Maps
  <1> HIDE DEF Step
  <1>3. PICK h : h \in [Nat -> Spaces] /\ h[0] = a /\ \A n \in Nat : h[n + 1] = G[n][h[n]]
    <2> HIDE DEF G
    <2>1. PICK h : CountedSolves(h, Spaces, a, G)
      BY <1>1, CountedRecursion
    <2> QED  BY <2>1 DEF CountedSolves
  <1>4. \A n \in Nat : h[n + 1] = Step(h[n], n + 1)
    BY <1>3
  <1>5. h = Body(h)
    <2>1. ASSUME NEW n \in Nat  PROVE h[n] = IF n = 0 THEN a ELSE Step(h[n - 1], n)
      <3>1. CASE n = 0
        BY <1>3, <3>1
      <3>2. CASE n # 0
        <4>1. n - 1 \in Nat /\ (n - 1) + 1 = n
          BY <3>2
        <4> QED  BY <1>4, <3>2, <4>1
      <3> QED  BY <3>1, <3>2
    <2> QED  BY <1>3, <2>1
  <1>6. N = Body(N)
    BY <1>5
  <1>7. MapLoop(a, first, w) = N
    BY DEF MapLoop, N, Step
  <1> HIDE DEF N
  <1>8. N[0] = a /\ \A n \in Nat : N[n + 1] = Step(N[n], n + 1)
    <2>1. \A n \in Nat : N[n] = IF n = 0 THEN a ELSE Step(N[n - 1], n)
      BY <1>6
    <2>2. \A n \in Nat : n + 1 \in Nat /\ n + 1 # 0 /\ (n + 1) - 1 = n
      OBVIOUS
    <2> QED  BY <2>1, <2>2
  <1>9. \A n \in Nat : N[n] = h[n]
    <2> DEFINE A == {n \in Nat : N[n] = h[n]}
    <2>1. 0 \in A /\ \A n \in Nat : n \in A => n + 1 \in A
      BY <1>3, <1>4, <1>8
    <2> HIDE DEF A
    <2>2. \A n \in Nat : n \in A
      BY <2>1, Induct
    <2> QED  BY <2>2 DEF A
  <1>10. \A n \in Nat : N[n] \in Spaces
    BY <1>3, <1>9
  <1>11. ASSUME NEW n \in Nat  PROVE N[n + 1] = map_new_page(N[n], first + n, w)
    <2>1. first + (n + 1) - 1 = first + n
      OBVIOUS
    <2> QED  BY <1>8, <2>1 DEF Step
  <1> QED  BY <1>7, <1>8, <1>10, <1>11


\* The pages first .. first + n - 1.
Run(first, n) == first .. first + n - 1

\* Either something goes wrong, or the pages were not there and are now; no
\* page goes in any case.
LEMMA MapsRange ==
  ASSUME NEW a, NEW k \in Int, Sane(a, k), a.fault = "none", NEW first \in Int, NEW end \in Int,
         first < end, first .. end - 1 \subseteq Pages, NEW w \in BOOLEAN
  PROVE  LET r == map_new_range(a, first, end, w) IN
         /\ r \in Spaces /\ a.page \subseteq r.page
         /\ r.fault = "none" =>
              /\ Sane(r, k) /\ r.page = a.page \cup (first .. end - 1)
              /\ a.page \cap (first .. end - 1) = {}
              /\ a.page \cap a.write \subseteq r.write
              /\ w => first .. end - 1 \subseteq r.write
  <1> DEFINE L == MapLoop(a, first, w)
             Filled(r, n) ==
               /\ Sane(r, k) /\ r.page = a.page \cup Run(first, n)
               /\ a.page \cap Run(first, n) = {}
               /\ a.page \cap a.write \subseteq r.write
               /\ w => Run(first, n) \subseteq r.write
             A == {n \in Nat : n <= end - first =>
                                 /\ a.page \subseteq L[n].page
                                 /\ L[n].fault = "none" => Filled(L[n], n)}
  <1>1. a \in Spaces
    BY DEF Sane
  <1>2. L[0] = a /\ \A n \in Nat : L[n] \in Spaces /\ L[n + 1] = map_new_page(L[n], first + n, w)
    BY <1>1, MapLoopIs
  <1> HIDE DEF L
  <1>3. 0 \in A
    <2>1. Run(first, 0) = {}
      BY DEF Run
    <2> QED  BY <1>2, <2>1
  <1>4. ASSUME NEW n \in Nat, n \in A  PROVE n + 1 \in A
    <2> SUFFICES ASSUME n + 1 <= end - first
                 PROVE  /\ a.page \subseteq L[n + 1].page
                        /\ L[n + 1].fault = "none" => Filled(L[n + 1], n + 1)
      BY DEF A
    <2>1. a.page \subseteq L[n].page /\ (L[n].fault = "none" => Filled(L[n], n))
      BY <1>4
    <2>2. first + n \in Pages /\ first + n \in Int
      BY DEF Pages
    <2> DEFINE r == L[n]
               b == map_new_page(r, first + n, w)
    <2>3. r \in Spaces /\ L[n + 1] = b
      BY <1>2
    <2>4. r.page \subseteq b.page /\ (r.fault # "none" => b = r)
      BY <2>2, <2>3, MapsPage, Zenon
    <2>5. a.page \subseteq L[n + 1].page
      BY <2>1, <2>3, <2>4
    <2>6. ASSUME b.fault = "none"  PROVE Filled(b, n + 1)
      <3>1. r.fault = "none" /\ Filled(r, n)
        BY <2>1, <2>4, <2>6
      <3>2. /\ Sane(b, k) /\ first + n \notin r.page /\ b.page = r.page \cup {first + n}
            /\ r.page \cap r.write \subseteq b.write
            /\ w => first + n \in b.write
        <4> HIDE DEF r
        <4> QED  BY <2>2, <2>6, <3>1, MapsPageSane
      <3>3. Run(first, n + 1) = Run(first, n) \cup {first + n}
        BY DEF Run
      <3> HIDE DEF b, r
      <3> QED  BY <3>1, <3>2, <3>3
    <2> QED  BY <2>3, <2>5, <2>6
  <1>5. \A n \in Nat : n \in A
    <2> HIDE DEF A
    <2> QED  BY <1>3, <1>4, Induct
  <1>6. end - first \in Nat /\ Run(first, end - first) = first .. end - 1
    BY DEF Run
  <1>7. map_new_range(a, first, end, w) = L[end - first]
    BY DEF map_new_range, MapLoop, L
  <1>8. LET r == L[end - first] IN
        r \in Spaces /\ a.page \subseteq r.page /\ (r.fault = "none" => Filled(r, end - first))
    <2> DEFINE m == end - first
    <2>1. m \in A /\ m \in Nat /\ m <= end - first
      BY <1>5, <1>6
    <2> HIDE DEF m, Filled
    <2>2. a.page \subseteq L[m].page /\ (L[m].fault = "none" => Filled(L[m], m))
      BY <2>1
    <2>3. L[m] \in Spaces
      BY <1>2, <2>1
    <2> QED  BY <2>2, <2>3 DEF m
  <1> QED  BY <1>6, <1>7, <1>8


\* unmap_range, after each of its pages.
UnmapLoop(a, first) ==
  LET upto[n \in Nat] == IF n = 0 THEN a ELSE vmm_unmap_page(upto[n - 1], first + n - 1)
  IN  upto

LEMMA UnmapLoopIs ==
  ASSUME NEW a \in Spaces, NEW first \in Int
  PROVE  /\ UnmapLoop(a, first)[0] = a
         /\ \A n \in Nat : UnmapLoop(a, first)[n + 1] = vmm_unmap_page(UnmapLoop(a, first)[n], first + n)
  <1> DEFINE Step(x, n) == vmm_unmap_page(x, first + n - 1)
             G == [n \in Nat |-> [x \in Spaces |-> Step(x, n + 1)]]
             Body(f) == [n \in Nat |-> IF n = 0 THEN a ELSE Step(f[n - 1], n)]
             N == CHOOSE f : f = Body(f)
  <1>1. CountedMaps(G, Spaces)
    <2>1. ASSUME NEW n \in Nat, NEW x \in Spaces  PROVE Step(x, n + 1) \in Spaces
      <3>1. first + (n + 1) - 1 \in Int
        OBVIOUS
      <3> QED  BY <3>1, UnmapIn
    <2> HIDE DEF Step
    <2> QED  BY <2>1 DEF CountedMaps, Maps
  <1> HIDE DEF Step
  <1>2. PICK h : h \in [Nat -> Spaces] /\ h[0] = a /\ \A n \in Nat : h[n + 1] = G[n][h[n]]
    <2> HIDE DEF G
    <2>1. PICK h : CountedSolves(h, Spaces, a, G)
      BY <1>1, CountedRecursion
    <2> QED  BY <2>1 DEF CountedSolves
  <1>3. \A n \in Nat : h[n + 1] = Step(h[n], n + 1)
    BY <1>2
  <1>4. h = Body(h)
    <2>1. ASSUME NEW n \in Nat  PROVE h[n] = IF n = 0 THEN a ELSE Step(h[n - 1], n)
      <3>1. CASE n = 0
        BY <1>2, <3>1
      <3>2. CASE n # 0
        <4>1. n - 1 \in Nat /\ (n - 1) + 1 = n
          BY <3>2
        <4> QED  BY <1>3, <3>2, <4>1
      <3> QED  BY <3>1, <3>2
    <2> QED  BY <1>2, <2>1
  <1>5. N = Body(N)
    BY <1>4
  <1>6. UnmapLoop(a, first) = N
    BY DEF UnmapLoop, N, Step
  <1> HIDE DEF N
  <1>7. N[0] = a /\ \A n \in Nat : N[n + 1] = Step(N[n], n + 1)
    <2>1. \A n \in Nat : N[n] = IF n = 0 THEN a ELSE Step(N[n - 1], n)
      BY <1>5
    <2>2. \A n \in Nat : n + 1 \in Nat /\ n + 1 # 0 /\ (n + 1) - 1 = n
      OBVIOUS
    <2> QED  BY <2>1, <2>2
  <1>8. ASSUME NEW n \in Nat  PROVE N[n + 1] = vmm_unmap_page(N[n], first + n)
    <2>1. first + (n + 1) - 1 = first + n
      OBVIOUS
    <2> QED  BY <1>7, <2>1 DEF Step
  <1> QED  BY <1>6, <1>7, <1>8

LEMMA UnmapsRange ==
  ASSUME NEW a, NEW k \in Int, Sane(a, k), NEW first \in Int, NEW end \in Int,
         first <= end, first .. end - 1 \subseteq a.page
  PROVE  LET r == unmap_range(a, first, end) IN
         /\ Sane(r, k - (end - first)) /\ r.page = a.page \ (first .. end - 1)
         /\ r.write = a.write /\ r.fault = a.fault
  <1> DEFINE L == UnmapLoop(a, first)
             Unmapped(r, n) == /\ Sane(r, k - n) /\ r.page = a.page \ Run(first, n)
                               /\ r.write = a.write /\ r.fault = a.fault
             A == {n \in Nat : n <= end - first => Unmapped(L[n], n)}
  <1>1. a \in Spaces
    BY DEF Sane
  <1>2. L[0] = a /\ \A n \in Nat : L[n + 1] = vmm_unmap_page(L[n], first + n)
    BY <1>1, UnmapLoopIs
  <1> HIDE DEF L
  <1>3. 0 \in A
    <2>1. Run(first, 0) = {} /\ k - 0 = k
      BY DEF Run
    <2> QED  BY <1>2, <2>1
  <1>4. ASSUME NEW n \in Nat, n \in A  PROVE n + 1 \in A
    <2> SUFFICES ASSUME n + 1 <= end - first  PROVE Unmapped(L[n + 1], n + 1)
      BY DEF A
    <2>1. Unmapped(L[n], n)
      BY <1>4
    <2>2. first + n \in a.page /\ first + n \notin Run(first, n)
      BY DEF Run
    <2> DEFINE r == L[n]
               b == vmm_unmap_page(r, first + n)
    <2>3. L[n + 1] = b
      BY <1>2
    <2>4. k - n \in Int /\ Sane(r, k - n) /\ first + n \in r.page
      BY <2>1, <2>2
    <2>5. Sane(b, (k - n) - 1) /\ b.page = r.page \ {first + n} /\ b.write = r.write /\ b.fault = r.fault
      <3> HIDE DEF r
      <3> QED  BY <2>4, UnmapsPage
    <2>6. (k - n) - 1 = k - (n + 1) /\ Run(first, n + 1) = Run(first, n) \cup {first + n}
      BY DEF Run
    <2> HIDE DEF b
    <2> QED  BY <2>1, <2>3, <2>5, <2>6
  <1>5. \A n \in Nat : n \in A
    <2> HIDE DEF A
    <2> QED  BY <1>3, <1>4, Induct
  <1> DEFINE m == end - first
  <1>6. m \in Nat /\ m <= end - first /\ Run(first, m) = first .. end - 1
    BY DEF Run
  <1>7. unmap_range(a, first, end) = L[m]
    BY DEF unmap_range, UnmapLoop, L
  <1> HIDE DEF m, Unmapped
  <1>8. Unmapped(L[m], m)
    BY <1>5, <1>6
  <1> QED  BY <1>6, <1>7, <1>8 DEF Unmapped, m


-----------------------------------------------------------------------------
(* Sequences                                                               *)

\* From the place `from' of l on, r has the elements of l one place later.
Later(r, l, from) == \A j \in from .. Len(l) : r[j + 1] = l[j]

\* A sequence with an element put between the first k and the others.
Joins(l, k, b) == SubSeq(l, 1, k) \o <<b>> \o SubSeq(l, k + 1, Len(l))

LEMMA Inserted ==
  ASSUME NEW S, NEW l \in Seq(S), NEW k \in 0 .. Len(l), NEW b \in S
  PROVE  LET r == Joins(l, k, b) IN
         /\ r \in Seq(S) /\ Len(r) = Len(l) + 1
         /\ \A i \in 1 .. k : r[i] = l[i]
         /\ r[k + 1] = b
         /\ Later(r, l, k + 1)
  <1> DEFINE p == SubSeq(l, 1, k)
             q == SubSeq(l, k + 1, Len(l))
             r == p \o <<b>> \o q
  <1>1. p \in Seq(S) /\ Len(p) = k /\ \A i \in 1 .. k : p[i] = l[i]
    OBVIOUS
  <1>2. q \in Seq(S) /\ Len(q) = Len(l) - k /\ \A i \in 1 .. Len(l) - k : q[i] = l[k + i]
    OBVIOUS
  <1> HIDE DEF p, q, Later
  <1>3. r \in Seq(S) /\ Len(r) = Len(l) + 1
    <2>1. <<b>> \in Seq(S) /\ Len(<<b>>) = 1
      OBVIOUS
    <2>2. p \o <<b>> \in Seq(S) /\ Len(p \o <<b>>) = k + 1
      BY <1>1, <2>1, ConcatProperties
    <2>3. r \in Seq(S) /\ Len(r) = Len(p \o <<b>>) + Len(q)
      BY <1>2, <2>2, ConcatProperties
    <2>4. Len(q) = Len(l) - k /\ k \in Int /\ Len(l) \in Int
      BY <1>2
    <2> HIDE DEF r
    <2>5. Len(r) = (k + 1) + (Len(l) - k)
      BY <2>2, <2>3, <2>4
    <2> QED  BY <2>3, <2>4, <2>5
  <1>4. \A i \in 1 .. k : r[i] = l[i]
    BY <1>1, <1>2
  <1>5. r[k + 1] = b
    BY <1>1, <1>2
  <1>6. ASSUME NEW i \in k + 1 .. Len(l)  PROVE r[i + 1] = l[i]
    <2>1. r[i + 1] = q[i - k]
      BY <1>1, <1>2
    <2>2. i - k \in 1 .. Len(l) - k /\ k + (i - k) = i
      OBVIOUS
    <2> QED  BY <1>2, <2>1, <2>2
  <1>7. Later(r, l, k + 1)
    BY <1>6 DEF Later
  <1> QED  BY <1>3, <1>4, <1>5, <1>7 DEF p, q, Joins

\* A sequence without its element i.
LEMMA Removed ==
  ASSUME NEW S, NEW l \in Seq(S), NEW i \in 1 .. Len(l)
  PROVE  LET r == SubSeq(l, 1, i - 1) \o SubSeq(l, i + 1, Len(l)) IN
         /\ r \in Seq(S) /\ Len(r) = Len(l) - 1
         /\ \A j \in 1 .. i - 1 : r[j] = l[j]
         /\ \A j \in i .. Len(l) - 1 : r[j] = l[j + 1]
  <1> DEFINE p == SubSeq(l, 1, i - 1)
             q == SubSeq(l, i + 1, Len(l))
             r == p \o q
  <1>1. p \in Seq(S) /\ Len(p) = i - 1 /\ \A j \in 1 .. i - 1 : p[j] = l[j]
    OBVIOUS
  <1>2. q \in Seq(S) /\ Len(q) = Len(l) - i /\ \A j \in 1 .. Len(l) - i : q[j] = l[i + j]
    OBVIOUS
  <1> HIDE DEF p, q
  <1>3. r \in Seq(S) /\ Len(r) = Len(l) - 1
    <2>1. r \in Seq(S) /\ Len(r) = Len(p) + Len(q)
      BY <1>1, <1>2, ConcatProperties
    <2> QED  BY <1>1, <1>2, <2>1
  <1>4. \A j \in 1 .. i - 1 : r[j] = l[j]
    BY <1>1, <1>2
  <1>5. ASSUME NEW j \in i .. Len(l) - 1  PROVE r[j] = l[j + 1]
    <2>1. r[j] = q[j - (i - 1)]
      BY <1>1, <1>2
    <2>2. j - (i - 1) \in 1 .. Len(l) - i /\ i + (j - (i - 1)) = j + 1
      OBVIOUS
    <2> QED  BY <1>2, <2>1, <2>2
  <1> QED  BY <1>3, <1>4, <1>5 DEF p, q

\* A sequence with two elements in the place of its element i.
Halves(l, i, b, c) == SubSeq(l, 1, i - 1) \o <<b, c>> \o SubSeq(l, i + 1, Len(l))

LEMMA Halved ==
  ASSUME NEW S, NEW l \in Seq(S), NEW i \in 1 .. Len(l), NEW b \in S, NEW c \in S
  PROVE  LET r == Halves(l, i, b, c) IN
         /\ r \in Seq(S) /\ Len(r) = Len(l) + 1
         /\ \A j \in 1 .. i - 1 : r[j] = l[j]
         /\ r[i] = b /\ r[i + 1] = c
         /\ Later(r, l, i + 1)
  <1> DEFINE p == SubSeq(l, 1, i - 1)
             q == SubSeq(l, i + 1, Len(l))
             m == <<b, c>>
  <1>1. p \in Seq(S) /\ Len(p) = i - 1 /\ \A j \in 1 .. i - 1 : p[j] = l[j]
    OBVIOUS
  <1>2. q \in Seq(S) /\ Len(q) = Len(l) - i /\ \A j \in 1 .. Len(l) - i : q[j] = l[i + j]
    OBVIOUS
  <1>0. m \in Seq(S) /\ Len(m) = 2 /\ m[1] = b /\ m[2] = c
    OBVIOUS
  <1> HIDE DEF m, p, q
  <1> DEFINE u == p \o m
  <1>3. /\ u \in Seq(S) /\ Len(u) = i + 1
        /\ \A j \in 1 .. i - 1 : u[j] = l[j]
        /\ u[i] = b /\ u[i + 1] = c
    <2>1. /\ u \in Seq(S) /\ Len(u) = Len(p) + Len(m)
          /\ \A j \in 1 .. Len(p) + Len(m) : u[j] = IF j <= Len(p) THEN p[j] ELSE m[j - Len(p)]
      BY <1>0, <1>1, ConcatProperties
    <2>2. Len(p) + Len(m) = i + 1 /\ Len(p) = i - 1
      BY <1>0, <1>1
    <2> HIDE DEF u
    <2>3. \A j \in 1 .. i + 1 : u[j] = IF j <= i - 1 THEN p[j] ELSE m[j - (i - 1)]
      BY <2>1, <2>2
    <2>4. u[i] = m[1] /\ u[i + 1] = m[2]
      <3>1. i - (i - 1) = 1 /\ (i + 1) - (i - 1) = 2 /\ i \in 1 .. i + 1 /\ i + 1 \in 1 .. i + 1
        OBVIOUS
      <3> QED  BY <2>3, <3>1
    <2>5. \A j \in 1 .. i - 1 : u[j] = l[j]
      BY <1>1, <2>3
    <2> QED  BY <1>0, <2>1, <2>2, <2>4, <2>5
  <1> HIDE DEF u
  <1>4. /\ u \o q \in Seq(S) /\ Len(u \o q) = Len(l) + 1
        /\ \A j \in 1 .. Len(l) + 1 : (u \o q)[j] = IF j <= i + 1 THEN u[j] ELSE q[j - (i + 1)]
    <2>1. /\ u \o q \in Seq(S) /\ Len(u \o q) = Len(u) + Len(q)
          /\ \A j \in 1 .. Len(u) + Len(q) : (u \o q)[j] = IF j <= Len(u) THEN u[j] ELSE q[j - Len(u)]
      BY <1>2, <1>3, ConcatProperties
    <2>2. Len(u) + Len(q) = Len(l) + 1 /\ Len(u) = i + 1
      BY <1>2, <1>3
    <2> QED  BY <2>1, <2>2
  <1>5. ASSUME NEW j \in i + 1 .. Len(l)  PROVE (u \o q)[j + 1] = l[j]
    <2>1. (j + 1) - (i + 1) = j - i /\ j + 1 \in 1 .. Len(l) + 1 /\ ~ (j + 1 <= i + 1)
      OBVIOUS
    <2>2. (u \o q)[j + 1] = q[j - i]
      BY <1>4, <2>1
    <2>3. j - i \in 1 .. Len(l) - i /\ i + (j - i) = j
      OBVIOUS
    <2> QED  BY <1>2, <2>2, <2>3
  <1>6. \A j \in 1 .. i + 1 : (u \o q)[j] = u[j]
    BY <1>4
  <1> HIDE DEF q
  <1>7. /\ \A j \in 1 .. i - 1 : (u \o q)[j] = l[j]
        /\ (u \o q)[i] = b /\ (u \o q)[i + 1] = c
    BY <1>3, <1>6
  <1> QED  BY <1>4, <1>5, <1>7 DEF u, m, p, q, Halves, Later

-----------------------------------------------------------------------------
(* Lists of blocks                                                         *)

BlockSet == [start : Int, len : Int, write : BOOLEAN, grows : BOOLEAN]

\* A block that is not empty.
Sized(b) == b \in BlockSet /\ b.len > 0 /\ b.start >= 0 /\ End(b) <= NumPages

Precedes(b, c) == End(b) <= c.start

Sorted(list) ==
  /\ list \in Seq(BlockSet)
  /\ \A i \in 1 .. Len(list) : Sized(list[i])
  /\ \A i, j \in 1 .. Len(list) : i < j => Precedes(list[i], list[j])

Members(list) == {list[i] : i \in 1 .. Len(list)}

LEMMA WithinIs ==
  ASSUME NEW b, Sized(b)
  PROVE  /\ b.start \in Int /\ b.len \in Int /\ End(b) \in Int /\ b.start < End(b)
         /\ Within(b) \subseteq Pages /\ Pages \subseteq Int
         /\ \A v \in Int : v \in Within(b) <=> b.start <= v /\ v < End(b)
  BY VMMAssumption DEF VMMAssumption, Sized, BlockSet, End, Within, Pages

\* Blocks that have no page in common lie one behind the other.
LEMMA OneBehind ==
  ASSUME NEW b, NEW c, Sized(b), Sized(c)
  PROVE  Within(b) \cap Within(c) = {} <=> Precedes(b, c) \/ Precedes(c, b)
  <1>1. /\ b.start \in Int /\ c.start \in Int /\ b.start < End(b) /\ c.start < End(c)
        /\ End(b) \in Int /\ End(c) \in Int
        /\ \A v \in Int : v \in Within(b) <=> b.start <= v /\ v < End(b)
        /\ \A v \in Int : v \in Within(c) <=> c.start <= v /\ v < End(c)
    BY WithinIs
  <1>2. ASSUME Within(b) \cap Within(c) = {}  PROVE Precedes(b, c) \/ Precedes(c, b)
    <2>1. b.start \notin Within(c) /\ c.start \notin Within(b)
      BY <1>1, <1>2
    <2> QED  BY <1>1, <2>1 DEF Precedes
  <1>3. ASSUME Precedes(b, c) \/ Precedes(c, b), NEW v \in Within(b), v \in Within(c)  PROVE FALSE
    <2>1. v \in Int
      BY WithinIs
    <2>2. b.start <= v /\ v < End(b) /\ c.start <= v /\ v < End(c)
      BY <1>1, <1>3, <2>1
    <2> QED  BY <1>1, <1>3, <2>1, <2>2 DEF Precedes
  <1> QED  BY <1>2, <1>3

LEMMA MembersApart ==
  ASSUME NEW list, Sorted(list)
  PROVE  /\ \A b \in Members(list) : Sized(b)
         /\ \A b, c \in Members(list) : b # c => Within(b) \cap Within(c) = {}
         /\ \A i, j \in 1 .. Len(list) : list[i] = list[j] => i = j
  <1>1. Len(list) \in Nat /\ \A i \in 1 .. Len(list) : Sized(list[i])
    BY DEF Sorted
  <1>2. \A i, j \in 1 .. Len(list) : i < j => Precedes(list[i], list[j])
    BY DEF Sorted
  <1>3. ASSUME NEW i \in 1 .. Len(list), NEW j \in 1 .. Len(list), i # j
        PROVE  Within(list[i]) \cap Within(list[j]) = {}
    <2>1. i < j \/ j < i
      BY <1>1, <1>3
    <2>2. Precedes(list[i], list[j]) \/ Precedes(list[j], list[i])
      BY <1>2, <2>1
    <2> QED  BY <1>1, <2>2, OneBehind
  <1>4. ASSUME NEW i \in 1 .. Len(list), NEW j \in 1 .. Len(list), i # j
        PROVE  list[i] # list[j]
    <2>1. list[i].start \in Within(list[i])
      BY <1>1, WithinIs
    <2> QED  BY <1>3, <1>4, <2>1
  <1> QED  BY <1>1, <1>3, <1>4 DEF Members


Ahead(list, k, b)     == \A j \in 1 .. k : Precedes(list[j], b)
Behind(list, from, b) == \A j \in from .. Len(list) : Precedes(b, list[j])

LEMMA SortedInserted ==
  ASSUME NEW list, Sorted(list), NEW b, Sized(b), NEW k \in 0 .. Len(list),
         Ahead(list, k, b), Behind(list, k + 1, b),
         NEW r \in Seq(BlockSet), Len(r) = Len(list) + 1,
         \A j \in 1 .. k : r[j] = list[j],
         r[k + 1] = b,
         Later(r, list, k + 1)
  PROVE  Sorted(r) /\ Members(r) = Members(list) \cup {b}
  <1> USE DEF Ahead, Behind
  <1> DEFINE n == Len(list)
  <1>1. /\ n \in Nat /\ k \in Int /\ k <= n /\ 0 <= k
        /\ \A j \in 1 .. n : Sized(list[j])
        /\ \A i, j \in 1 .. n : i < j => Precedes(list[i], list[j])
    BY DEF Sorted
  <1> HIDE DEF n
  <1>2. ASSUME NEW j \in 1 .. n + 1
        PROVE  \/ j \in 1 .. k /\ j \in 1 .. n /\ r[j] = list[j]
               \/ j = k + 1 /\ r[j] = b
               \/ j - 1 \in k + 1 .. n /\ j - 1 \in 1 .. n /\ r[j] = list[j - 1]
    <2>1. CASE j <= k
      BY <1>1, <2>1
    <2>2. CASE j = k + 1
      BY <2>2
    <2>3. CASE k + 1 < j
      <3>1. j - 1 \in k + 1 .. n /\ j - 1 \in 1 .. n /\ (j - 1) + 1 = j
        BY <1>1, <2>3
      <3> QED  BY <3>1 DEF n, Later
    <2> QED  BY <1>1, <2>1, <2>2, <2>3
  <1>3. \A j \in 1 .. n + 1 : Sized(r[j])
    BY <1>1, <1>2
  <1>4. ASSUME NEW i \in 1 .. n + 1, NEW j \in 1 .. n + 1, i < j  PROVE Precedes(r[i], r[j])
    <2>1. CASE i \in 1 .. k /\ i \in 1 .. n /\ r[i] = list[i]
      <3>1. CASE j \in 1 .. k /\ j \in 1 .. n /\ r[j] = list[j]
        BY <1>1, <1>4, <2>1, <3>1
      <3>2. CASE j = k + 1 /\ r[j] = b
        BY <2>1, <3>2
      <3>3. CASE j - 1 \in k + 1 .. n /\ j - 1 \in 1 .. n /\ r[j] = list[j - 1]
        <4>1. i < j - 1
          BY <1>1, <2>1, <3>3
        <4> QED  BY <1>1, <2>1, <3>3, <4>1
      <3> QED  BY <1>2, <3>1, <3>2, <3>3
    <2>2. CASE i = k + 1 /\ r[i] = b
      <3>1. j - 1 \in k + 1 .. n /\ r[j] = list[j - 1]
        BY <1>1, <1>2, <1>4, <2>2
      <3> QED  BY <2>2, <3>1 DEF n
    <2>3. CASE i - 1 \in k + 1 .. n /\ i - 1 \in 1 .. n /\ r[i] = list[i - 1]
      <3>1. j - 1 \in 1 .. n /\ r[j] = list[j - 1]
        BY <1>1, <1>2, <1>4, <2>3
      <3>2. i - 1 < j - 1
        BY <1>4
      <3> QED  BY <1>1, <2>3, <3>1, <3>2
    <2> QED  BY <1>2, <2>1, <2>2, <2>3
  <1>5. Len(r) = n + 1
    BY DEF n
  <1>6. Sorted(r)
    BY <1>3, <1>4, <1>5 DEF Sorted
  <1>7. Members(r) = Members(list) \cup {b}
    <2>1. ASSUME NEW j \in 1 .. n + 1  PROVE r[j] \in Members(list) \cup {b}
      BY <1>2 DEF Members, n
    <2>2. ASSUME NEW j \in 1 .. n  PROVE list[j] \in Members(r)
      <3>1. CASE j \in 1 .. k
        <4>1. r[j] = list[j] /\ j \in 1 .. Len(r)
          BY <1>1, <1>5, <3>1
        <4> QED  BY <4>1 DEF Members
      <3>2. CASE j \in k + 1 .. n
        <4>1. r[j + 1] = list[j] /\ j + 1 \in 1 .. Len(r)
          BY <1>1, <1>5, <3>2 DEF n, Later
        <4> QED  BY <4>1 DEF Members
      <3> QED  BY <1>1, <3>1, <3>2
    <2>3. b \in Members(r)
      <3>1. k + 1 \in 1 .. Len(r)
        BY <1>1, <1>5
      <3> QED  BY <3>1 DEF Members
    <2>4. Members(r) \subseteq Members(list) \cup {b}
      BY <1>5, <2>1 DEF Members
    <2>5. Members(list) \subseteq Members(r)
      BY <2>2 DEF Members, n
    <2> QED  BY <2>3, <2>4, <2>5
  <1> QED  BY <1>6, <1>7

LEMMA SortedRemoved ==
  ASSUME NEW list, Sorted(list), NEW i \in 1 .. Len(list)
  PROVE  /\ Sorted(Remove(list, i)) /\ Members(Remove(list, i)) = Members(list) \ {list[i]}
  <1> DEFINE n == Len(list)
             r == Remove(list, i)
  <1>1. /\ n \in Nat /\ i \in 1 .. n /\ list \in Seq(BlockSet)
        /\ \A j \in 1 .. n : Sized(list[j])
        /\ \A h, j \in 1 .. n : h < j => Precedes(list[h], list[j])
    BY DEF Sorted
  <1>2. /\ r \in Seq(BlockSet) /\ Len(r) = n - 1
        /\ \A j \in 1 .. i - 1 : r[j] = list[j]
        /\ \A j \in i .. n - 1 : r[j] = list[j + 1]
    BY <1>1, Removed DEF Remove
  <1>3. \A h, j \in 1 .. n : list[h] = list[j] => h = j
    BY MembersApart
  <1>4. Members(list) = {list[j] : j \in 1 .. n} /\ Members(r) = {r[j] : j \in 1 .. n - 1}
    BY <1>2 DEF Members
  <1> HIDE DEF n, r
  <1> DEFINE At(j) == IF j < i THEN j ELSE j + 1
  <1>5. ASSUME NEW j \in 1 .. n - 1
        PROVE  At(j) \in 1 .. n /\ At(j) # i /\ r[j] = list[At(j)]
    <2>1. CASE j < i
      BY <1>1, <1>2, <2>1
    <2>2. CASE ~(j < i)
      BY <1>1, <1>2, <2>2
    <2> QED  BY <2>1, <2>2
  <1>6. \A h, j \in 1 .. n - 1 : h < j => At(h) < At(j)
    BY <1>1
  <1>7. ASSUME NEW j \in 1 .. n, j # i  PROVE \E h \in 1 .. n - 1 : At(h) = j
    <2>1. CASE j < i
      <3>1. j \in 1 .. n - 1 /\ At(j) = j
        BY <1>1, <2>1
      <3> QED  BY <3>1
    <2>2. CASE i < j
      <3>1. j - 1 \in 1 .. n - 1 /\ At(j - 1) = j
        BY <1>1, <2>2
      <3> QED  BY <3>1
    <2> QED  BY <1>1, <1>7, <2>1, <2>2
  <1> HIDE DEF At
  <1>8. Sorted(r)
    BY <1>1, <1>2, <1>5, <1>6 DEF Sorted
  <1>9. \A j \in 1 .. n - 1 : r[j] \in Members(list) \ {list[i]}
    BY <1>1, <1>3, <1>4, <1>5
  <1>10. \A j \in 1 .. n : j # i => list[j] \in Members(r)
    BY <1>4, <1>5, <1>7
  <1> QED  BY <1>4, <1>8, <1>9, <1>10 DEF r


PutAt(list, i, c) == [list EXCEPT ![i] = c]

LEMMA SortedReplaced ==
  ASSUME NEW list, Sorted(list), NEW i \in 1 .. Len(list), NEW c, Sized(c),
         Ahead(list, i - 1, c), Behind(list, i + 1, c)
  PROVE  LET r == PutAt(list, i, c) IN
         /\ Sorted(r) /\ Members(r) = (Members(list) \ {list[i]}) \cup {c}
         /\ Len(r) = Len(list) /\ r[i] = c /\ \A j \in 1 .. Len(list) : j # i => r[j] = list[j]
  <1> DEFINE n == Len(list)
             r == PutAt(list, i, c)
  <1>1. /\ n \in Nat /\ i \in 1 .. n /\ list \in Seq(BlockSet) /\ c \in BlockSet
        /\ \A j \in 1 .. n : Sized(list[j])
        /\ \A h, j \in 1 .. n : h < j => Precedes(list[h], list[j])
    BY DEF Sorted, Sized
  <1>2. /\ r \in Seq(BlockSet) /\ Len(r) = n
        /\ r[i] = c /\ \A j \in 1 .. n : j # i => r[j] = list[j]
    BY <1>1 DEF PutAt
  <1>3. \A h, j \in 1 .. n : list[h] = list[j] => h = j
    BY MembersApart
  <1>4. Members(list) = {list[j] : j \in 1 .. n} /\ Members(r) = {r[j] : j \in 1 .. n}
    BY <1>2 DEF Members
  <1>5. \A j \in 1 .. n : (j < i => Precedes(list[j], c)) /\ (i < j => Precedes(c, list[j]))
    BY <1>1 DEF Ahead, Behind
  <1> HIDE DEF n, r
  <1>6. \A j \in 1 .. n : Sized(r[j])
    BY <1>1, <1>2
  <1>7. ASSUME NEW h \in 1 .. n, NEW j \in 1 .. n, h < j  PROVE Precedes(r[h], r[j])
    <2>1. CASE h = i
      BY <1>1, <1>2, <1>5, <1>7, <2>1
    <2>2. CASE j = i
      BY <1>1, <1>2, <1>5, <1>7, <2>2
    <2>3. CASE h # i /\ j # i
      BY <1>1, <1>2, <1>7, <2>3
    <2> QED  BY <2>1, <2>2, <2>3
  <1>8. Sorted(r)
    BY <1>2, <1>6, <1>7 DEF Sorted
  <1>9. \A j \in 1 .. n : r[j] \in (Members(list) \ {list[i]}) \cup {c}
    BY <1>1, <1>2, <1>3, <1>4
  <1>10. \A j \in 1 .. n : j # i => list[j] \in Members(r)
    BY <1>2, <1>4
  <1>11. c \in Members(r)
    BY <1>1, <1>2, <1>4
  <1> QED  BY <1>2, <1>4, <1>8, <1>9, <1>10, <1>11, SMTT(30) DEF r, n

LEMMA SortedHalved ==
  ASSUME NEW list, Sorted(list), NEW i \in 1 .. Len(list), NEW b, NEW c, Sized(b), Sized(c),
         Precedes(b, c),
         Ahead(list, i - 1, b), Behind(list, i + 1, b), Behind(list, i + 1, c)
  PROVE  LET r == Halves(list, i, b, c) IN
         Sorted(r) /\ Members(r) = (Members(list) \ {list[i]}) \cup {b, c}
  <1> DEFINE n == Len(list)
             r == Halves(list, i, b, c)
             m == PutAt(list, i, b)
  <1>1. n \in Nat /\ i \in 1 .. n /\ list \in Seq(BlockSet) /\ b \in BlockSet /\ c \in BlockSet
    BY DEF Sorted, Sized
  <1>2. /\ r \in Seq(BlockSet) /\ Len(r) = n + 1
        /\ \A j \in 1 .. i - 1 : r[j] = list[j]
        /\ r[i] = b /\ r[i + 1] = c
        /\ Later(r, list, i + 1)
    <2> DEFINE q == Halves(list, i, b, c)
    <2>1. q \in Seq(BlockSet) /\ Len(q) = Len(list) + 1
      BY <1>1, Halved
    <2>2. \A j \in 1 .. i - 1 : q[j] = list[j]
      BY <1>1, Halved
    <2>3. q[i] = b /\ q[i + 1] = c
      BY <1>1, Halved
    <2>4. Later(q, list, i + 1)
      BY <1>1, Halved
    <2> QED  BY <2>1, <2>2, <2>3, <2>4
  <1>3. /\ Sorted(m) /\ Members(m) = (Members(list) \ {list[i]}) \cup {b}
        /\ Len(m) = n /\ m[i] = b /\ \A j \in 1 .. n : j # i => m[j] = list[j]
    BY SortedReplaced
  <1>4. Ahead(m, i, c)
    <2>1. ASSUME NEW j \in 1 .. i - 1  PROVE Precedes(m[j], c)
      <3>1. m[j] = list[j] /\ j < i /\ Sorted(m) /\ i \in 1 .. Len(m) /\ j \in 1 .. Len(m)
        BY <1>1, <1>3
      <3>2. Precedes(m[j], m[i]) /\ Sized(m[j]) /\ Sized(b)
        BY <3>1 DEF Sorted
      <3>3. End(m[j]) \in Int /\ b.start \in Int /\ End(b) \in Int /\ c.start \in Int /\ b.start < End(b)
        BY <3>2, WithinIs
      <3> QED  BY <1>3, <3>2, <3>3 DEF Precedes
    <2> QED  BY <1>1, <1>3, <2>1 DEF Ahead
  <1>5. Behind(m, i + 1, c)
    BY <1>1, <1>3 DEF Behind
  <1>6. /\ \A j \in 1 .. i : r[j] = m[j]
        /\ Later(r, m, i + 1)
    <2>1. ASSUME NEW j \in 1 .. i  PROVE r[j] = m[j]
      <3>1. CASE j = i
        BY <1>2, <1>3, <3>1
      <3>2. CASE j # i
        <4>1. j \in 1 .. i - 1 /\ j \in 1 .. n
          BY <1>1, <3>2
        <4> QED  BY <1>2, <1>3, <3>2, <4>1
      <3> QED  BY <3>1, <3>2
    <2>2. ASSUME NEW j \in i + 1 .. n  PROVE r[j + 1] = m[j]
      <3>1. j \in 1 .. n /\ j # i
        BY <1>1
      <3> QED  BY <1>2, <1>3, <3>1 DEF Later
    <2> QED  BY <1>3, <2>1, <2>2 DEF Later
  <1> HIDE DEF r, m
  <1>7. i \in 0 .. Len(m) /\ Len(r) = Len(m) + 1
    BY <1>1, <1>2, <1>3
  <1>8. Sorted(r) /\ Members(r) = Members(m) \cup {c}
    <2>1. Sorted(m) /\ r \in Seq(BlockSet) /\ r[i + 1] = c
      BY <1>2, <1>3
    <2>2. \A j \in 1 .. i : r[j] = m[j]
      BY <1>6
    <2>3. Later(r, m, i + 1)
      BY <1>6
    <2>4. i \in 0 .. Len(m)
      BY <1>7
    <2>5. Len(r) = Len(m) + 1
      BY <1>7
    <2>6. Sorted(m)
      BY <1>3
    <2>7. r \in Seq(BlockSet)
      BY <1>2
    <2> QED  BY <1>4, <1>5, <2>1, <2>2, <2>3, <2>4, <2>5, <2>6, <2>7, SortedInserted
  <1> QED  BY <1>3, <1>8 DEF r


\* The walk of umap_pages finds the place of a new block.
LEMMA PassedIs ==
  ASSUME NEW list, Sorted(list), Len(list) > 0, NEW v \in Int
  PROVE  LET k == Passed(list, v) IN
         /\ k \in 1 .. Len(list)
         /\ k = Len(list) \/ End(list[k + 1]) > v
         /\ \A j \in 1 .. k - 1 : End(list[j + 1]) <= v
  <1> DEFINE n == Len(list)
             T == {k \in 1 .. n : k = n \/ End(list[k + 1]) > v}
  <1>1. n \in Nat /\ n \in T /\ T \in SUBSET Nat
    BY DEF Sorted
  <1>2. PICK m \in T : \A k \in T : m <= k
    <2> HIDE DEF T
    <2> QED  BY <1>1, Least
  <1>3. ASSUME NEW j \in 1 .. m - 1  PROVE End(list[j + 1]) <= v
    <2>1. j \in 1 .. n /\ j # n /\ ~ (m <= j)
      BY <1>1, <1>2
    <2>2. j \notin T
      BY <1>2, <2>1
    <2>3. j + 1 \in 1 .. n
      BY <1>1, <2>1
    <2>4. End(list[j + 1]) \in Int
      BY <2>3, WithinIs DEF Sorted
    <2> QED  BY <2>1, <2>2, <2>4
  <1>4. \E k \in 1 .. Len(list) :
          /\ k = Len(list) \/ End(list[k + 1]) > v
          /\ \A j \in 1 .. k - 1 : End(list[j + 1]) <= v
    BY <1>2, <1>3
  <1> QED  BY <1>4 DEF Passed

LEMMA Inserts ==
  ASSUME NEW list, Sorted(list), NEW b, Sized(b),
         \A c \in Members(list) : Within(b) \cap Within(c) = {}
  PROVE  Sorted(Insert(list, b)) /\ Members(Insert(list, b)) = Members(list) \cup {b}
  <1> DEFINE n == Len(list)
             r == Insert(list, b)
  <1>1. /\ n \in Nat /\ list \in Seq(BlockSet) /\ b \in BlockSet
        /\ \A j \in 1 .. n : Sized(list[j])
        /\ \A h, j \in 1 .. n : h < j => Precedes(list[h], list[j])
    BY DEF Sorted, Sized
  <1>2. /\ b.start \in Int /\ End(b) \in Int /\ b.start < End(b)
        /\ \A j \in 1 .. n : list[j].start \in Int /\ End(list[j]) \in Int /\ list[j].start < End(list[j])
    BY <1>1, WithinIs
  <1>3. \A j \in 1 .. n : End(b) <= list[j].start \/ End(list[j]) <= b.start
    <2> TAKE j \in 1 .. n
    <2>1. Within(b) \cap Within(list[j]) = {} /\ Sized(list[j])
      BY <1>1 DEF Members
    <2> QED  BY <2>1, OneBehind DEF Precedes
  <1>4. \A h, j \in 1 .. n : h < j => End(list[h]) <= list[j].start
    BY <1>1 DEF Precedes
  <1>5. CASE n = 0
    <2>1. list = <<>> /\ r = <<b>>
      BY <1>1, <1>5 DEF Insert
    <2>2. r \in Seq(BlockSet) /\ Len(r) = 1 /\ r[1] = b
      <3>1. <<b>> \in Seq(BlockSet) /\ Len(<<b>>) = 1 /\ <<b>>[1] = b
        BY <1>1
      <3> QED  BY <2>1, <3>1
    <2>3. Sorted(r)
      BY <2>2 DEF Sorted
    <2>4. Members(r) = {b} /\ Members(list) = {}
      BY <2>1, <2>2 DEF Members
    <2> QED  BY <2>3, <2>4
  <1>6. ASSUME NEW k \in 0 .. n, Ahead(list, k, b), Behind(list, k + 1, b),
               r \in Seq(BlockSet), Len(r) = n + 1, \A j \in 1 .. k : r[j] = list[j],
               r[k + 1] = b, Later(r, list, k + 1)
        PROVE  Sorted(r) /\ Members(r) = Members(list) \cup {b}
    <2> HIDE DEF r
    <2> QED  BY <1>6, SortedInserted
  <1>7. CASE n > 0 /\ b.start < list[1].start
    <2>1. r = <<b>> \o list
      <3>1. list # <<>> /\ 1 \in 1 .. n
        BY <1>7
      <3>2. b.start # list[1].start
        BY <1>2, <1>7, <3>1
      <3> QED  BY <1>7, <3>1, <3>2 DEF Insert
    <2>2. /\ r \in Seq(BlockSet) /\ Len(r) = n + 1 /\ r[1] = b
          /\ \A j \in 1 .. n : r[j + 1] = list[j]
      <3>1. <<b>> \in Seq(BlockSet) /\ Len(<<b>>) = 1 /\ <<b>>[1] = b
        BY <1>1
      <3> DEFINE u == <<b>>
      <3> HIDE DEF u
      <3>2. /\ u \o list \in Seq(BlockSet) /\ Len(u \o list) = 1 + n
            /\ \A j \in 1 .. 1 + n : (u \o list)[j] = IF j <= 1 THEN u[j] ELSE list[j - 1]
        BY <1>1, <3>1, ConcatProperties DEF u
      <3>3. (u \o list)[1] = b
        BY <1>1, <3>1, <3>2 DEF u
      <3>4. ASSUME NEW j \in 1 .. n  PROVE (u \o list)[j + 1] = list[j]
        <4>1. j + 1 \in 1 .. 1 + n /\ ~ (j + 1 <= 1) /\ (j + 1) - 1 = j
          BY <1>1
        <4> QED  BY <3>2, <4>1
      <3> QED  BY <2>1, <3>2, <3>3, <3>4 DEF u
    <2>3. \A j \in 1 .. n : End(b) <= list[j].start
      <3> TAKE j \in 1 .. n
      <3>1. 1 \in 1 .. n /\ (j = 1 \/ 1 < j)
        BY <1>7
      <3>2. End(list[1]) > b.start
        BY <1>2, <1>7, <3>1
      <3>3. End(b) <= list[1].start
        BY <1>2, <1>3, <3>1, <3>2
      <3>4. j = 1 \/ End(list[1]) <= list[j].start
        BY <1>4, <3>1
      <3> QED  BY <1>2, <3>1, <3>3, <3>4
    <2> DEFINE k == 0
    <2>4. /\ Ahead(list, k, b) /\ Behind(list, k + 1, b) /\ Later(r, list, k + 1) /\ r[k + 1] = b
          /\ k \in 0 .. n /\ \A j \in 1 .. k : r[j] = list[j]
      BY <1>1, <2>2, <2>3 DEF Ahead, Behind, Later, Precedes
    <2> HIDE DEF k
    <2>5. Ahead(list, k, b) /\ Behind(list, k + 1, b)
      BY <2>4
    <2>6. /\ r \in Seq(BlockSet) /\ Len(r) = n + 1 /\ k \in 0 .. n
          /\ \A j \in 1 .. k : r[j] = list[j]
          /\ r[k + 1] = b /\ Later(r, list, k + 1)
      BY <2>2, <2>4
    <2> QED  BY <1>6, <2>5, <2>6
  <1>8. CASE n > 0 /\ ~ (b.start < list[1].start)
    <2> DEFINE k == Passed(list, b.start)
    <2>1. /\ k \in 1 .. n /\ (k = n \/ End(list[k + 1]) > b.start)
          /\ \A j \in 1 .. k - 1 : End(list[j + 1]) <= b.start
      BY <1>2, <1>8, PassedIs
    <2>2. b.start # list[1].start /\ End(list[1]) <= b.start
      <3>1. 1 \in 1 .. n
        BY <1>8
      <3> QED  BY <1>2, <1>3, <1>8, <3>1
    <2>3. r = Joins(list, k, b)
      <3>1. list # <<>>
        BY <1>8
      <3> QED  BY <1>8, <2>2, <3>1 DEF Insert, Joins
    <2> HIDE DEF k
    <2>4. /\ r \in Seq(BlockSet) /\ Len(r) = n + 1 /\ k \in 0 .. n
          /\ \A j \in 1 .. k : r[j] = list[j]
          /\ r[k + 1] = b /\ Later(r, list, k + 1)
      <3>1. k \in 0 .. Len(list)
        BY <2>1
      <3>2. LET q == Joins(list, k, b) IN
            /\ q \in Seq(BlockSet) /\ Len(q) = Len(list) + 1
            /\ \A j \in 1 .. k : q[j] = list[j]
            /\ q[k + 1] = b /\ Later(q, list, k + 1)
        BY <1>1, <3>1, Inserted
      <3> QED  BY <2>1, <2>3, <3>2
    <2>5. Ahead(list, k, b)
      <3>1. ASSUME NEW j \in 1 .. k  PROVE End(list[j]) <= b.start
        <4>1. CASE j = 1
          BY <2>2, <4>1
        <4>2. CASE j # 1
          <5>1. j - 1 \in 1 .. k - 1 /\ (j - 1) + 1 = j
            BY <2>1, <4>2
          <5> QED  BY <2>1, <5>1
        <4> QED  BY <4>1, <4>2
      <3> QED  BY <3>1 DEF Ahead, Precedes
    <2>6. Behind(list, k + 1, b)
      <3>1. ASSUME NEW j \in k + 1 .. n  PROVE End(b) <= list[j].start
        <4>1. k + 1 \in 1 .. n /\ j \in 1 .. n /\ (j = k + 1 \/ k + 1 < j) /\ k # n
          BY <2>1
        <4>2. End(b) <= list[k + 1].start
          BY <1>2, <1>3, <2>1, <4>1
        <4>3. j = k + 1 \/ End(list[k + 1]) <= list[j].start
          BY <1>4, <4>1
        <4> QED  BY <1>2, <4>1, <4>2, <4>3
      <3> QED  BY <3>1 DEF Behind, Precedes
    <2> QED  BY <1>6, <2>4, <2>5, <2>6
  <1> QED  BY <1>1, <1>5, <1>7, <1>8

-----------------------------------------------------------------------------
(* The list and the page tables                                            *)

\* The pages of the blocks and the stack are present, a block that can be
\* written has pages that can be written, and no other page of user memory is
\* present.
Agree(list, a) ==
  /\ Stack \subseteq a.page
  /\ \A b \in Members(list) :
       /\ Within(b) \cap Stack = {}
       /\ Within(b) \subseteq a.page
       /\ b.write => Within(b) \subseteq a.write
  /\ \A v \in UserPages : v \in a.page => v \in Stack \/ \E b \in Members(list) : v \in Within(b)

\* k frames are free, behind a page or behind a page table.
Good(list, a, k) == Sorted(list) /\ Sane(a, k) /\ Agree(list, a)

LEMMA MapsBlock ==
  ASSUME NEW list, NEW a, NEW k \in Int, Good(list, a, k), a.fault = "none", NEW b, Sized(b)
  PROVE  LET s == umap_pages([blocks |-> list, as |-> a], b) IN
         /\ a.page \subseteq s.as.page
         /\ s.as.fault = "none" =>
              /\ Good(s.blocks, s.as, k)
              /\ Members(s.blocks) = Members(list) \cup {b}
              /\ s.as.page = a.page \cup Within(b) /\ a.page \cap Within(b) = {}
  <1> DEFINE s == umap_pages([blocks |-> list, as |-> a], b)
             r == map_new_range(a, b.start, End(b), b.write)
             l == Insert(list, b)
  <1>1. s.blocks = l /\ s.as = r
    BY DEF umap_pages
  <1>2. /\ b.start \in Int /\ End(b) \in Int /\ b.start < End(b) /\ b.write \in BOOLEAN
        /\ Within(b) \subseteq Pages /\ Within(b) = b.start .. End(b) - 1
    BY WithinIs DEF Sized, BlockSet, Within
  <1>4. Sane(a, k) /\ Sorted(list) /\ Agree(list, a)
    BY DEF Good
  <1>5. /\ r \in Spaces /\ a.page \subseteq r.page
        /\ r.fault = "none" =>
             /\ Sane(r, k) /\ r.page = a.page \cup Within(b)
             /\ a.page \cap Within(b) = {}
             /\ a.page \cap a.write \subseteq r.write
             /\ b.write => Within(b) \subseteq r.write
    <2>1. b.start .. End(b) - 1 \subseteq Pages
      BY <1>2
    <2> QED  BY <1>2, <1>4, <2>1, MapsRange
  <1>6. ASSUME r.fault = "none"
        PROVE  Good(l, r, k) /\ Members(l) = Members(list) \cup {b}
    <2> HIDE DEF r, l
    <2>1. /\ Sane(r, k) /\ r.page = a.page \cup Within(b) /\ a.page \cap Within(b) = {}
          /\ a.page \cap a.write \subseteq r.write
          /\ b.write => Within(b) \subseteq r.write
      BY <1>5, <1>6
    <2>2. \A c \in Members(list) : Within(c) \subseteq a.page
      BY <1>4 DEF Agree
    <2>3. Sorted(l) /\ Members(l) = Members(list) \cup {b}
      BY <1>4, <2>1, <2>2, Inserts DEF l
    <2>4. Within(b) \cap Stack = {}
      BY <1>4, <2>1 DEF Agree
    <2>5. Agree(l, r)
      BY <1>4, <2>1, <2>3, <2>4 DEF Agree
    <2> QED  BY <2>1, <2>3, <2>5 DEF Good
  <1> QED  BY <1>1, <1>5, <1>6

\* What umm_unmap_pages drops is a block and its pages, and the frames behind
\* these pages; it fails after the last block.
LEMMA DropsBlock ==
  ASSUME NEW s, NEW k \in Int, Good(s.blocks, s.as, k), s.as.fault = "none", NEW at,
         Dropped(s, at) # {}
  PROVE  LET r == umm_unmap_pages(s, at)
             d == s.as.page \ r.as.page
         IN
         /\ \E b \in Members(s.blocks) : b.start = at /\ d = Within(b) /\ r.as.page = s.as.page \ d
         /\ r.as.fault = "none" => Good(r.blocks, r.as, k - Cardinality(d))
         /\ Cardinality(d) \in Nat
  <1> DEFINE r == umm_unmap_pages(s, at)
             d == s.as.page \ r.as.page
             list == s.blocks
             i == CHOOSE j \in Dropped(s, at) : TRUE
             b == list[i]
             a == unmap_range(s.as, at, End(b))
  <1>1. i \in Dropped(s, at)
    OBVIOUS
  <1>2. i \in 1 .. Len(list) /\ b.start = at /\ b \in Members(list)
    <2> HIDE DEF i
    <2>1. i \in 2 .. Len(list) /\ b.start = at /\ Len(list) \in Nat
      BY <1>1 DEF Dropped, Good, Sorted
    <2>2. i \in 1 .. Len(list)
      BY <2>1
    <2> QED  BY <2>1, <2>2 DEF Members
  <1>3. r = [blocks |-> Remove(list, i), as |-> IF i = Len(list) THEN Fault(a, "null_read") ELSE a]
    BY DEF umm_unmap_pages
  <1> HIDE DEF i
  <1>4. Sorted(list) /\ Sane(s.as, k) /\ Agree(list, s.as)
    BY DEF Good
  <1>5. Sized(b)
    BY <1>2, <1>4, MembersApart
  <1>6. /\ at \in Int /\ End(b) \in Int /\ at < End(b)
        /\ Within(b) = at .. End(b) - 1
    BY <1>2, <1>5, WithinIs DEF Within
  <1>7. Within(b) \subseteq s.as.page
    BY <1>2, <1>4 DEF Agree
  <1>8. /\ Sane(a, k - (End(b) - at)) /\ a.page = s.as.page \ Within(b)
        /\ a.write = s.as.write /\ a.fault = "none"
    <2>1. at <= End(b) /\ at .. End(b) - 1 \subseteq s.as.page
      BY <1>6, <1>7
    <2>2. /\ Sane(a, k - (End(b) - at)) /\ a.page = s.as.page \ (at .. End(b) - 1)
          /\ a.write = s.as.write /\ a.fault = s.as.fault
      BY SMTT(30), <1>4, <1>6, <2>1, UnmapsRange
    <2> QED  BY Zenon, <1>6, <2>2
  <1>9. Cardinality(Within(b)) = End(b) - at
    <2>1. Cardinality(at .. End(b) - 1) = IF at > End(b) - 1 THEN 0 ELSE (End(b) - 1) - at + 1
      BY <1>6, FS_Interval
    <2> QED  BY <1>6, <2>1
  <1>10. Fault(a, "null_read").page = a.page /\ Fault(a, "null_read").fault # "none"
    <2>1. "null_read" \in Faults /\ a \in Spaces
      BY <1>8 DEF Sane, Faults
    <2> QED  BY <1>8, <2>1, FaultIn
  <1>11. r.as.page = s.as.page \ Within(b) /\ d = Within(b)
    BY <1>3, <1>7, <1>8, <1>10
  <1>12. ASSUME r.as.fault = "none"  PROVE Good(r.blocks, r.as, k - Cardinality(d))
    <2>1. r.as = a /\ r.blocks = Remove(list, i)
      BY <1>3, <1>10, <1>12
    <2>2. Sorted(r.blocks) /\ Members(r.blocks) = Members(list) \ {b}
      BY <1>2, <1>4, <2>1, SortedRemoved
    <2>3. \A c \in Members(list) : c # b => Within(c) \cap Within(b) = {}
      BY <1>2, <1>4, MembersApart
    <2>4. Within(b) \cap Stack = {}
      BY <1>2, <1>4 DEF Agree
    <2> HIDE DEF r, b, a, d
    <2>5. Agree(r.blocks, r.as)
      BY <1>4, <1>8, <2>1, <2>2, <2>3, <2>4 DEF Agree
    <2> QED  BY <1>8, <1>9, <1>11, <2>1, <2>2, <2>5 DEF Good
  <1>13. Cardinality(d) \in Nat
    <2> HIDE DEF d, b
    <2>1. Cardinality(d) = End(b) - at
      BY <1>9, <1>11
    <2> QED  BY <1>6, <2>1
  <1> QED  BY <1>2, <1>11, <1>12, <1>13


\* A smaller block can take the place of a block.
LEMMA FitsBetween ==
  ASSUME NEW list, Sorted(list), NEW i \in 1 .. Len(list), NEW c, Sized(c),
         list[i].start <= c.start, End(c) <= End(list[i])
  PROVE  Ahead(list, i - 1, c) /\ Behind(list, i + 1, c)
  <1>1. /\ Len(list) \in Nat /\ \A j \in 1 .. Len(list) : Sized(list[j])
        /\ \A h, j \in 1 .. Len(list) : h < j => End(list[h]) <= list[j].start
    BY DEF Sorted, Precedes
  <1>2. c.start \in Int /\ End(c) \in Int /\ list[i].start \in Int /\ End(list[i]) \in Int
    BY <1>1, WithinIs
  <1>3. ASSUME NEW j \in 1 .. i - 1  PROVE End(list[j]) <= c.start
    <2>1. j \in 1 .. Len(list) /\ j < i
      BY <1>1
    <2>2. End(list[j]) \in Int /\ End(list[j]) <= list[i].start
      BY <1>1, <2>1, WithinIs
    <2> QED  BY <1>2, <2>2
  <1>4. ASSUME NEW j \in i + 1 .. Len(list)  PROVE End(c) <= list[j].start
    <2>1. j \in 1 .. Len(list) /\ i < j
      BY <1>1
    <2>2. list[j].start \in Int /\ End(list[i]) <= list[j].start
      BY <1>1, <2>1, WithinIs
    <2> QED  BY <1>2, <2>2
  <1> QED  BY <1>3, <1>4 DEF Ahead, Behind, Precedes

\* What is left of a block when one of its pages goes.
LEMMA Parts ==
  ASSUME NEW b, Sized(b), NEW v \in Within(b)
  PROVE  LET low == [b EXCEPT !.len = v - b.start]
             top == [b EXCEPT !.start = v + 1, !.len = End(b) - (v + 1)]
             c   == Trimmed(b, v)
         IN
         /\ b.start < v => /\ Sized(low) /\ low.start = b.start /\ End(low) = v /\ low.write = b.write
                           /\ Within(low) = b.start .. v - 1
         /\ v < End(b) - 1 => /\ Sized(top) /\ top.start = v + 1 /\ End(top) = End(b) /\ top.write = b.write
                              /\ Within(top) = v + 1 .. End(b) - 1
         /\ ~ (b.start < v /\ v < End(b) - 1) =>
              /\ c.len = b.len - 1 /\ c \in BlockSet /\ c.write = b.write
              /\ b.start <= c.start /\ End(c) <= End(b)
              /\ Within(c) = Within(b) \ {v}
  <1> DEFINE low == [b EXCEPT !.len = v - b.start]
             top == [b EXCEPT !.start = v + 1, !.len = End(b) - (v + 1)]
             c   == Trimmed(b, v)
  <1>1. /\ b.start \in Int /\ b.len \in Int /\ End(b) \in Int /\ v \in Int /\ NumPages \in Int
        /\ b.start <= v /\ v < End(b) /\ End(b) = b.start + b.len /\ b.start >= 0 /\ End(b) <= NumPages
        /\ b \in BlockSet
    BY WithinIs, VMMAssumption DEF VMMAssumption, Sized, BlockSet, End
  <1>2. low \in BlockSet /\ low.start = b.start /\ low.len = v - b.start /\ low.write = b.write
    BY <1>1 DEF BlockSet
  <1>3. top \in BlockSet /\ top.start = v + 1 /\ top.len = End(b) - (v + 1) /\ top.write = b.write
    <2> DEFINE x == v + 1
               y == End(b) - (v + 1)
    <2>1. x \in Int /\ y \in Int
      BY <1>1
    <2> HIDE DEF x, y
    <2>2. [b EXCEPT !.start = x, !.len = y] \in BlockSet
      BY <1>1, <2>1 DEF BlockSet
    <2>3. LET d == [b EXCEPT !.start = x, !.len = y] IN
          d.start = x /\ d.len = y /\ d.write = b.write
      BY <1>1 DEF BlockSet
    <2> QED  BY <2>2, <2>3 DEF x, y
  <1>4. /\ c \in BlockSet /\ c.len = b.len - 1 /\ c.write = b.write
        /\ c.start = IF v = b.start THEN b.start + 1 ELSE b.start
    <2>1. CASE v = b.start
      <3> DEFINE x == b.start + 1
                 y == b.len - 1
      <3>1. x \in Int /\ y \in Int /\ c = [b EXCEPT !.start = x, !.len = y]
        BY <1>1, <2>1 DEF Trimmed
      <3> HIDE DEF x, y, c
      <3>2. [b EXCEPT !.start = x, !.len = y] \in BlockSet
        BY <1>1, <3>1 DEF BlockSet
      <3>3. LET d == [b EXCEPT !.start = x, !.len = y] IN
            d.start = x /\ d.len = y /\ d.write = b.write
        BY <1>1 DEF BlockSet
      <3> QED  BY <2>1, <3>1, <3>2, <3>3 DEF x, y
    <2>2. CASE v # b.start
      BY <1>1, <2>2 DEF Trimmed, BlockSet
    <2> QED  BY <2>1, <2>2
  <1> HIDE DEF low, top, c
  <1>5. ASSUME b.start < v
        PROVE  Sized(low) /\ End(low) = v /\ Within(low) = b.start .. v - 1
    BY <1>1, <1>2, <1>5 DEF Sized, End, Within
  <1>6. ASSUME v < End(b) - 1
        PROVE  Sized(top) /\ End(top) = End(b) /\ Within(top) = v + 1 .. End(b) - 1
    <2>1. top.start + top.len = End(b)
      BY <1>1, <1>3
    <2>2. End(top) = End(b)
      BY <2>1 DEF End
    <2>3. top.len > 0 /\ top.start >= 0
      BY <1>1, <1>3, <1>6
    <2> QED  BY <1>1, <1>3, <2>2, <2>3 DEF Sized, Within
  <1>7. ASSUME ~ (b.start < v /\ v < End(b) - 1)
        PROVE  b.start <= c.start /\ End(c) <= End(b) /\ Within(c) = Within(b) \ {v}
    <2>1. CASE v = b.start
      <3>1. c.start = b.start + 1 /\ c.start + c.len = End(b)
        BY <1>1, <1>4, <2>1
      <3>2. End(c) = End(b)
        BY <3>1 DEF End
      <3>3. Within(c) = Within(b) \ {v}
        BY <1>1, <2>1, <3>1, <3>2 DEF Within
      <3> QED  BY <1>1, <3>1, <3>2, <3>3
    <2>2. CASE v # b.start
      <3>1. c.start = b.start /\ c.start + c.len = End(b) - 1 /\ v = End(b) - 1
        BY <1>1, <1>4, <1>7, <2>2
      <3>2. End(c) = End(b) - 1
        BY <3>1 DEF End
      <3>3. Within(c) = Within(b) \ {v}
        BY <1>1, <3>1, <3>2 DEF Within
      <3> QED  BY <1>1, <3>1, <3>2, <3>3
    <2> QED  BY <2>1, <2>2
  <1> QED  BY <1>2, <1>3, <1>4, <1>5, <1>6, <1>7 DEF low, top, c

\* A page goes, and a block is replaced by blocks with its other pages.
LEMMA GoodWithout ==
  ASSUME NEW list, NEW a, NEW k \in Int, Good(list, a, k), NEW b \in Members(list), NEW v \in Within(b),
         NEW N, NEW l, Sorted(l), Members(l) = (Members(list) \ {b}) \cup N,
         \A c \in N : Within(c) \subseteq Within(b) \ {v} /\ c.write = b.write,
         \A u \in Within(b) \ {v} : \E c \in N : u \in Within(c),
         NEW r, Sane(r, k), r.page = a.page \ {v}, r.write = a.write
  PROVE  Good(l, r, k)
  <1>1. Sorted(list) /\ Agree(list, a)
    BY DEF Good
  <1>2. \A c \in Members(list) : c # b => v \notin Within(c)
    BY <1>1, MembersApart
  <1>3. v \notin Stack
    BY <1>1 DEF Agree
  <1>4. ASSUME NEW c \in Members(l)
        PROVE  /\ Within(c) \cap Stack = {} /\ Within(c) \subseteq r.page
               /\ c.write => Within(c) \subseteq r.write
    <2>1. CASE c \in Members(list) /\ c # b
      BY <1>1, <1>2, <2>1 DEF Agree
    <2>2. CASE c \in N
      BY <1>1, <2>2 DEF Agree
    <2> QED  BY <2>1, <2>2
  <1>5. ASSUME NEW u \in UserPages, u \in r.page
        PROVE  u \in Stack \/ \E c \in Members(l) : u \in Within(c)
    <2>1. u # v /\ (u \in Stack \/ \E c \in Members(list) : u \in Within(c))
      BY <1>1, <1>5 DEF Agree
    <2>2. (\E c \in Members(list) : u \in Within(c)) => (\E c \in Members(l) : u \in Within(c))
      BY <2>1
    <2> QED  BY <2>1, <2>2
  <1>6. Agree(l, r)
    <2>1. Stack \subseteq r.page
      BY <1>1, <1>3 DEF Agree
    <2> QED  BY <1>4, <1>5, <2>1 DEF Agree
  <1> QED  BY <1>6 DEF Good


States == [blocks : Seq(BlockSet), as : Spaces]

\* umm_unmap_page takes at most the page from the address space.
LEMMA UnmapsOne ==
  ASSUME NEW s \in States, NEW k \in Int, Good(s.blocks, s.as, k), s.as.fault = "none", NEW v
  PROVE  LET r == umm_unmap_page(s, v) IN
         /\ r \in States /\ s.as.page \ {v} \subseteq r.as.page
         /\ r.as.fault = "none" => Good(r.blocks, r.as, k)
  <1> DEFINE r    == umm_unmap_page(s, v)
             list == s.blocks
             i    == CHOOSE j \in Holder(list, v) : TRUE
             b    == list[i]
             c    == Trimmed(b, v)
             low  == [b EXCEPT !.len = v - b.start]
             top  == [b EXCEPT !.start = v + 1, !.len = End(b) - (v + 1)]
             a1   == vfree_page(s.as, v)
             a2   == vfree_page(a1, v)
  <1>1. CASE Holder(list, v) = {}
    BY <1>1 DEF umm_unmap_page
  <1>2. CASE Holder(list, v) # {}
    <2>1. /\ s = [blocks |-> list, as |-> s.as] /\ list \in Seq(BlockSet) /\ s.as \in Spaces
          /\ Sorted(list) /\ Sane(s.as, k)
      BY DEF States, Good
    <2>2. i \in Holder(list, v)
      BY <1>2
    <2>3. i \in 1 .. Len(list) /\ v \in Within(b) /\ Len(list) \in Nat
      <3> HIDE DEF i
      <3> QED  BY <2>1, <2>2 DEF Holder
    <2>4. r = IF b.start < v /\ v < End(b) - 1
              THEN [umm_split_block(s, i, v) EXCEPT !.as = vfree_page(@, v)]
              ELSE [[s EXCEPT !.blocks = IF c.len = 0 THEN Remove(@, i) ELSE [@ EXCEPT ![i] = c]]
                      EXCEPT !.as = vfree_page(@, v)]
      BY <1>2 DEF umm_unmap_page
    <2> HIDE DEF i
    <2>5. b \in Members(list) /\ Sized(b)
      BY <2>1, <2>3, MembersApart DEF Members
    <2>6. /\ Sane(a1, k) /\ a1.page = s.as.page \ {v} /\ a1.write = s.as.write /\ a1.fault = "none"
      BY <2>1, FreesPage
    <2>7. /\ Sane(a2, k) /\ a2.page = s.as.page \ {v} /\ a2.write = s.as.write /\ a2.fault = "none"
      <3> HIDE DEF a1
      <3>1. /\ Sane(a2, k) /\ a2.page = a1.page \ {v} /\ a2.write = a1.write /\ a2.fault = a1.fault
        BY <2>6, FreesPage
      <3> QED  BY <2>6, <3>1
    <2>8. a1 \in Spaces /\ a2 \in Spaces
      BY <2>6, <2>7 DEF Sane
    <2>9. /\ b.start \in Int /\ End(b) \in Int /\ v \in Int /\ b.start <= v /\ v < End(b)
          /\ \A u \in Int : u \in Within(b) <=> b.start <= u /\ u < End(b)
      BY <2>3, <2>5, WithinIs
    <2>10. CASE b.start < v /\ v < End(b) - 1
      <3>1. /\ Sized(low) /\ low.start = b.start /\ End(low) = v /\ low.write = b.write
            /\ Within(low) = b.start .. v - 1
            /\ Sized(top) /\ top.start = v + 1 /\ End(top) = End(b) /\ top.write = b.write
            /\ Within(top) = v + 1 .. End(b) - 1
        BY <2>3, <2>5, <2>10, Parts, ZenonT(30)
      <3>2. CASE i = 1
        <4>1. umm_split_block(s, i, v) = [blocks |-> PutAt(list, 1, top), as |-> Fault(a1, "null_write")]
          BY <3>2 DEF umm_split_block, PutAt
        <4>2. r = [blocks |-> PutAt(list, 1, top), as |-> vfree_page(Fault(a1, "null_write"), v)]
          BY <2>4, <2>10, <4>1
        <4> HIDE DEF top, a1
        <4> DEFINE f == Fault(a1, "null_write")
        <4>3. "null_write" \in Faults /\ "null_write" # "none"
          BY DEF Faults
        <4>4. f \in Spaces /\ f.page = a1.page /\ f.fault = "null_write"
          BY <2>6, <2>8, <4>3, FaultIn
        <4>5. f.free = a1.free /\ f.table = a1.table
          BY <2>6, <2>8 DEF Fault, Spaces
        <4> HIDE DEF f
        <4>6. Sane(f, k)
          BY <2>6, <4>4, <4>5 DEF Sane
        <4>7. LET g == vfree_page(f, v) IN Sane(g, k) /\ g.page = f.page \ {v} /\ g.fault = "null_write"
          BY <4>4, <4>6, FreesPage
        <4>8. PutAt(list, 1, top) \in Seq(BlockSet)
          <5>1. top \in BlockSet
            BY <3>1 DEF Sized
          <5>2. 1 \in 1 .. Len(list)
            BY <2>3, <3>2
          <5> QED  BY <2>1, <5>1, <5>2 DEF PutAt
        <4>9. r.as = vfree_page(f, v) /\ r.blocks = PutAt(list, 1, top)
          BY <4>2 DEF f
        <4>10. r \in States
          BY <4>2, <4>7, <4>8 DEF States, Sane, f
        <4>11. r.as.page = s.as.page \ {v} /\ r.as.fault # "none"
          BY <2>6, <4>3, <4>4, <4>7, <4>9
        <4> QED  BY <4>10, <4>11
      <3>3. CASE i # 1
        <4>1. umm_split_block(s, i, v) = [blocks |-> Halves(list, i, low, top), as |-> a1]
          BY <3>3 DEF umm_split_block, Halves
        <4>2. r = [blocks |-> Halves(list, i, low, top), as |-> a2]
          BY <2>4, <2>10, <4>1
        <4> HIDE DEF low, top, a1, a2
        <4>3. /\ Ahead(list, i - 1, low) /\ Behind(list, i + 1, low)
              /\ Ahead(list, i - 1, top) /\ Behind(list, i + 1, top)
          BY <2>1, <2>3, <2>9, <2>10, <3>1, FitsBetween
        <4>4. Precedes(low, top)
          BY <2>9, <3>1 DEF Precedes
        <4> DEFINE l == Halves(list, i, low, top)
        <4>5. Sorted(l) /\ Members(l) = (Members(list) \ {b}) \cup {low, top}
          BY <2>1, <2>3, <3>1, <4>3, <4>4, SortedHalved
        <4> DEFINE N == {low, top}
        <4>6. /\ \A d \in N : Within(d) \subseteq Within(b) \ {v} /\ d.write = b.write
              /\ \A u \in Within(b) \ {v} : \E d \in N : u \in Within(d)
          BY <2>5, <2>9, <2>10, <3>1, WithinIs
        <4> HIDE DEF l, b, N
        <4>9. Members(l) = (Members(list) \ {b}) \cup N
          BY <4>5 DEF N
        <4>7. Good(l, a2, k)
          BY <2>3, <2>5, <2>7, <4>5, <4>6, <4>9, GoodWithout
        <4>8. r.blocks = l /\ r.as = a2 /\ r \in States
          BY <2>8, <4>2, <4>5 DEF States, Sorted, l
        <4> QED  BY <2>7, <4>7, <4>8
      <3> QED  BY <3>2, <3>3
    <2>11. CASE ~ (b.start < v /\ v < End(b) - 1)
      <3>1. /\ c.len = b.len - 1 /\ c \in BlockSet /\ c.write = b.write
            /\ b.start <= c.start /\ End(c) <= End(b)
            /\ Within(c) = Within(b) \ {v}
        BY <2>3, <2>5, <2>11, Parts
      <3>2. CASE c.len = 0
        <4>1. r = [blocks |-> Remove(list, i), as |-> a1]
          BY <2>1, <2>4, <2>11, <3>2
        <4> DEFINE l == Remove(list, i)
        <4>2. Sorted(l) /\ Members(l) = (Members(list) \ {b}) \cup {}
          BY <2>1, <2>3, SortedRemoved
        <4> DEFINE N == {}
        <4>3. /\ \A d \in N : Within(d) \subseteq Within(b) \ {v} /\ d.write = b.write
              /\ \A u \in Within(b) \ {v} : \E d \in N : u \in Within(d)
              /\ Members(l) = (Members(list) \ {b}) \cup N
          <5>1. Within(b) \ {v} = {}
            BY <3>1, <3>2 DEF Within, End, BlockSet
          <5> QED  BY <4>2, <5>1
        <4> HIDE DEF l, b, a1, N
        <4>4. Good(l, a1, k)
          BY <2>3, <2>5, <2>6, <4>2, <4>3, GoodWithout
        <4>5. r.blocks = l /\ r.as = a1 /\ r \in States
          BY <2>8, <4>1, <4>2 DEF States, Sorted, l
        <4> QED  BY <2>6, <4>4, <4>5
      <3>3. CASE c.len # 0
        <4>1. r = [blocks |-> PutAt(list, i, c), as |-> a1]
          BY <2>1, <2>4, <2>11, <3>3 DEF PutAt
        <4> DEFINE l == PutAt(list, i, c)
        <4>2. Sized(c)
          <5>1. b.len > 0 /\ b.len \in Int /\ b.start >= 0 /\ End(b) <= NumPages /\ NumPages \in Int
            BY <2>5, VMMAssumption DEF VMMAssumption, Sized, BlockSet
          <5>2. End(c) \in Int /\ c.start \in Int /\ c.len \in Int
            BY <3>1 DEF End, BlockSet
          <5> HIDE DEF c, b
          <5> QED  BY <2>9, <3>1, <3>3, <5>1, <5>2 DEF Sized
        <4> HIDE DEF c
        <4>3. Ahead(list, i - 1, c) /\ Behind(list, i + 1, c)
          BY <2>1, <2>3, <3>1, <4>2, FitsBetween
        <4>4. Sorted(l) /\ Members(l) = (Members(list) \ {b}) \cup {c}
          BY <2>1, <2>3, <4>2, <4>3, SortedReplaced
        <4> DEFINE N == {c}
        <4>5. /\ \A d \in N : Within(d) \subseteq Within(b) \ {v} /\ d.write = b.write
              /\ \A u \in Within(b) \ {v} : \E d \in N : u \in Within(d)
              /\ Members(l) = (Members(list) \ {b}) \cup N
          BY <3>1, <4>4
        <4> HIDE DEF l, b, a1, N
        <4>6. Good(l, a1, k)
          BY <2>3, <2>5, <2>6, <4>4, <4>5, GoodWithout
        <4>7. r.blocks = l /\ r.as = a1 /\ r \in States
          BY <2>8, <4>1, <4>4 DEF States, Sorted, l
        <4> QED  BY <2>6, <4>6, <4>7
      <3> QED  BY <3>2, <3>3
    <2> QED  BY <2>10, <2>11
  <1> QED  BY <1>1, <1>2


\* sys_munmap, after each of its pages.
FreeLoop(s, addr) ==
  LET upto[n \in Nat] == IF n = 0 THEN s ELSE umm_unmap_page(upto[n - 1], addr + n - 1)
  IN  upto

Kept(k) == {s \in States : s.as.fault = "none" => Good(s.blocks, s.as, k)}

LEMMA FreesRange ==
  ASSUME NEW k \in Int, NEW s \in Kept(k), NEW addr \in Int
  PROVE  \A n \in Nat : /\ FreeLoop(s, addr)[n] \in Kept(k)
                        /\ s.as.page \ Run(addr, n) \subseteq FreeLoop(s, addr)[n].as.page
  <1> DEFINE S == Kept(k)
             Step(x, n) == umm_unmap_page(x, addr + n - 1)
             G == [n \in Nat |-> [x \in S |-> Step(x, n + 1)]]
             Body(f) == [n \in Nat |-> IF n = 0 THEN s ELSE Step(f[n - 1], n)]
             N == CHOOSE f : f = Body(f)
  <1>1. ASSUME NEW x \in S, NEW v
        PROVE  umm_unmap_page(x, v) \in S /\ x.as.page \ {v} \subseteq umm_unmap_page(x, v).as.page
    <2>1. CASE x.as.fault = "none"
      BY <2>1, UnmapsOne DEF Kept
    <2>2. CASE x.as.fault # "none"
      BY <2>2 DEF umm_unmap_page
    <2> QED  BY <2>1, <2>2
  <1> HIDE DEF S
  <1>2. CountedMaps(G, S)
    <2>1. ASSUME NEW n \in Nat, NEW x \in S  PROVE Step(x, n + 1) \in S
      BY <1>1
    <2> HIDE DEF Step
    <2> QED  BY <2>1 DEF CountedMaps, Maps
  <1> HIDE DEF Step
  <1>3. PICK h : h \in [Nat -> S] /\ h[0] = s /\ \A n \in Nat : h[n + 1] = G[n][h[n]]
    <2> HIDE DEF G
    <2>1. s \in S
      BY DEF S
    <2>2. PICK h : CountedSolves(h, S, s, G)
      BY <1>2, <2>1, CountedRecursion
    <2> QED  BY <2>2 DEF CountedSolves
  <1>4. \A n \in Nat : h[n + 1] = Step(h[n], n + 1)
    BY <1>3
  <1>5. h = Body(h)
    <2>1. ASSUME NEW n \in Nat  PROVE h[n] = IF n = 0 THEN s ELSE Step(h[n - 1], n)
      <3>1. CASE n = 0
        BY <1>3, <3>1
      <3>2. CASE n # 0
        <4>1. n - 1 \in Nat /\ (n - 1) + 1 = n
          BY <3>2
        <4> QED  BY <1>4, <3>2, <4>1
      <3> QED  BY <3>1, <3>2
    <2> QED  BY <1>3, <2>1
  <1>6. N = Body(N)
    BY <1>5
  <1>7. FreeLoop(s, addr) = N
    BY DEF FreeLoop, N, Step
  <1> HIDE DEF N
  <1>8. N[0] = s /\ \A n \in Nat : N[n + 1] = Step(N[n], n + 1)
    <2>1. \A n \in Nat : N[n] = IF n = 0 THEN s ELSE Step(N[n - 1], n)
      BY <1>6
    <2>2. \A n \in Nat : n + 1 \in Nat /\ n + 1 # 0 /\ (n + 1) - 1 = n
      OBVIOUS
    <2> QED  BY <2>1, <2>2
  <1> DEFINE A == {n \in Nat : N[n] \in S /\ s.as.page \ Run(addr, n) \subseteq N[n].as.page}
  <1>9. 0 \in A
    BY <1>8 DEF S
  <1>10. ASSUME NEW n \in Nat, n \in A  PROVE n + 1 \in A
    <2>1. N[n] \in S /\ s.as.page \ Run(addr, n) \subseteq N[n].as.page
      BY <1>10
    <2>2. addr + (n + 1) - 1 = addr + n
      OBVIOUS
    <2>3. N[n + 1] = umm_unmap_page(N[n], addr + n)
      BY <1>8, <2>2 DEF Step
    <2>4. N[n + 1] \in S /\ N[n].as.page \ {addr + n} \subseteq N[n + 1].as.page
      BY <1>1, <2>1, <2>3
    <2>5. Run(addr, n + 1) = Run(addr, n) \cup {addr + n}
      BY DEF Run
    <2> QED  BY <2>1, <2>4, <2>5
  <1>11. \A n \in Nat : n \in A
    <2> HIDE DEF A
    <2> QED  BY <1>9, <1>10, Induct
  <1> QED  BY <1>7, <1>11 DEF S

\* A block grows by the page below it.
LEMMA Grows ==
  ASSUME NEW list, NEW a, NEW k \in Int, Good(list, a, k), a.fault = "none",
         NEW i \in 1 .. Len(list),
         list[i].start - (IF i = 1 THEN 0 ELSE End(list[i - 1])) >= 2
  PROVE  LET s == Grow([blocks |-> list, as |-> a], i)
             v == list[i].start - 1
         IN
         /\ a.page \subseteq s.as.page
         /\ Len(s.blocks) = Len(list) /\ s.blocks[i].start = v
         /\ End(s.blocks[i]) = End(list[i])
         /\ \A j \in 1 .. Len(list) : j # i => s.blocks[j] = list[j]
         /\ s.as.fault = "none" => Good(s.blocks, s.as, k) /\ s.as.page = a.page \cup {v}
  <1> DEFINE b == list[i]
             v == b.start - 1
             c == [b EXCEPT !.start = @ - 1, !.len = @ + 1]
             l == PutAt(list, i, c)
             r == map_new_page(a, v, b.write)
             s == Grow([blocks |-> list, as |-> a], i)
  <1>1. /\ Sorted(list) /\ Sane(a, k) /\ Agree(list, a) /\ list \in Seq(BlockSet)
        /\ Len(list) \in Nat /\ \A j \in 1 .. Len(list) : Sized(list[j])
    BY DEF Good, Sorted
  <1>2. b \in BlockSet /\ Sized(b)
    BY <1>1 DEF Sized
  <1>20. /\ b.start \in Int /\ b.len \in Int /\ End(b) \in Int /\ NumPages \in Int /\ v \in Int
         /\ b.len > 0 /\ End(b) <= NumPages /\ End(b) = b.start + b.len /\ v = b.start - 1
    BY <1>2, WithinIs, VMMAssumption DEF VMMAssumption, Sized, BlockSet, End
  <1>21. Within(b) = b.start .. End(b) - 1 /\ b.write \in BOOLEAN
    BY <1>2 DEF BlockSet, Within
  <1>3. b.start >= 2 /\ \A j \in 1 .. i - 1 : End(list[j]) <= v
    <2>1. CASE i = 1
      BY <1>20, <2>1
    <2>2. CASE i # 1
      <3>1. i - 1 \in 1 .. Len(list) /\ i - 1 < i
        BY <1>1, <2>2
      <3>2. End(list[i - 1]) \in Int /\ list[i - 1].start >= 0 /\ list[i - 1].start \in Int
            /\ list[i - 1].start < End(list[i - 1])
        BY <1>1, <3>1, WithinIs DEF Sized
      <3>3. b.start - End(list[i - 1]) >= 2
        BY <2>2
      <3>4. ASSUME NEW j \in 1 .. i - 1  PROVE End(list[j]) <= v
        <4>1. CASE j = i - 1
          BY <1>20, <3>2, <3>3, <4>1
        <4>2. CASE j # i - 1
          <5>1. j \in 1 .. Len(list) /\ j < i - 1
            BY <1>1, <4>2
          <5>2. End(list[j]) \in Int /\ End(list[j]) <= list[i - 1].start
            BY <1>1, <3>1, <5>1, WithinIs DEF Sorted, Precedes
          <5> HIDE DEF b, v
          <5> QED  BY <1>20, <3>2, <3>3, <5>2, SMTT(30)
        <4> QED  BY <4>1, <4>2
      <3>5. b.start >= 2
        <4> HIDE DEF b
        <4> QED  BY <1>20, <3>2, <3>3, SMTT(30)
      <3> QED  BY <3>4, <3>5
    <2> QED  BY <2>1, <2>2

  <1>4. /\ c \in BlockSet /\ c.start = v /\ c.len = b.len + 1 /\ c.write = b.write
    <2> DEFINE x == b.start - 1
               y == b.len + 1
    <2>1. x \in Int /\ y \in Int /\ c = [b EXCEPT !.start = x, !.len = y]
      BY <1>20
    <2> HIDE DEF x, y, c, b
    <2>2. [b EXCEPT !.start = x, !.len = y] \in BlockSet
      BY <1>2, <2>1 DEF BlockSet
    <2>3. LET d == [b EXCEPT !.start = x, !.len = y] IN
          d.start = x /\ d.len = y /\ d.write = b.write
      BY <1>2 DEF BlockSet
    <2> QED  BY <2>1, <2>2, <2>3 DEF x, y
  <1>5. s.blocks = l /\ s.as = r
    <2>1. [list EXCEPT ![i].start = @ - 1, ![i].len = @ + 1] = l
      BY <1>1, <1>2 DEF PutAt
    <2> QED  BY <2>1 DEF Grow
  <1> HIDE DEF c, s, b, v
  <1>6. End(c) = End(b) /\ Sized(c) /\ Within(c) = Within(b) \cup {v}
    <2>1. c.start + c.len = End(b) /\ c.len > 0 /\ c.start >= 0
      <3>1. v + (b.len + 1) = End(b) /\ b.len + 1 > 0
        BY <1>20
      <3>2. v >= 0
        BY <1>20, <1>3
      <3> QED  BY <1>4, <3>1, <3>2
    <2>2. End(c) = End(b)
      BY <2>1 DEF End
    <2>3. Within(c) = v .. End(b) - 1
      BY <1>4, <2>2 DEF Within
    <2>4. Sized(c)
      BY <1>20, <1>4, <2>1, <2>2 DEF Sized
    <2>5. Within(c) = Within(b) \cup {v}
      <3>1. v .. End(b) - 1 = (b.start .. End(b) - 1) \cup {v}
        <4>1. b.start = v + 1 /\ b.start <= End(b) - 1
          BY <1>20
        <4>2. \A p, q \in Int : p + 1 <= q => p .. q = (p + 1 .. q) \cup {p}
          OBVIOUS
        <4>3. v \in Int /\ End(b) - 1 \in Int /\ v + 1 <= End(b) - 1
          BY <1>20, <4>1, SMTT(30)
        <4>4. v .. End(b) - 1 = (v + 1 .. End(b) - 1) \cup {v}
          BY <4>2, <4>3
        <4> QED  BY <4>1, <4>4
      <3> QED  BY <1>21, <2>3, <3>1
    <2> QED  BY <2>2, <2>4, <2>5
  <1>7. Ahead(list, i - 1, c)
    BY <1>3, <1>4 DEF Ahead, Precedes
  <1>8. Behind(list, i + 1, c)
    <2>1. ASSUME NEW j \in i + 1 .. Len(list)  PROVE End(c) <= list[j].start
      <3>1. j \in 1 .. Len(list) /\ i < j
        BY <1>1
      <3> QED  BY <1>1, <1>6, <3>1 DEF Sorted, Precedes, b
    <2> QED  BY <2>1 DEF Behind, Precedes
  <1>9. /\ Sorted(l) /\ Members(l) = (Members(list) \ {b}) \cup {c}
        /\ Len(l) = Len(list) /\ l[i] = c /\ \A j \in 1 .. Len(list) : j # i => l[j] = list[j]
    BY <1>1, <1>6, <1>7, <1>8, SortedReplaced DEF b
  <1>10. v \in Pages /\ v \in Int
    BY <1>20, <1>3, VMMAssumption, SMTT(30) DEF VMMAssumption, Pages
  <1>11. a.page \subseteq r.page
    BY <1>1, <1>21, <1>10, MapsPage DEF Sane
  <1> HIDE DEF l
  <1>12. ASSUME r.fault = "none"  PROVE Good(l, r, k) /\ r.page = a.page \cup {v}
    <2>1. /\ Sane(r, k) /\ v \notin a.page /\ r.page = a.page \cup {v}
          /\ a.page \cap a.write \subseteq r.write
          /\ b.write => v \in r.write
      <3>1. b.write \in BOOLEAN /\ Sane(a, k) /\ v \in Pages
        BY <1>1, <1>10, <1>21
      <3> QED  BY <1>12, <3>1, MapsPageSane
    <2> HIDE DEF r
    <2>2. v \notin Stack /\ b \in Members(list) /\ Stack \subseteq r.page
      BY <1>1, <2>1 DEF Agree, Members, b
    <2>3. \A d \in Members(list) : /\ Within(d) \cap Stack = {} /\ Within(d) \subseteq r.page
                                   /\ d.write => Within(d) \subseteq r.write
      BY <1>1, <2>1 DEF Agree
    <2>4. /\ Within(c) \cap Stack = {} /\ Within(c) \subseteq r.page
          /\ c.write => Within(c) \subseteq r.write
      BY <1>4, <1>6, <2>1, <2>2, <2>3
    <2>5. ASSUME NEW u \in UserPages, u \in r.page
          PROVE  u \in Stack \/ \E d \in Members(l) : u \in Within(d)
      <3>1. u = v \/ u \in Stack \/ \E d \in Members(list) : u \in Within(d)
        BY <1>1, <2>1, <2>5 DEF Agree
      <3> QED  BY <1>6, <1>9, <2>2, <3>1
    <2>6. Agree(l, r)
      BY <1>9, <2>2, <2>3, <2>4, <2>5 DEF Agree
    <2> QED  BY <1>9, <2>1, <2>6 DEF Good
  <1> QED  BY <1>4, <1>5, <1>6, <1>9, <1>11, <1>12 DEF s, b, v

-----------------------------------------------------------------------------
(* Where a new block goes                                                  *)

\* ualloc_pages answers the start of a range without a block, and answers
\* nothing only if there is none in user memory.
LEMMA FirstFitIs ==
  ASSUME NEW list, Sorted(list), NEW len \in Nat, len > 0
  PROVE  LET at == FirstFit(list, len) IN
         /\ at # Nowhere => at \in Nat /\ \A j \in 1 .. Len(list) : End(list[j]) <= at \/ at + len <= list[j].start
         /\ at = Nowhere => \A a \in UserPages : a + len <= UserEnd =>
                              \E j \in 1 .. Len(list) : ~ (End(list[j]) <= a \/ a + len <= list[j].start)
  <1> DEFINE n  == Len(list)
             at == FirstFit(list, len)
             Gap == GapAfter(list, len)
  <1>1. /\ n \in Nat /\ UserEnd \in Int /\ UserPages = 0 .. UserEnd - 1
        /\ \A j \in 1 .. n : /\ list[j].start \in Int /\ End(list[j]) \in Int
                             /\ list[j].start < End(list[j]) /\ list[j].start >= 0
    BY WithinIs, UMMAssumption DEF UMMAssumption, Sorted, Sized, UserPages
  <1>2. \A h, j \in 1 .. n : h < j => End(list[h]) <= list[j].start
    BY DEF Sorted, Precedes
  <1>3. /\ Gap \subseteq 1 .. n
        /\ \A i \in 1 .. n :
             i \in Gap <=> IF i < n THEN list[i + 1].start - End(list[i]) >= len
                           ELSE UserEnd < End(list[i]) \/ UserEnd - End(list[i]) >= len
    BY DEF GapAfter
  <1>4. CASE n = 0
    <2>1. list = <<>>
      BY <1>4 DEF Sorted
    <2>2. at = 0
      BY <2>1 DEF FirstFit
    <2> QED  BY <1>4, <2>2 DEF Nowhere
  <1>5. CASE n > 0 /\ list[1].start >= len
    <2>1. at = 0
      BY <1>5 DEF FirstFit
    <2>2. ASSUME NEW j \in 1 .. n  PROVE 0 + len <= list[j].start
      <3>1. 1 \in 1 .. n /\ (j = 1 \/ 1 < j)
        BY <1>5
      <3>2. j = 1 \/ End(list[1]) <= list[j].start
        BY <1>2, <3>1
      <3> QED  BY <1>1, <1>5, <3>1, <3>2
    <2>3. at # Nowhere /\ at \in Nat
      BY <2>1 DEF Nowhere
    <2>4. \A j \in 1 .. n : at + len <= list[j].start
      BY <2>1, <2>2
    <2> QED  BY <2>3, <2>4
  <1>6. CASE n > 0 /\ ~ (list[1].start >= len)
    <2>1. list # <<>> /\ 1 \in 1 .. n /\ n \in 1 .. n
      BY <1>1, <1>6
    <2>2. CASE Gap = {}
      <3>1. at = Nowhere
        BY <1>6, <2>1, <2>2 DEF FirstFit
      <3>2. ASSUME NEW a \in UserPages, a + len <= UserEnd,
                   \A j \in 1 .. n : End(list[j]) <= a \/ a + len <= list[j].start
            PROVE  FALSE
        <4> DEFINE T == {j \in 1 .. n : ~ (End(list[j]) <= a)}
        <4>1. a \in Int /\ a >= 0
          BY <1>1
        <4>2. CASE T = {}
          <5>1. End(list[n]) <= a
            BY <2>1, <4>2
          <5>2. UserEnd - End(list[n]) >= len
            BY <1>1, <2>1, <3>2, <4>1, <5>1
          <5>3. n \in Gap
            BY <1>3, <2>1, <5>2
          <5> QED  BY <2>2, <5>3
        <4>3. CASE T # {}
          <5>1. PICK m \in T : \A j \in T : m <= j
            <6>1. T \in SUBSET Nat
              BY <1>1
            <6> HIDE DEF T
            <6> QED  BY <4>3, <6>1, Least
          <5>2. m \in 1 .. n /\ a + len <= list[m].start
            BY <3>2, <5>1
          <5>3. CASE m = 1
            <6>1. list[1].start \in Int /\ a + len <= list[1].start
              BY <1>1, <2>1, <5>2, <5>3
            <6> QED  BY <1>6, <4>1, <6>1
          <5>4. CASE m # 1
            <6>1. m - 1 \in 1 .. n /\ (m - 1) + 1 = m /\ m - 1 < n /\ ~ (m <= m - 1)
              BY <1>1, <5>2, <5>4
            <6>2. m - 1 \notin T
              BY <5>1, <6>1
            <6>3. End(list[m - 1]) <= a /\ End(list[m - 1]) \in Int /\ list[m].start \in Int
              BY <1>1, <5>2, <6>1, <6>2
            <6>4. list[m].start - End(list[m - 1]) >= len
              BY <4>1, <5>2, <6>3
            <6>5. m - 1 \in Gap
              BY <1>3, <6>1, <6>4
            <6> QED  BY <2>2, <6>5
          <5> QED  BY <5>3, <5>4
        <4> QED  BY <4>2, <4>3
      <3> QED  BY <3>1, <3>2
    <2>3. CASE Gap # {}
      <3> DEFINE i == CHOOSE h \in Gap : \A j \in Gap : h <= j
      <3>1. i \in Gap
        <4>1. Gap \in SUBSET Nat
          BY <1>1, <1>3
        <4> HIDE DEF Gap
        <4> QED  BY <2>3, <4>1, Least
      <3>2. at = End(list[i])
        BY <1>6, <2>1, <2>3 DEF FirstFit
      <3> HIDE DEF i, at, Gap
      <3>3. i \in 1 .. n /\ (i < n => list[i + 1].start - at >= len)
        BY <1>3, <3>1, <3>2
      <3>4. at \in Int /\ at >= 0 /\ at \in Nat
        BY <1>1, <3>2, <3>3
      <3>5. ASSUME NEW j \in 1 .. n  PROVE End(list[j]) <= at \/ at + len <= list[j].start
        <4>1. CASE j = i
          BY <3>2, <3>4, <4>1
        <4>2. CASE j < i
          BY <1>1, <1>2, <3>2, <3>3, <3>4, <4>2, SMTT(30)
        <4>3. CASE i < j
          <5>1. i < n /\ i + 1 \in 1 .. n /\ (j = i + 1 \/ i + 1 < j)
            BY <1>1, <3>3, <4>3
          <5>2. at + len <= list[i + 1].start
            BY <1>1, <3>3, <3>4, <5>1
          <5>3. j = i + 1 \/ End(list[i + 1]) <= list[j].start
            BY <1>2, <5>1
          <5> QED  BY <1>1, <3>4, <5>1, <5>2, <5>3
        <4> QED  BY <1>1, <3>3, <4>1, <4>2, <4>3
      <3>6. at # Nowhere
        BY <3>4 DEF Nowhere
      <3> QED  BY <3>4, <3>5, <3>6 DEF at
    <2> QED  BY <2>2, <2>3
  <1> QED  BY <1>1, <1>4, <1>5, <1>6

-----------------------------------------------------------------------------
(* The calls and the page faults                                           *)

\* The inductive invariant.
UInv ==
  Intact =>
    /\ lost \in Nat
    /\ Good(blocks, as, NumFrames - lost)
    /\ touch # Nowhere => touch \in UserPages /\ touch \notin as.page

LEMMA Numbers ==
  /\ UserEnd \in Nat /\ UserEnd > 0 /\ NumFrames \in Int /\ StackPages \in Nat /\ StackPages > 0
  /\ StackPages <= UserEnd /\ UserEnd \in Pages /\ UserPages = 0 .. UserEnd - 1 /\ UserPages \subseteq Pages
  /\ Stack = UserEnd - StackPages .. UserEnd - 1 /\ Stack \subseteq UserPages
  /\ HeapPages \subseteq Pages /\ HeapPages \cap UserPages = {}
  BY VMMAssumption, UMMAssumption
     DEF VMMAssumption, UMMAssumption, UserPages, Pages, Stack, HeapPages

LEMMA NothingMapped == Sane(NoPages, NumFrames) /\ NoPages.fault = "none" /\ NoPages.page = {}
  <1>1. /\ NoPages.free = NumFrames /\ NoPages.table = {} /\ NoPages.page = {} /\ NoPages.write = {}
        /\ NoPages.fault = "none"
    BY DEF NoPages
  <1>2. NoPages \in Spaces
    BY Numbers DEF NoPages, Spaces, Faults
  <1>3. NoPages.table = {PAGE_DIR_INDEX(v) : v \in NoPages.page}
    BY <1>1
  <1>4. NoPages.free + Cardinality(NoPages.page) + Cardinality(NoPages.table) = NumFrames
    BY <1>1, Numbers, FS_EmptySet
  <1> QED  BY <1>1, <1>2, <1>3, <1>4 DEF Sane

LEMMA InitInv == Init => UInv
  <1> SUFFICES ASSUME Init, Intact  PROVE UInv
    BY DEF UInv
  <1> DEFINE a == map_new_range(NoPages, UserEnd - StackPages, UserEnd, TRUE)
  <1>0. blocks = <<>> /\ touch = Nowhere /\ lost = 0
    BY DEF Init
  <1>2. /\ a \in Spaces
        /\ a.fault = "none" => Sane(a, NumFrames) /\ a.page = Stack
    <2>1. /\ UserEnd - StackPages \in Int /\ UserEnd - StackPages < UserEnd
          /\ UserEnd - StackPages .. UserEnd - 1 \subseteq Pages
      BY Numbers
    <2>2. /\ a \in Spaces
          /\ a.fault = "none" => Sane(a, NumFrames) /\ a.page = NoPages.page \cup (UserEnd - StackPages .. UserEnd - 1)
      <3> DEFINE low == UserEnd - StackPages
      <3>1. /\ low \in Int /\ UserEnd \in Int /\ low < UserEnd /\ low .. UserEnd - 1 \subseteq Pages
            /\ NumFrames \in Int /\ Sane(NoPages, NumFrames) /\ NoPages.fault = "none" /\ TRUE \in BOOLEAN
        BY <2>1, Numbers, NothingMapped
      <3> HIDE DEF low
      <3>2. LET r == map_new_range(NoPages, low, UserEnd, TRUE) IN
            /\ r \in Spaces
            /\ r.fault = "none" => Sane(r, NumFrames) /\ r.page = NoPages.page \cup (low .. UserEnd - 1)
        BY <3>1, MapsRange
      <3> QED  BY <3>2 DEF low
    <2> QED  BY <2>2, Numbers, NothingMapped
  <1>11. NewSpace \in Spaces
    <2> HIDE DEF a
    <2>1. a \in Spaces /\ UserEnd \in Int /\ TRUE \in BOOLEAN
      BY <1>2, Numbers
    <2>2. map_new_page(a, UserEnd, TRUE) \in Spaces
      BY <2>1, MapsPage
    <2> QED  BY <2>2 DEF NewSpace, a
  <1>1. as = map_new_page(a, UserEnd, TRUE) /\ blocks = <<>> /\ touch = Nowhere /\ lost = 0
    <2>1. as # Fault(NewSpace, "wild_list")
      <3>1. "wild_list" \in Faults /\ "wild_list" # "none"
        BY DEF Faults
      <3>2. Fault(NewSpace, "wild_list").fault # "none"
        BY <1>11, <3>1, FaultIn DEF Fault
      <3> QED  BY <3>2 DEF Intact
    <2> QED  BY <1>0, <2>1 DEF Init, NewSpace, a
  <1> HIDE DEF a
  <1>3. as.fault = "none" /\ UserEnd \in Int /\ TRUE \in BOOLEAN
    BY Numbers DEF Intact
  <1>4. a.fault = "none"
    BY <1>1, <1>2, <1>3, MapsPage
  <1>5. Sane(as, NumFrames) /\ as.page = a.page \cup {UserEnd}
    BY <1>1, <1>2, <1>3, <1>4, Numbers, MapsPageSane
  <1>6. Sorted(blocks) /\ Members(blocks) = {}
    BY <1>1 DEF Sorted, Members
  <1>7. UserEnd \notin UserPages
    BY Numbers
  <1>8. Agree(blocks, as)
    BY <1>2, <1>4, <1>5, <1>6, <1>7 DEF Agree
  <1>9. NumFrames - lost = NumFrames
    BY <1>1, Numbers
  <1> QED  BY <1>1, <1>5, <1>6, <1>8, <1>9 DEF UInv, Good

LEMMA PlacedSized ==
  ASSUME UInv, Intact, NEW fixed \in BOOLEAN, NEW addr \in Pages, NEW len \in Lens, NEW kind \in Kinds,
         Fits(Placed(fixed, addr, len), len)
  PROVE  LET b == Block(Placed(fixed, addr, len), len, kind) IN
         Sized(b) /\ b.start = Placed(fixed, addr, len)
  <1> DEFINE at == Placed(fixed, addr, len)
             b == Block(at, len, kind)
  <1>1. /\ len \in Nat /\ len > 0 /\ at # Nowhere /\ at + len <= NumPages /\ addr \in Nat
        /\ kind \in [write : BOOLEAN, grows : BOOLEAN]
    BY UMMAssumption DEF UMMAssumption, Lens, Fits, Pages
  <1>2. at \in Nat
    <2>1. CASE fixed
      BY <1>1, <2>1 DEF Placed
    <2>2. CASE ~fixed
      <3>1. at = FirstFit(blocks, len) /\ Sorted(blocks)
        BY <2>2 DEF Placed, UInv, Good
      <3> HIDE DEF at
      <3> QED  BY <1>1, <3>1, FirstFitIs
    <2> QED  BY <2>1, <2>2
  <1> HIDE DEF at
  <1>3. b.start = at /\ b.len = len /\ b \in BlockSet
    BY <1>1, <1>2 DEF Block, BlockSet
  <1> QED  BY <1>1, <1>2, <1>3 DEF Sized, End, at

LEMMA CalmGood ==
  ASSUME UInv, Calm
  PROVE  /\ Intact /\ lost \in Nat /\ NumFrames - lost \in Int /\ Good(blocks, as, NumFrames - lost)
         /\ as.fault = "none" /\ touch = Nowhere
  <1>1. Intact /\ lost \in Nat /\ as.fault = "none" /\ touch = Nowhere
    BY DEF UInv, Calm, Intact
  <1>2. Good(blocks, as, NumFrames - lost)
    BY <1>1 DEF UInv
  <1>3. NumFrames - lost \in Int
    BY <1>1, Numbers
  <1> QED  BY <1>1, <1>2, <1>3

LEMMA MmapInv ==
  ASSUME UInv, NEW fixed \in BOOLEAN, NEW addr \in Pages, NEW len \in Lens, NEW kind \in Kinds,
         sys_mmap(fixed, addr, len, kind)
  PROVE  UInv' /\ as.page \subseteq as'.page
  <1> DEFINE b == Block(Placed(fixed, addr, len), len, kind)
             s == umap_pages([blocks |-> blocks, as |-> as], b)
             k == NumFrames - lost
  <1>1. Calm /\ Fits(Placed(fixed, addr, len), len)
    BY DEF sys_mmap
  <1>2. Intact /\ lost \in Nat /\ k \in Int /\ Good(blocks, as, k) /\ as.fault = "none" /\ touch = Nowhere
    BY <1>1, CalmGood
  <1>3. Sized(b)
    BY <1>1, <1>2, PlacedSized
  <1>4. blocks' = s.blocks /\ as' = s.as /\ touch' = touch /\ lost' = lost
    BY DEF sys_mmap, Now
  <1> HIDE DEF b, k
  <1>5. /\ as.page \subseteq s.as.page
        /\ s.as.fault = "none" => Good(s.blocks, s.as, k)
    BY <1>2, <1>3, MapsBlock
  <1> HIDE DEF s
  <1>6. UInv'
    BY <1>2, <1>4, <1>5 DEF UInv, Intact, k
  <1> QED  BY <1>4, <1>5, <1>6

LEMMA MmapFailsInv ==
  ASSUME UInv, NEW fixed \in BOOLEAN, NEW addr \in Pages, NEW len \in Lens, NEW kind \in Kinds,
         sys_mmap_fails(fixed, addr, len, kind)
  PROVE  UInv' /\ as.page \subseteq as'.page
  <1> DEFINE at == Placed(fixed, addr, len)
             b  == Block(at, len, kind)
             s1 == umap_pages([blocks |-> blocks, as |-> as], b)
             s2 == IF at = 0 \/ s1.as.fault # "none" THEN s1 ELSE umm_unmap_pages(s1, at)
             k  == NumFrames - lost
             d  == s1.as.page \ s2.as.page
  <1>1. Calm /\ Fits(at, len)
    BY DEF sys_mmap_fails
  <1>2. Intact /\ lost \in Nat /\ k \in Int /\ Good(blocks, as, k) /\ as.fault = "none" /\ touch = Nowhere
    BY <1>1, CalmGood
  <1>3. Sized(b) /\ b.start = at
    BY <1>1, <1>2, PlacedSized
  <1>4. blocks' = s2.blocks /\ as' = s2.as /\ touch' = touch /\ lost' = lost + Cardinality(d)
    BY DEF sys_mmap_fails, Now
  <1> HIDE DEF b, k, at
  <1>5. /\ as.page \subseteq s1.as.page
        /\ s1.as.fault = "none" =>
             /\ Good(s1.blocks, s1.as, k)
             /\ Members(s1.blocks) = Members(blocks) \cup {b}
             /\ s1.as.page = as.page \cup Within(b) /\ as.page \cap Within(b) = {}
    BY <1>2, <1>3, MapsBlock
  <1> HIDE DEF s1
  <1>6. CASE s2 = s1
    <2>1. d = {} /\ Cardinality(d) = 0
      BY <1>6, FS_EmptySet
    <2>2. lost' = lost
      BY <1>2, <1>4, <2>1
    <2> HIDE DEF s2
    <2> QED  BY <1>2, <1>4, <1>5, <1>6, <2>2 DEF UInv, Intact, k
  <1>7. CASE s2 # s1
    <2>1. s2 = umm_unmap_pages(s1, at) /\ s1.as.fault = "none" /\ Dropped(s1, at) # {}
      BY <1>7 DEF umm_unmap_pages
    <2>2. /\ Good(s1.blocks, s1.as, k) /\ Members(s1.blocks) = Members(blocks) \cup {b}
          /\ s1.as.page = as.page \cup Within(b) /\ as.page \cap Within(b) = {}
      BY <1>5, <2>1
    <2>3. LET e == s1.as.page \ umm_unmap_pages(s1, at).as.page
              r == umm_unmap_pages(s1, at)
          IN
          /\ \E c \in Members(s1.blocks) : c.start = at /\ e = Within(c) /\ r.as.page = s1.as.page \ e
          /\ r.as.fault = "none" => Good(r.blocks, r.as, k - Cardinality(e))
          /\ Cardinality(e) \in Nat
      BY <1>2, <2>1, <2>2, DropsBlock
    <2>4. PICK c \in Members(s1.blocks) : c.start = at /\ d = Within(c) /\ s2.as.page = s1.as.page \ d
      BY <2>1, <2>3
    <2>5. s2.as.fault = "none" => Good(s2.blocks, s2.as, k - Cardinality(d))
      BY <2>1, <2>3
    <2>6. Cardinality(d) \in Nat
      BY <2>1, <2>3
    <2> HIDE DEF d, s2
    <2>7. c = b
      <3>1. Sized(c) /\ b \in Members(s1.blocks) /\ Sorted(s1.blocks)
        BY <2>2, <2>4, MembersApart DEF Good
      <3>2. at \in Within(c) /\ at \in Within(b)
        BY <1>3, <2>4, <3>1, WithinIs
      <3> QED  BY <2>4, <3>1, <3>2, MembersApart
    <2>8. as.page \subseteq s2.as.page
      BY <2>2, <2>4, <2>7
    <2>9. lost' \in Nat /\ NumFrames - lost' = k - Cardinality(d)
      BY <1>2, <1>4, <2>6, Numbers DEF k
    <2>10. UInv'
      BY <1>2, <1>4, <2>5, <2>9 DEF UInv, Intact
    <2> QED  BY <1>4, <2>8, <2>10
  <1> QED  BY <1>6, <1>7

LEMMA MunmapInv ==
  ASSUME UInv, NEW addr \in Pages, NEW len \in Lens, sys_munmap(addr, len)
  PROVE  UInv' /\ as.page \ (addr .. addr + len - 1) \subseteq as'.page
  <1> DEFINE s == FreeLoop(Now, addr)[len]
             k == NumFrames - lost
  <1>1. Calm
    BY DEF sys_munmap
  <1>2. Intact /\ lost \in Nat /\ k \in Int /\ Good(blocks, as, k) /\ as.fault = "none" /\ touch = Nowhere
    BY <1>1, CalmGood
  <1>3. blocks' = s.blocks /\ as' = s.as /\ touch' = touch /\ lost' = lost
    BY DEF sys_munmap, FreeLoop
  <1> HIDE DEF k, s
  <1>4. Now \in Kept(k) /\ Now.as = as
    <2>1. blocks \in Seq(BlockSet) /\ as \in Spaces
      BY <1>2 DEF Good, Sorted, Sane
    <2>2. Now \in States /\ Now.as = as /\ Now.blocks = blocks
      BY <2>1 DEF Now, States
    <2> QED  BY <1>2, <2>2 DEF Kept
  <1>5. addr \in Int /\ len \in Nat
    BY UMMAssumption DEF UMMAssumption, Lens, Pages
  <1>6. s \in Kept(k) /\ as.page \ Run(addr, len) \subseteq s.as.page
    BY <1>2, <1>4, <1>5, FreesRange DEF s
  <1>7. s.as.fault = "none" => Good(s.blocks, s.as, k)
    BY <1>6 DEF Kept
  <1>8. UInv'
    BY <1>2, <1>3, <1>7 DEF UInv, Intact, k
  <1> QED  BY <1>3, <1>6, <1>8 DEF Run

LEMMA AccessInv ==
  ASSUME UInv, NEW v \in UserPages, Access(v)
  PROVE  UInv' /\ as'.page = as.page
  BY DEF Access, UInv, Intact, Calm

LEMMA GrowableIs ==
  ASSUME UInv, Intact, touch # Nowhere, NEW i \in Growable(touch)
  PROVE  /\ i \in 1 .. Len(blocks) /\ touch \in UserPages /\ touch \notin as.page
         /\ touch < blocks[i].start
         /\ \A j \in 1 .. i - 1 : End(blocks[j]) <= touch
         /\ blocks[i].start - (IF i = 1 THEN 0 ELSE End(blocks[i - 1])) >= 2
  <1> DEFINE gap == blocks[i].start - (IF i = 1 THEN 0 ELSE End(blocks[i - 1]))
  <1>1. touch \in UserPages /\ touch \notin as.page
    BY DEF UInv
  <1>2. /\ i \in 1 .. Len(blocks) /\ touch < blocks[i].start
        /\ \A j \in 1 .. i - 1 : End(blocks[j]) <= touch
    BY DEF Growable, Above
  <1>3. gap \in 2 .. SignBit - 1
    BY DEF Growable, Below
  <1> HIDE DEF gap
  <1>4. gap >= 2
    BY <1>3, UMMAssumption DEF UMMAssumption
  <1> QED  BY <1>1, <1>2, <1>4 DEF gap

LEMMA HandlerInv ==
  ASSUME UInv, umm_page_flt_handler
  PROVE  UInv' /\ as.page \subseteq as'.page
  <1>1. touch # Nowhere /\ as.fault = "none" /\ Intact /\ lost' = lost
    BY DEF umm_page_flt_handler, Intact
  <1> DEFINE k == NumFrames - lost
  <1>2. lost \in Nat /\ Good(blocks, as, k) /\ k \in Int
    <2>1. lost \in Nat /\ Good(blocks, as, k)
      BY <1>1 DEF UInv
    <2>2. k \in Int
      BY <2>1, Numbers
    <2> QED  BY <2>1, <2>2
  <1> HIDE DEF k
  <1>3. CASE Growable(touch) = {}
    <2> DEFINE m == IF blocks = <<>> THEN "null_read" ELSE "halt"
    <2>1. as' = Fault(as, m)
      BY <1>3 DEF umm_page_flt_handler
    <2>2. m \in Faults /\ m # "none" /\ as \in Spaces
      BY <1>2 DEF Faults, Good, Sane
    <2> HIDE DEF m
    <2>3. as'.page = as.page /\ as'.fault # "none"
      BY <1>1, <2>1, <2>2, FaultIn
    <2> QED  BY <2>3 DEF UInv, Intact
  <1>4. CASE Growable(touch) # {}
    <2> DEFINE i == CHOOSE j \in Growable(touch) : TRUE
               s == Grow([blocks |-> blocks, as |-> as], i)
    <2>1. i \in Growable(touch)
      BY <1>4
    <2>2. /\ blocks' = s.blocks /\ as' = s.as
          /\ touch' = IF touch \in s.as.page THEN Nowhere ELSE touch
      BY <1>1, <1>4 DEF umm_page_flt_handler, Now
    <2> HIDE DEF i
    <2>3. /\ i \in 1 .. Len(blocks) /\ touch \in UserPages
          /\ blocks[i].start - (IF i = 1 THEN 0 ELSE End(blocks[i - 1])) >= 2
      BY <1>1, <2>1, GrowableIs
    <2>4. /\ as.page \subseteq s.as.page
          /\ s.as.fault = "none" => Good(s.blocks, s.as, k)
      BY <1>1, <1>2, <2>3, Grows
    <2> HIDE DEF s
    <2>5. UInv'
      BY <1>1, <1>2, <2>2, <2>3, <2>4 DEF UInv, Intact, k
    <2> QED  BY <2>2, <2>4, <2>5
  <1> QED  BY <1>3, <1>4

LEMMA HeapInv ==
  ASSUME UInv, NEW v \in HeapPages, ISR_page_flt_handler(v)
  PROVE  UInv' /\ as.page \subseteq as'.page
  <1> DEFINE r == map_new_page(as, v, TRUE)
             k == NumFrames - lost
  <1>1. Calm /\ as' = r /\ blocks' = blocks /\ touch' = touch /\ lost' = lost
    BY DEF ISR_page_flt_handler
  <1>2. Intact /\ lost \in Nat /\ k \in Int /\ Good(blocks, as, k) /\ as.fault = "none" /\ touch = Nowhere
    BY <1>1, CalmGood
  <1>3. v \in Pages /\ v \notin UserPages /\ v \in Int /\ TRUE \in BOOLEAN
    BY Numbers DEF Pages
  <1>4. Sorted(blocks) /\ Sane(as, k) /\ Agree(blocks, as) /\ as \in Spaces
    BY <1>2 DEF Good, Sane
  <1>5. as.page \subseteq r.page
    BY <1>3, <1>4, MapsPage
  <1> HIDE DEF k
  <1>6. ASSUME r.fault = "none"  PROVE Good(blocks, r, k)
    <2>1. Sane(r, k) /\ r.page = as.page \cup {v} /\ as.page \cap as.write \subseteq r.write
      BY <1>2, <1>3, <1>4, <1>6, MapsPageSane
    <2> HIDE DEF r
    <2>2. \A b \in Members(blocks) :
            Within(b) \subseteq r.page /\ (b.write => Within(b) \subseteq r.write)
      BY <1>4, <2>1 DEF Agree
    <2>3. Agree(blocks, r)
      BY <1>3, <1>4, <2>1, <2>2 DEF Agree
    <2> QED  BY <1>4, <2>1, <2>3 DEF Good
  <1> HIDE DEF r
  <1>7. UInv'
    BY <1>1, <1>2, <1>6 DEF UInv, Intact, k
  <1> QED  BY <1>1, <1>5, <1>7


\* What a step does to the pages that are present.
Stays == \A v \in as.page :
           v \notin as'.page =>
             \E addr \in Pages, len \in Lens :
               v \in addr .. addr + len - 1 /\ sys_munmap(addr, len)

LEMMA NextInv ==
  ASSUME UInv, [Next]_vars
  PROVE  UInv' /\ [Stays]_vars
  <1>1. ASSUME NEW fixed \in BOOLEAN, NEW addr \in Pages, NEW len \in Lens, NEW kind \in Kinds,
               sys_mmap(fixed, addr, len, kind) \/ sys_mmap_fails(fixed, addr, len, kind)
        PROVE  UInv' /\ Stays
    BY <1>1, MmapInv, MmapFailsInv DEF Stays
  <1>2. ASSUME NEW addr \in Pages, NEW len \in Lens, sys_munmap(addr, len)
        PROVE  UInv' /\ Stays
    BY <1>2, MunmapInv DEF Stays
  <1>3. ASSUME NEW v \in UserPages, Access(v)
        PROVE  UInv' /\ Stays
    BY <1>3, AccessInv DEF Stays
  <1>4. ASSUME umm_page_flt_handler
        PROVE  UInv' /\ Stays
    BY <1>4, HandlerInv DEF Stays
  <1>5. ASSUME NEW v \in HeapPages, ISR_page_flt_handler(v)
        PROVE  UInv' /\ Stays
    BY <1>5, HeapInv DEF Stays
  <1>6. ASSUME UNCHANGED vars
        PROVE  UInv' /\ [Stays]_vars
    BY <1>6 DEF UInv, Intact, vars
  <1>7. ASSUME Stopped
        PROVE  UInv' /\ [Stays]_vars
    BY <1>6, <1>7 DEF Stopped
  <1> QED  BY <1>1, <1>2, <1>3, <1>4, <1>5, <1>6, <1>7 DEF Next

-----------------------------------------------------------------------------
(* The theorems                                                            *)

\* The list of blocks and the page tables agree, and the frames add up.
THEOREM UserMemory == Spec => []UInv
  <1>1. UInv /\ [Next]_vars => UInv'
    BY NextInv
  <1> QED  BY InitInv, <1>1, PTL DEF Spec

\* Every frame of the machine is free, behind a page or a page table of the
\* process, or one of those that failed mmaps are known to lose, and exactly
\* the page tables with pages in them are present.
THEOREM NoFrameLost == Spec => []FramesAccounted
  <1>1. UInv => FramesAccounted
    <2> SUFFICES ASSUME UInv, Intact
                 PROVE  /\ as.free + Cardinality(as.page) + Cardinality(as.table) + lost = NumFrames
                        /\ as.table = {PAGE_DIR_INDEX(v) : v \in as.page}
      BY DEF FramesAccounted
    <2> DEFINE k == NumFrames - lost
    <2>1. lost \in Nat /\ Sane(as, k)
      BY DEF UInv, Good
    <2>2. k \in Int /\ k + lost = NumFrames
      BY <2>1, Numbers
    <2> HIDE DEF k
    <2>3. Cardinality(as.page) \in Nat /\ Cardinality(as.table) \in Nat
      BY <2>1, <2>2, Finite
    <2>4. /\ as.free \in Int /\ as.table = {PAGE_DIR_INDEX(v) : v \in as.page}
          /\ as.free + Cardinality(as.page) + Cardinality(as.table) = k
      BY <2>1 DEF Sane, Spaces
    <2> QED  BY <2>1, <2>2, <2>3, <2>4
  <1> QED  BY UserMemory, <1>1, PTL

\* The blocks of a process are not empty and stand in the order of their
\* addresses without overlaps, whatever is mapped and unmapped, by FIXED in
\* the kernel's part of the address space too, provided that the list was
\* empty when the process was made.
THEOREM ListSorted == Spec => []BlocksSorted
  <1>1. UInv => BlocksSorted
    BY DEF UInv, BlocksSorted, Good, Sorted, Sized, Precedes
  <1> QED  BY UserMemory, <1>1, PTL

LEMMA FreeRanges ==
  ASSUME UInv  PROVE FirstFitIsFree
  <1> SUFFICES ASSUME Calm, NEW len \in Lens
               PROVE  LET at == FirstFit(blocks, len) IN
                      /\ at # Nowhere => \A v \in at .. at + len - 1 : ~InBlock(v)
                      /\ at = Nowhere => ~\E a \in UserPages :
                           a + len <= UserEnd /\ \A v \in a .. a + len - 1 : ~InBlock(v)
    BY DEF FirstFitIsFree
  <1> DEFINE at == FirstFit(blocks, len)
  <1>1. Sorted(blocks) /\ len \in Nat /\ len > 0
    BY CalmGood, UMMAssumption DEF UMMAssumption, Good, Lens
  <1>2. /\ at # Nowhere => at \in Nat /\ \A j \in 1 .. Len(blocks) : End(blocks[j]) <= at \/ at + len <= blocks[j].start
        /\ at = Nowhere => \A a \in UserPages : a + len <= UserEnd =>
                             \E j \in 1 .. Len(blocks) : ~ (End(blocks[j]) <= a \/ a + len <= blocks[j].start)
    BY <1>1, FirstFitIs
  <1> HIDE DEF at
  <1>3. \A j \in 1 .. Len(blocks) : /\ blocks[j].start \in Int /\ End(blocks[j]) \in Int
                                    /\ blocks[j].start < End(blocks[j])
                                    /\ \A v \in Int : v \in Within(blocks[j]) <=> blocks[j].start <= v /\ v < End(blocks[j])
    BY <1>1, WithinIs DEF Sorted
  <1>4. ASSUME at # Nowhere, NEW v \in at .. at + len - 1, NEW j \in 1 .. Len(blocks),
               v \in Within(blocks[j])
        PROVE  FALSE
    <2>1. at \in Nat /\ (End(blocks[j]) <= at \/ at + len <= blocks[j].start)
      BY <1>2, <1>4
    <2>2. v \in Int /\ at <= v /\ v < at + len
      BY <1>1, <2>1
    <2>3. blocks[j].start <= v /\ v < End(blocks[j]) /\ blocks[j].start \in Int /\ End(blocks[j]) \in Int
      BY <1>3, <1>4, <2>2
    <2> QED  BY <1>1, <2>1, <2>2, <2>3
  <1>5. ASSUME at = Nowhere, NEW a \in UserPages, a + len <= UserEnd,
               \A v \in a .. a + len - 1 : ~InBlock(v)
        PROVE  FALSE
    <2>1. PICK j \in 1 .. Len(blocks) : ~ (End(blocks[j]) <= a \/ a + len <= blocks[j].start)
      BY <1>2, <1>5
    <2>2. a \in Int /\ blocks[j].start \in Int /\ End(blocks[j]) \in Int /\ blocks[j].start < End(blocks[j])
      BY <1>3, Numbers
    <2> DEFINE v == IF a <= blocks[j].start THEN blocks[j].start ELSE a
    <2>3. v \in Int /\ v \in a .. a + len - 1 /\ blocks[j].start <= v /\ v < End(blocks[j])
      BY <1>1, <2>1, <2>2
    <2> HIDE DEF v
    <2>4. v \in Within(blocks[j])
      BY <1>3, <2>3
    <2> QED  BY <1>5, <2>3, <2>4 DEF InBlock
  <1> QED  BY <1>4, <1>5 DEF at, InBlock

\* The pages of every block are present, and can be written if the block can;
\* a page of user memory that is present is in a block or on the stack; and
\* ualloc_pages, which looks at the list alone, answers pages of no block and
\* finds some if there are any.  (It may answer pages of the stack.)
THEOREM ListMatchesPages == Spec => []BlocksMapped
  <1>1. UInv => BlocksMapped
    <2> SUFFICES ASSUME UInv  PROVE BlocksMapped
      OBVIOUS
    <2>1. FirstFitIsFree
      BY FreeRanges
    <2>2. ASSUME Intact
          PROVE  /\ \A i \in 1 .. Len(blocks) :
                      /\ Within(blocks[i]) \subseteq as.page
                      /\ blocks[i].write => Within(blocks[i]) \subseteq as.write
                 /\ \A v \in UserPages : v \in as.page => v \in Stack \/ InBlock(v)
      BY <2>2 DEF UInv, Good, Agree, Members, InBlock
    <2> QED  BY <2>1, <2>2 DEF BlocksMapped
  <1> QED  BY UserMemory, <1>1, PTL

\* A page that is present goes only in an munmap of a range that it is in.
THEOREM PagesAreKept == Spec => PagesStay
  <1>1. UInv /\ [Next]_vars => [Stays]_vars
    BY NextInv
  <1>2. Spec => [][Stays]_vars
    BY <1>1, UserMemory, PTL DEF Spec
  <1> QED  BY <1>2 DEF PagesStay, Stays

-----------------------------------------------------------------------------
(* A page fault is resolved                                                *)

FirstAbove(list, v) ==
  {i \in 1 .. Len(list) : v < list[i].start /\ \A j \in 1 .. i - 1 : End(list[j]) <= v}

LEMMA OneAbove ==
  ASSUME NEW list, Sorted(list), NEW v \in Int, NEW i \in FirstAbove(list, v)
  PROVE  (CHOOSE j \in FirstAbove(list, v) : TRUE) = i
  <1>1. ASSUME NEW h \in FirstAbove(list, v), NEW j \in FirstAbove(list, v), h < j  PROVE FALSE
    <2>1. h \in 1 .. j - 1 /\ h \in 1 .. Len(list) /\ v < list[h].start /\ End(list[h]) <= v
      BY <1>1 DEF FirstAbove, Sorted
    <2>2. list[h].start \in Int /\ End(list[h]) \in Int /\ list[h].start < End(list[h])
      BY <2>1, WithinIs DEF Sorted
    <2> QED  BY <2>1, <2>2
  <1>2. \A j \in FirstAbove(list, v) : j \in Int
    BY DEF FirstAbove
  <1>3. \A j \in FirstAbove(list, v) : j = i
    BY <1>1, <1>2
  <1> QED  BY <1>3

Nearer == touch # Nowhere /\ as'.fault = "none"
            => \/ touch' = Nowhere /\ touch \in as'.page
               \/ touch' = touch /\ Distance' < Distance

\* What Grow does to the list.
Grown(list, l, i) ==
  /\ Len(l) = Len(list) /\ l[i].start = list[i].start - 1
  /\ \A j \in 1 .. Len(list) : j # i => l[j] = list[j]

LEMMA GrowsList ==
  ASSUME NEW list \in Seq(BlockSet), NEW a, NEW i \in 1 .. Len(list)
  PROVE  Grown(list, Grow([blocks |-> list, as |-> a], i).blocks, i)
  <1> DEFINE b == list[i]
             c == [b EXCEPT !.start = @ - 1, !.len = @ + 1]
             l == [list EXCEPT ![i] = c]
  <1>1. b \in BlockSet
    OBVIOUS
  <1>2. b.start \in Int /\ b.len \in Int
    BY <1>1 DEF BlockSet
  <1>3. c.start = b.start - 1
    BY <1>1 DEF BlockSet
  <1>4. Grow([blocks |-> list, as |-> a], i).blocks = l
    BY DEF Grow
  <1> HIDE DEF c
  <1>5. Len(l) = Len(list) /\ l[i] = c /\ \A j \in 1 .. Len(list) : j # i => l[j] = list[j]
    OBVIOUS
  <1> HIDE DEF l
  <1> QED  BY <1>3, <1>4, <1>5 DEF Grown

LEMMA HandlerNearer ==
  ASSUME UInv, umm_page_flt_handler
  PROVE  Nearer
  <1> SUFFICES ASSUME as'.fault = "none", touch' # Nowhere \/ touch \notin as'.page
               PROVE  touch' = touch /\ Distance' < Distance
    BY DEF Nearer, umm_page_flt_handler
  <1>1. touch # Nowhere /\ as.fault = "none" /\ Intact
    BY DEF umm_page_flt_handler, Intact
  <1> DEFINE k == NumFrames - lost
             i == CHOOSE j \in Growable(touch) : TRUE
             s == Grow([blocks |-> blocks, as |-> as], i)
  <1>2. /\ lost \in Nat /\ Good(blocks, as, k) /\ Sorted(blocks) /\ as \in Spaces
        /\ touch \in UserPages
    BY <1>1 DEF UInv, Good, Sane
  <1>3. k \in Int /\ touch \in Int
    BY <1>2, Numbers
  <1>4. Growable(touch) # {}
    <2> SUFFICES ASSUME Growable(touch) = {}  PROVE FALSE
      OBVIOUS
    <2> DEFINE m == IF blocks = <<>> THEN "null_read" ELSE "halt"
    <2>1. as' = Fault(as, m)
      BY DEF umm_page_flt_handler
    <2>2. m \in Faults /\ m # "none"
      BY DEF Faults
    <2> HIDE DEF m
    <2> QED  BY <1>1, <1>2, <2>1, <2>2, FaultIn
  <1>5. i \in Growable(touch)
    BY <1>4
  <1>6. /\ blocks' = s.blocks /\ as' = s.as
        /\ touch' = IF touch \in s.as.page THEN Nowhere ELSE touch
    BY <1>1, <1>4 DEF umm_page_flt_handler, Now
  <1> HIDE DEF i, k
  <1>7. /\ i \in 1 .. Len(blocks) /\ touch < blocks[i].start
        /\ \A j \in 1 .. i - 1 : End(blocks[j]) <= touch
        /\ blocks[i].start - (IF i = 1 THEN 0 ELSE End(blocks[i - 1])) >= 2
    BY <1>1, <1>5, GrowableIs
  <1>8. /\ Len(s.blocks) = Len(blocks) /\ s.blocks[i].start = blocks[i].start - 1
        /\ \A j \in 1 .. Len(blocks) : j # i => s.blocks[j] = blocks[j]
    <2>1. blocks \in Seq(BlockSet)
      BY <1>2 DEF Sorted
    <2>2. Grown(blocks, s.blocks, i)
      BY <1>7, <2>1, GrowsList
    <2> HIDE DEF s
    <2> QED  BY <2>2 DEF Grown
  <1>9. s.as.fault = "none" => Good(s.blocks, s.as, k) /\ s.as.page = as.page \cup {blocks[i].start - 1}
    BY <1>1, <1>2, <1>3, <1>7, Grows
  <1> HIDE DEF s
  <1>10. touch' = touch /\ touch \notin as'.page
    BY <1>6
  <1>11. Sorted(blocks') /\ as'.page = as.page \cup {blocks[i].start - 1}
    BY <1>6, <1>9 DEF Good
  <1>12. blocks[i].start \in Int /\ Len(blocks) \in Nat
    BY <1>2, <1>7, WithinIs DEF Sorted
  <1>13. touch < blocks[i].start - 1
    <2>1. touch # blocks[i].start - 1
      BY <1>10, <1>11
    <2>2. touch < blocks[i].start
      BY <1>7
    <2> QED  BY <1>3, <1>12, <2>1, <2>2
  <1>14. i \in FirstAbove(blocks, touch)
    BY <1>7 DEF FirstAbove
  <1>15. i \in FirstAbove(blocks', touch)
    <2>1. \A j \in 1 .. i - 1 : blocks'[j] = blocks[j]
      BY <1>6, <1>7, <1>8, <1>12
    <2> QED  BY <1>6, <1>7, <1>8, <1>13, <2>1 DEF FirstAbove
  <1>16. /\ (CHOOSE j \in FirstAbove(blocks, touch) : TRUE) = i
         /\ (CHOOSE j \in FirstAbove(blocks', touch) : TRUE) = i
    BY <1>2, <1>3, <1>11, <1>14, <1>15, OneAbove
  <1>17. Distance = blocks[i].start - touch
    BY <1>16 DEF Distance, Above, FirstAbove
  <1>18. Distance' = blocks'[i].start - touch'
    BY <1>10, <1>16 DEF Distance, Above, FirstAbove
  <1>19. Distance' = (blocks[i].start - 1) - touch
    BY <1>6, <1>8, <1>10, <1>18
  <1>20. Distance' < Distance
    BY <1>3, <1>12, <1>17, <1>19
  <1> QED  BY <1>10, <1>20

\* Each time the handler returns without stopping the machine, the page whose
\* access faulted is present, or a block has grown towards it: the faults of
\* one access end.
THEOREM FaultsEnd == Spec => FaultProgress
  <1>1. UInv /\ [Next]_vars => [Nearer]_vars
    <2> SUFFICES ASSUME UInv, Next, touch # Nowhere, as'.fault = "none"
                 PROVE  Nearer \/ UNCHANGED vars
      BY DEF Nearer
    <2>1. CASE umm_page_flt_handler
      BY <2>1, HandlerNearer
    <2>2. CASE Stopped
      BY <2>2 DEF Stopped
    <2>3. ~ Calm
      BY DEF Calm
    <2>4. ASSUME NEW fixed \in BOOLEAN, NEW addr \in Pages, NEW len \in Lens, NEW kind \in Kinds,
                 sys_mmap(fixed, addr, len, kind)
          PROVE  FALSE
      BY <2>3, <2>4 DEF sys_mmap
    <2>5. ASSUME NEW fixed \in BOOLEAN, NEW addr \in Pages, NEW len \in Lens, NEW kind \in Kinds,
                 sys_mmap_fails(fixed, addr, len, kind)
          PROVE  FALSE
      BY <2>3, <2>5 DEF sys_mmap_fails
    <2>6. ASSUME NEW addr \in Pages, NEW len \in Lens, sys_munmap(addr, len)
          PROVE  FALSE
      BY <2>3, <2>6 DEF sys_munmap
    <2>7. ASSUME NEW v \in UserPages, Access(v)  PROVE FALSE
      BY <2>3, <2>7 DEF Access
    <2>8. ASSUME NEW v \in HeapPages, ISR_page_flt_handler(v)  PROVE FALSE
      BY <2>3, <2>8 DEF ISR_page_flt_handler
    <2> QED  BY <2>1, <2>2, <2>4, <2>5, <2>6, <2>7, <2>8 DEF Next
  <1>2. Spec => [][Nearer]_vars
    BY <1>1, UserMemory, PTL DEF Spec
  <1> QED  BY <1>2 DEF FaultProgress, Nearer

-----------------------------------------------------------------------------
(* Programs: pages                                                         *)

\* The lowest address of the stack.
Low == STACK_TOP - STACK_PAGES * PAGE

LEMMA LoaderNumbers ==
  ASSUME LoaderAssumption
  PROVE  /\ PAGE \in Nat \ {0} /\ WORD \in Nat \ {0} /\ STACK_TOP \in Nat \ {0} /\ STACK_PAGES \in Nat \ {0}
         /\ Low \in Nat /\ Low < STACK_TOP
         /\ \E q \in Nat : Low = q * PAGE /\ STACK_TOP = (q + STACK_PAGES) * PAGE
  <1>1. PICK p, n, t \in Nat \ {0} : p = PAGE /\ n = STACK_PAGES /\ t = STACK_TOP
    BY DEF LoaderAssumption
  <1>2. WORD \in Nat \ {0} /\ n * p <= t /\ t % p = 0
    BY <1>1 DEF LoaderAssumption
  <1>3. PICK z \in Nat \ {0} : z = n * p
    OBVIOUS
  <1>4. Low = t - z /\ z <= t
    BY <1>1, <1>2, <1>3 DEF Low
  <1>5. PICK q, r \in Nat : q = t \div p /\ r = t % p /\ r < p /\ t = q * p + r
    BY Divides
  <1>6. t = q * p
    <2>1. q * p \in Nat
      OBVIOUS
    <2> QED  BY <1>2, <1>5, <2>1
  <1>7. n <= q
    <2> SUFFICES ASSUME q < n  PROVE FALSE
      OBVIOUS
    <2>1. (q + 1) * p <= n * p
      BY Monotone
    <2>2. (q + 1) * p = q * p + p /\ q * p \in Nat
      OBVIOUS
    <2> QED  BY <1>2, <1>6, <2>1, <2>2
  <1>8. PICK m \in Nat : m = q - n
    BY <1>7
  <1>9. t - z = m * p /\ t = (m + n) * p
    <2>1. q = m + n
      BY <1>8
    <2>2. (m + n) * p = m * p + n * p /\ m * p \in Nat /\ n * p \in Nat
      OBVIOUS
    <2> QED  BY <1>3, <1>6, <2>1, <2>2
  <1>10. t - z \in Nat /\ t - z < t
    BY <1>4
  <1> QED  BY <1>1, <1>2, <1>4, <1>9, <1>10

\* The page of an address; the page does not cross the edge of another.
LEMMA PageOfIs ==
  ASSUME PAGE \in Nat \ {0}, NEW a \in Nat
  PROVE  /\ PageOf(a) \in Nat /\ PageOf(a) <= a /\ a < PageOf(a) + PAGE /\ a \in Page(PageOf(a))
         /\ \E k \in Nat : PageOf(a) = k * PAGE
         /\ \A q \in Nat : /\ q * PAGE <= a => q * PAGE <= PageOf(a)
                           /\ a < q * PAGE => PageOf(a) + PAGE <= q * PAGE
  <1>1. PICK p \in Nat \ {0} : p = PAGE
    OBVIOUS
  <1>2. PICK k, r \in Nat : r = a % p /\ r < p /\ a = k * p + r
    BY Divides
  <1>3. PICK z \in Nat : z = k * p
    OBVIOUS
  <1>4. PageOf(a) = z /\ a = z + r
    BY <1>1, <1>2, <1>3 DEF PageOf
  <1>5. ASSUME NEW q \in Nat
        PROVE  (q * p <= a => q * p <= z) /\ (a < q * p => z + p <= q * p)
    <2>1. PICK y \in Nat : y = q * p
      OBVIOUS
    <2>2. CASE q <= k
      <3>1. y <= z
        BY <1>3, <2>1, <2>2, Monotone
      <3> QED  BY <1>4, <2>1, <3>1
    <2>3. CASE q > k
      <3>1. (k + 1) * p <= q * p
        BY <2>3, Monotone
      <3>2. z + p <= y
        BY <1>3, <2>1, <3>1
      <3> QED  BY <1>2, <1>4, <2>1, <3>2
    <2> QED  BY <2>2, <2>3
  <1>6. z <= a /\ a < z + p /\ a \in Page(z)
    BY <1>1, <1>2, <1>4 DEF Page
  <1> QED  BY <1>1, <1>3, <1>4, <1>5, <1>6

LEMMA RoundedUp ==
  ASSUME PAGE \in Nat \ {0}, NEW n \in Nat
  PROVE  bss_end(n) \in Nat /\ n <= bss_end(n) /\ \E q \in Nat : bss_end(n) = q * PAGE
  <1>1. PICK p \in Nat \ {0} : p = PAGE
    OBVIOUS
  <1>2. PICK m \in Nat : m = n + p - 1
    <2>1. n + p - 1 \in Nat
      OBVIOUS
    <2> QED  BY <2>1
  <1>3. PICK q, r \in Nat : q = m \div p /\ r < p /\ m = q * p + r
    BY Divides
  <1>4. PICK z \in Nat : z = q * p
    OBVIOUS
  <1>5. bss_end(n) = z
    BY <1>1, <1>2, <1>3, <1>4 DEF bss_end
  <1>6. n <= z
    BY <1>2, <1>3, <1>4
  <1> QED  BY <1>1, <1>4, <1>5, <1>6

\* The page of a byte of the stack is in the stack.
LEMMA StackPage ==
  ASSUME LoaderAssumption, NEW a \in Low .. STACK_TOP - 1
  PROVE  a \in Nat /\ Page(PageOf(a)) \subseteq Low .. STACK_TOP - 1 /\ PageOf(a) \in Low .. STACK_TOP - 1
  <1>1. PICK p, t \in Nat, l \in Nat : p = PAGE /\ t = STACK_TOP /\ l = Low /\ p # 0 /\ l < t
    BY LoaderNumbers
  <1>2. PICK q \in Nat, n \in Nat : l = q * p /\ t = (q + n) * p
    BY <1>1, LoaderNumbers
  <1>3. a \in Nat /\ l <= a /\ a < t
    BY <1>1
  <1>4. PICK b \in Nat : b = PageOf(a)
    BY <1>1, <1>3, PageOfIs
  <1>5. l <= b
    BY <1>1, <1>2, <1>3, <1>4, PageOfIs
  <1>6. b + p <= t
    <2>1. q + n \in Nat
      OBVIOUS
    <2> QED  BY <1>1, <1>2, <1>3, <1>4, <2>1, PageOfIs
  <1> QED  BY <1>1, <1>3, <1>4, <1>5, <1>6 DEF Page

-----------------------------------------------------------------------------
(* Programs: what is in memory                                             *)

\* Copied bytes are there, and the others stay.
LEMMA CopiedIn ==
  ASSUME NEW mem, NEW bytes, NEW then, DOMAIN bytes \subseteq DOMAIN mem, Copies(mem, bytes, then)
  PROVE  /\ step' = then /\ DOMAIN memory' = DOMAIN mem
         /\ \A a \in DOMAIN bytes : memory'[a] = bytes[a]
         /\ \A a \in DOMAIN mem : a \notin DOMAIN bytes => memory'[a] = mem[a]
  BY DEF Copies

\* A word, and argument n of l characters at address p.
HoldsWord(m, a, v) ==
  Low <= a /\ a + WORD <= STACK_TOP /\ \A k \in 0 .. WORD - 1 : m[a + k] = WordByte(v, k)

Located(m, n, l, p) ==
  Low <= p /\ p + l < STACK_TOP /\ (\A k \in 0 .. l - 1 : m[p + k] = Char(n, k)) /\ m[p + l] = Zero

\* Memory m2 has the bytes of m from an address up.
SameFrom(m, m2, base) == \A a \in base .. STACK_TOP - 1 : m2[a] = m[a]

LEMMA WordStays ==
  ASSUME LoaderAssumption, NEW m, NEW m2, NEW base \in Int, SameFrom(m, m2, base),
         NEW a \in Int, base <= a, NEW v, HoldsWord(m, a, v)
  PROVE  HoldsWord(m2, a, v)
  <1>1. WORD \in Nat /\ STACK_TOP \in Nat
    BY LoaderNumbers
  <1>2. ASSUME NEW k \in 0 .. WORD - 1  PROVE m2[a + k] = WordByte(v, k)
    <2>1. a + k \in base .. STACK_TOP - 1
      BY <1>1 DEF HoldsWord
    <2> QED  BY <2>1 DEF HoldsWord, SameFrom
  <1> QED  BY <1>2 DEF HoldsWord

LEMMA StringStays ==
  ASSUME LoaderAssumption, NEW m, NEW m2, NEW base \in Int, SameFrom(m, m2, base),
         NEW n, NEW l \in Nat, NEW p \in Int, base <= p, Located(m, n, l, p)
  PROVE  Located(m2, n, l, p)
  <1>1. STACK_TOP \in Nat
    BY LoaderNumbers
  <1>2. \A k \in 0 .. l : p + k \in base .. STACK_TOP - 1
    BY <1>1 DEF Located
  <1>3. \A k \in 0 .. l : m2[p + k] = m[p + k]
    BY <1>2 DEF SameFrom
  <1>4. l \in 0 .. l /\ 0 .. l - 1 \subseteq 0 .. l
    OBVIOUS
  <1> QED  BY <1>3, <1>4 DEF Located

\* The first c arguments are at the addresses ta, from base up.
ArgumentsAt(m, base, ta, c) ==
  /\ ta \in Seq(Int) /\ Len(ta) = c
  /\ \A n \in 1 .. c : base <= ta[n] /\ Located(m, n, argv[n], ta[n])

LEMMA ArgumentsStay ==
  ASSUME LoaderAssumption, argv \in Seq(Nat), NEW m, NEW m2, NEW base \in Int, NEW b2 \in Int, b2 <= base,
         SameFrom(m, m2, base), NEW ta, NEW c \in 0 .. Len(argv), ArgumentsAt(m, base, ta, c)
  PROVE  ArgumentsAt(m2, b2, ta, c)
  <1>1. ASSUME NEW n \in 1 .. c  PROVE b2 <= ta[n] /\ Located(m2, n, argv[n], ta[n])
    <2>1. argv[n] \in Nat /\ ta[n] \in Int /\ base <= ta[n] /\ Located(m, n, argv[n], ta[n])
      BY DEF ArgumentsAt
    <2>2. Located(m2, n, argv[n], ta[n])
      BY <2>1, StringStays
    <2> QED  BY <2>1, <2>2
  <1> QED  BY <1>1 DEF ArgumentsAt

\* What add_entrance_args leaves, and elf_load leaves alone.
HandedOver(m, base) ==
  /\ base \in Int /\ Low <= base
  /\ ArgumentsAt(m, base, temp_argv, Len(argv))
  /\ HoldsWord(m, base, Len(argv))
  /\ HoldsWord(m, base + WORD * (Len(argv) + 1), 0)
  /\ \A n \in 1 .. Len(argv) : HoldsWord(m, base + WORD * n, temp_argv[n])

LEMMA PassedStays ==
  ASSUME LoaderAssumption, argv \in Seq(Nat), NEW m, NEW m2, SameFrom(m, m2, Low), NEW base, HandedOver(m, base)
  PROVE  HandedOver(m2, base)
  <1>1. base \in Int /\ Low <= base /\ Low \in Int /\ STACK_TOP \in Int /\ WORD \in Nat /\ Len(argv) \in Nat
    BY LoaderNumbers DEF HandedOver
  <1>2. SameFrom(m, m2, base)
    <2>1. base .. STACK_TOP - 1 \subseteq Low .. STACK_TOP - 1
      BY <1>1
    <2> QED  BY <2>1 DEF SameFrom
  <1>3. ArgumentsAt(m2, base, temp_argv, Len(argv))
    <2>1. Len(argv) \in 0 .. Len(argv) /\ base <= base
      BY <1>1
    <2> QED  BY <1>1, <1>2, <2>1, ArgumentsStay DEF HandedOver
  <1>4. HoldsWord(m2, base, Len(argv))
    BY <1>1, <1>2, WordStays DEF HandedOver
  <1>5. ASSUME NEW n \in 1 .. Len(argv) + 1, NEW v, HoldsWord(m, base + WORD * n, v)
        PROVE  HoldsWord(m2, base + WORD * n, v)
    <2>1. PICK w \in Nat : w = WORD * n
      BY <1>1
    <2>2. base + w \in Int /\ base <= base + w
      BY <1>1
    <2>3. HoldsWord(m, base + w, v)
      BY <1>5, <2>1
    <2> QED  BY <1>1, <1>2, <2>1, <2>2, <2>3, WordStays
  <1>6. HoldsWord(m2, base + WORD * (Len(argv) + 1), 0)
    <2>1. Len(argv) + 1 \in 1 .. Len(argv) + 1
      BY <1>1
    <2>2. HoldsWord(m, base + WORD * (Len(argv) + 1), 0)
      BY Zenon DEF HandedOver
    <2> QED  BY Zenon, <1>5, <2>1, <2>2
  <1>7. ASSUME NEW n \in 1 .. Len(argv)  PROVE HoldsWord(m2, base + WORD * n, temp_argv[n])
    <2>1. n \in 1 .. Len(argv) + 1
      BY <1>1
    <2>2. HoldsWord(m, base + WORD * n, temp_argv[n])
      BY Zenon DEF HandedOver
    <2> QED  BY Zenon, <1>5, <2>1, <2>2
  <1> QED  BY <1>1, <1>3, <1>4, <1>6, <1>7 DEF HandedOver


\* The bytes that the first n arguments take.
LEMMA UsedIs ==
  ASSUME NEW a \in Seq(Nat)
  PROVE  /\ Used(a)[0] = 0 /\ Len(a) \in Nat
         /\ \A n \in 0 .. Len(a) : Used(a)[n] \in Nat /\ Used(a)[n] <= Used(a)[Len(a)]
         /\ \A n \in 1 .. Len(a) : Used(a)[n] = Used(a)[n - 1] + (a[n] + 1)
  <1>1. PICK l \in Nat : l = Len(a) /\ \A n \in 1 .. l : a[n] \in Nat
    OBVIOUS
  <1> DEFINE Step(x, k) == IF k <= l THEN x + (a[k] + 1) ELSE x
             G == [k \in Nat |-> [x \in Nat |-> Step(x, k + 1)]]
             Body(f) == [n \in 0 .. l |-> IF n = 0 THEN 0 ELSE f[n - 1] + (a[n] + 1)]
             N == CHOOSE f : f = Body(f)
  <1>2. ASSUME NEW x \in Nat, NEW k \in Nat  PROVE Step(x, k + 1) \in Nat
    BY <1>1
  <1> HIDE DEF Step
  <1>3. CountedMaps(G, Nat)
    BY <1>2 DEF CountedMaps, Maps
  <1>4. PICK h : h \in [Nat -> Nat] /\ h[0] = 0 /\ \A k \in Nat : h[k + 1] = G[k][h[k]]
    <2> HIDE DEF G
    <2>1. PICK h : CountedSolves(h, Nat, 0, G)
      BY <1>3, CountedRecursion
    <2> QED  BY <2>1 DEF CountedSolves
  <1>5. \A k \in Nat : h[k + 1] = Step(h[k], k + 1)
    BY <1>4
  <1>6. \A k \in 0 .. l - 1 : h[k + 1] = h[k] + (a[k + 1] + 1)
    BY <1>5 DEF Step
  <1> DEFINE g == [n \in 0 .. l |-> h[n]]
  <1>7. g = Body(g)
    <2>1. ASSUME NEW n \in 0 .. l
          PROVE  h[n] = IF n = 0 THEN 0 ELSE g[n - 1] + (a[n] + 1)
      <3>1. CASE n = 0
        BY <1>4, <3>1
      <3>2. CASE n # 0
        <4>1. n - 1 \in 0 .. l - 1 /\ (n - 1) + 1 = n /\ g[n - 1] = h[n - 1]
          BY <3>2
        <4> HIDE DEF g
        <4> QED  BY <1>6, <3>2, <4>1
      <3> QED  BY <3>1, <3>2
    <2> QED  BY <2>1
  <1> HIDE DEF g
  <1>8. N = Body(N)
    BY <1>7
  <1>9. Used(a) = N
    BY <1>1 DEF Used
  <1> HIDE DEF N
  <1>10. N[0] = 0 /\ \A n \in 1 .. l : N[n] = N[n - 1] + (a[n] + 1)
    BY <1>8
  <1>11. \A n \in Nat : n <= l => N[n] = h[n]
    <2> DEFINE A == {n \in Nat : n <= l => N[n] = h[n]}
    <2>1. 0 \in A
      BY <1>4, <1>10
    <2>2. ASSUME NEW k \in Nat, k \in A  PROVE k + 1 \in A
      <3>1. CASE k + 1 <= l
        <4>1. k \in 0 .. l - 1 /\ k + 1 \in 1 .. l /\ (k + 1) - 1 = k
          BY <3>1
        <4>2. N[k] = h[k]
          BY <2>2, <3>1
        <4> QED  BY <1>6, <1>10, <4>1, <4>2
      <3> QED  BY <3>1
    <2> HIDE DEF A
    <2>3. \A k \in Nat : k \in A
      BY <2>1, <2>2, Induct
    <2> QED  BY <2>3 DEF A
  <1>12. \A n \in 0 .. l : N[n] \in Nat
    BY <1>4, <1>11
  <1>13. \A n \in Nat : n <= l => N[l - n] <= N[l]
    <2> DEFINE A == {n \in Nat : n <= l => N[l - n] <= N[l]}
    <2>1. 0 \in A
      BY <1>12
    <2>2. ASSUME NEW k \in Nat, k \in A  PROVE k + 1 \in A
      <3>1. CASE k + 1 <= l
        <4>1. PICK j \in 1 .. l : j = l - k /\ j - 1 = l - (k + 1) /\ j - 1 \in 0 .. l
          BY <3>1
        <4>2. N[j] <= N[l] /\ N[j] = N[j - 1] + (a[j] + 1)
          BY <1>10, <2>2, <3>1, <4>1
        <4>3. N[j - 1] \in Nat /\ N[l] \in Nat /\ a[j] \in Nat
          BY <1>1, <1>12, <4>1
        <4>4. N[j - 1] <= N[l]
          BY <4>2, <4>3
        <4> QED  BY <4>1, <4>4
      <3> QED  BY <3>1
    <2> HIDE DEF A
    <2>3. \A k \in Nat : k \in A
      BY <2>1, <2>2, Induct
    <2> QED  BY <2>3 DEF A
  <1>14. ASSUME NEW n \in 0 .. l  PROVE N[n] <= N[l]
    <2>1. l - n \in Nat /\ l - n <= l /\ l - (l - n) = n
      OBVIOUS
    <2> QED  BY <1>13, <2>1
  <1> QED  BY <1>1, <1>9, <1>10, <1>12, <1>14

-----------------------------------------------------------------------------
(* Programs: the invariant                                                 *)

\* Segment s is in memory m, on pages p of the program's.
SegmentIn(m, p, s) ==
  \A k \in 0 .. s.mem_size - 1 :
    /\ s.vaddr + k \in DOMAIN m /\ PageOf(s.vaddr + k) \in p
    /\ m[s.vaddr + k] = IF k < s.file_size THEN FileByte(s.offset + k) ELSE Zero

Image(m, p, c) == \A n \in 1 .. c : program.segments[n].loadable => SegmentIn(m, p, program.segments[n])

LoadInv ==
  /\ program \in Programs /\ argv \in Arguments
  /\ step \in {"new_stack", "arguments", "elf_load", "segments", "user", "fault"}
  /\ step = "new_stack" => nth = 1 /\ temp_argv = <<>>
  /\ step # "new_stack" => Low .. STACK_TOP - 1 \subseteq DOMAIN memory
  /\ step = "arguments" =>
       /\ nth \in 1 .. Len(argv) + 1 /\ stack_base = STACK_TOP - Used(argv)[nth - 1]
       /\ ArgumentsAt(memory, stack_base, temp_argv, nth - 1)
  /\ step \in {"elf_load", "segments", "user"} => HandedOver(memory, stack_base)
  /\ step = "elf_load" => nth = 1
  /\ step = "segments" /\ program.type = "exec" =>
       nth \in 1 .. Len(program.segments) + 1 /\ (WellPlaced => Image(memory, user_pages, nth - 1))
  /\ step = "user" /\ eip # 0 /\ program.type = "exec" /\ WellPlaced =>
       Image(memory, user_pages, Len(program.segments))
  /\ step = "fault" => ~WellPlaced

-----------------------------------------------------------------------------
(* Programs: the steps                                                     *)

LEMMA InputIs ==
  ASSUME LoaderAssumption, InputAssumption, LoadInv
  PROVE  /\ argv \in Seq(Nat) /\ Len(argv) \in Nat /\ FitsTheStack(argv) /\ Linked(program.segments)
         /\ program.segments \in Seq(Headers) /\ Len(program.segments) \in Nat
         /\ program.type \in {"rel", "exec"}
  <1>1. argv \in Seq(Nat) /\ FitsTheStack(argv) /\ Linked(program.segments) /\ program.type \in {"rel", "exec"}
    BY DEF LoadInv, InputAssumption, LoaderAssumption
  <1>2. program.segments \in Seq(Headers)
    BY <1>1 DEF Linked
  <1> QED  BY <1>1, <1>2, LenProperties

LEMMA NewStackKeeps ==
  ASSUME LoaderAssumption, InputAssumption, LoadInv, new_stack  PROVE LoadInv'
  <1> DEFINE pages == {STACK_TOP - n * PAGE : n \in 1 .. STACK_PAGES}
  <1>1. ASSUME NEW a \in Low .. STACK_TOP - 1  PROVE a \in Mapped(pages)
    <2>1. PICK p, m, q \in Nat : /\ p = PAGE /\ p # 0 /\ m = STACK_PAGES /\ Low = q * p
                                 /\ STACK_TOP = (q + m) * p
      BY LoaderNumbers
    <2>2. a \in Nat /\ Low \in Nat /\ STACK_TOP \in Nat
      BY LoaderNumbers
    <2>3. PICK k \in Nat : PageOf(a) = k * p
      BY <2>1, <2>2, PageOfIs
    <2>4. q * p <= k * p /\ k * p < (q + m) * p /\ k * p \in Nat /\ (q + m) * p \in Nat
      <3>1. PageOf(a) \in Low .. STACK_TOP - 1
        BY StackPage
      <3> QED  BY <2>1, <2>2, <2>3, <3>1
    <2>5. q <= k
      <3> SUFFICES ASSUME k < q  PROVE FALSE
        OBVIOUS
      <3>1. (k + 1) * p <= q * p
        BY Monotone
      <3>2. (k + 1) * p = k * p + p
        OBVIOUS
      <3> QED  BY <2>1, <2>4, <3>1, <3>2
    <2>6. k < q + m
      <3> SUFFICES ASSUME q + m <= k  PROVE FALSE
        OBVIOUS
      <3>1. (q + m) * p <= k * p
        BY Monotone
      <3> QED  BY <2>4, <3>1
    <2>7. PICK n \in 1 .. m : k + n = q + m
      <3>1. q + m - k \in 1 .. m /\ k + (q + m - k) = q + m
        BY <2>5, <2>6
      <3> QED  BY <3>1
    <2>8. PageOf(a) = STACK_TOP - n * PAGE
      <3>1. (k + n) * p = k * p + n * p /\ k * p \in Nat /\ n * p \in Nat
        OBVIOUS
      <3> QED  BY <2>1, <2>3, <2>7, <3>1
    <2>9. PageOf(a) \in pages /\ a \in Page(PageOf(a))
      BY <2>1, <2>2, <2>8, PageOfIs
    <2> QED  BY <2>9 DEF Mapped
  <1>2. /\ memory' = [a \in Mapped(pages) |-> Junk] /\ stack_base' = STACK_TOP /\ step' = "arguments"
        /\ program' = program /\ argv' = argv /\ temp_argv' = temp_argv /\ nth' = nth
    BY DEF new_stack
  <1> HIDE DEF pages
  <1>3. Low .. STACK_TOP - 1 \subseteq DOMAIN memory'
    BY <1>1, <1>2
  <1>4. nth = 1 /\ temp_argv = <<>> /\ program \in Programs /\ argv \in Arguments
    BY DEF LoadInv, new_stack
  <1>5. nth' \in 1 .. Len(argv) + 1 /\ stack_base' = STACK_TOP - Used(argv)[nth' - 1]
    <2>1. Used(argv)[0] = 0 /\ Len(argv) \in Nat /\ STACK_TOP \in Nat
      BY InputIs, UsedIs, LoaderNumbers
    <2>2. nth' = 1 /\ 1 - 1 = 0
      BY <1>2, <1>4
    <2> QED  BY <1>2, <2>1, <2>2
  <1>6. ArgumentsAt(memory, stack_base, temp_argv, nth - 1)'
    <2>1. temp_argv' \in Seq(Int) /\ Len(temp_argv') = 0 /\ nth' - 1 = 0
      BY <1>2, <1>4
    <2> QED  BY <2>1 DEF ArgumentsAt
  <1> QED  BY <1>2, <1>3, <1>4, <1>5, <1>6 DEF LoadInv

\* A copy into the stack below what is there.
LEMMA CopiedBelow ==
  ASSUME LoaderAssumption, Low .. STACK_TOP - 1 \subseteq DOMAIN memory, NEW bytes, NEW base \in Int,
         base <= STACK_TOP, Low <= base, DOMAIN bytes \subseteq Low .. base - 1, NEW then,
         Copies(memory, bytes, then)
  PROVE  /\ step' = then /\ Low .. STACK_TOP - 1 \subseteq DOMAIN memory' /\ SameFrom(memory, memory', base)
         /\ \A a \in DOMAIN bytes : memory'[a] = bytes[a]
  <1>1. Low \in Nat /\ STACK_TOP \in Nat
    BY LoaderNumbers
  <1>2. DOMAIN bytes \subseteq DOMAIN memory
    BY <1>1
  <1>3. /\ step' = then /\ DOMAIN memory' = DOMAIN memory
        /\ \A a \in DOMAIN bytes : memory'[a] = bytes[a]
        /\ \A a \in DOMAIN memory : a \notin DOMAIN bytes => memory'[a] = memory[a]
    BY <1>2, CopiedIn
  <1>4. ASSUME NEW a \in base .. STACK_TOP - 1  PROVE memory'[a] = memory[a]
    <2>1. a \in Low .. STACK_TOP - 1 /\ a \notin DOMAIN bytes
      BY <1>1
    <2> QED  BY <1>3, <2>1
  <1> QED  BY <1>3, <1>4 DEF SameFrom


\* The bytes of one more argument, of those that all take, below the stack's
\* top.
LEMMA RoomBelow ==
  ASSUME NEW t \in Nat, NEW low \in Nat, NEW u \in Nat, NEW v \in Nat, NEW used \in Nat, NEW w \in Nat,
         NEW z \in Nat, NEW k \in Nat, v = u + (k + 1), v <= used, used + w <= z, low = t - z,
         NEW sb \in Int, NEW base \in Int, sb = t - u, base = sb - (k + 1)
  PROVE  /\ base = t - v /\ low <= base /\ base <= sb /\ sb <= t
         /\ base + k = sb - 1 /\ base + k < t /\ low <= sb
  OBVIOUS

LEMMA CopyKeeps ==
  ASSUME LoaderAssumption, InputAssumption, LoadInv, copy_argument  PROVE LoadInv'
  <1>1. PICK l, n \in Nat \ {0} : l = Len(argv) + 1 /\ n = nth /\ n < l /\ argv[n] \in Nat
    <2>1. nth \in 1 .. Len(argv) + 1 /\ nth <= Len(argv)
      BY DEF LoadInv, copy_argument
    <2>2. argv \in Seq(Nat) /\ Len(argv) \in Nat
      BY InputIs
    <2>3. argv[nth] \in Nat
      BY <2>1, <2>2
    <2> QED  BY <2>1, <2>2, <2>3
  <1>2. /\ Used(argv)[n - 1] \in Nat /\ Used(argv)[n] \in Nat /\ Used(argv)[l - 1] \in Nat
        /\ Used(argv)[n] = Used(argv)[n - 1] + (argv[n] + 1) /\ Used(argv)[n] <= Used(argv)[l - 1]
    <2>1. Len(argv) = l - 1 /\ n - 1 \in 0 .. l - 1 /\ n \in 0 .. l - 1 /\ n \in 1 .. l - 1 /\ l - 1 \in 0 .. l - 1
      BY <1>1, InputIs
    <2> QED  BY <2>1, InputIs, UsedIs
  <1>3. stack_base = STACK_TOP - Used(argv)[n - 1] /\ ArgumentsAt(memory, stack_base, temp_argv, n - 1)
    BY <1>1 DEF LoadInv, copy_argument
  <1>22. PICK t, low, u, v, used, w, z \in Nat :
           /\ t = STACK_TOP /\ low = Low /\ u = Used(argv)[n - 1] /\ v = Used(argv)[n]
           /\ used = Used(argv)[l - 1] /\ w = WORD * (Len(argv) + 2) /\ z = STACK_PAGES * PAGE
    <2>1. PICK c \in Nat : c = Len(argv) + 2
      BY InputIs
    <2>2. WORD * c \in Nat /\ STACK_PAGES * PAGE \in Nat /\ STACK_TOP \in Nat /\ Low \in Nat
      BY LoaderNumbers
    <2> QED  BY Zenon, <1>2, <2>1, <2>2
  <1>23. PICK k \in Nat : k = argv[n]
    BY <1>1
  <1>24. v = u + (k + 1) /\ v <= used /\ used + w <= z /\ low = t - z
    <2>1. Used(argv)[Len(argv)] + WORD * (Len(argv) + 2) <= STACK_PAGES * PAGE
      BY InputIs DEF FitsTheStack
    <2>2. Len(argv) = l - 1
      BY <1>1, InputIs
    <2>3. used + w <= z
      BY Zenon, <1>22, <2>1, <2>2
    <2>4. low = t - z
      BY Zenon, <1>22 DEF Low
    <2>5. v = u + (k + 1) /\ v <= used
      BY Zenon, <1>2, <1>22, <1>23
    <2> QED  BY <2>3, <2>4, <2>5
  <1>4. PICK sb, base \in Int : sb = stack_base /\ base = stack_base - (argv[n] + 1) /\ sb = t - u
                               /\ base = sb - (k + 1)
    <2>1. PICK sb \in Int : sb = t - u
      OBVIOUS
    <2>2. PICK base \in Int : base = sb - (k + 1)
      OBVIOUS
    <2> QED  BY Zenon, <1>3, <1>22, <1>23, <2>1, <2>2
  <1>51. /\ base = t - v /\ low <= base /\ base <= sb /\ sb <= t
         /\ base + k = sb - 1 /\ base + k < t /\ low <= sb
    <2>1. sb = t - u /\ base = sb - (k + 1)
      BY Zenon, <1>4
    <2>2. v = u + (k + 1) /\ v <= used /\ used + w <= z /\ low = t - z
      BY Zenon, <1>24
    <2>3. sb \in Int /\ base \in Int
      BY Zenon, <1>4
    <2>4. t \in Nat /\ low \in Nat /\ u \in Nat /\ v \in Nat /\ used \in Nat /\ w \in Nat /\ z \in Nat /\ k \in Nat
      BY Zenon, <1>22, <1>23
    <2> QED  BY <2>1, <2>2, <2>3, <2>4, RoomBelow
  <1>5. /\ base = STACK_TOP - Used(argv)[n] /\ Low <= base /\ base <= sb /\ sb <= STACK_TOP
        /\ base + argv[n] = sb - 1 /\ base + argv[n] < STACK_TOP
    BY Zenon, <1>51, <1>22, <1>23
  <1>6. PICK bytes : bytes = [a \in base .. base + argv[n] |->
                                IF a = base + argv[n] THEN Zero ELSE Char(n, a - base)]
    OBVIOUS
  <1>7. /\ Copies(memory, bytes, "arguments") /\ stack_base' = base /\ temp_argv' = Append(temp_argv, base)
        /\ nth' = n + 1 /\ program' = program /\ argv' = argv
    BY <1>1, <1>4, <1>6 DEF copy_argument
  <1>8. Low .. STACK_TOP - 1 \subseteq DOMAIN memory
    BY DEF LoadInv, copy_argument
  <1>9. /\ step' = "arguments" /\ Low .. STACK_TOP - 1 \subseteq DOMAIN memory'
        /\ SameFrom(memory, memory', sb) /\ \A a \in DOMAIN bytes : memory'[a] = bytes[a]
    <2>1. base .. base + k \subseteq low .. sb - 1
      BY <1>51
    <2>2. DOMAIN bytes \subseteq Low .. sb - 1 /\ Low <= sb
      BY <1>6, <1>22, <1>23, <1>51, <2>1
    <2> QED  BY <1>5, <1>7, <1>8, <2>2, CopiedBelow
  <1>10. Located(memory', n, argv[n], base)
    <2>1. ASSUME NEW j \in 0 .. k - 1  PROVE memory'[base + j] = Char(n, j)
      <3>1. base + j \in base .. base + k /\ base + j # base + k /\ (base + j) - base = j
        OBVIOUS
      <3> QED  BY <1>6, <1>9, <1>23, <3>1
    <2>2. memory'[base + argv[n]] = Zero
      <3>1. base + k \in base .. base + k
        OBVIOUS
      <3> QED  BY <1>6, <1>9, <1>23, <3>1
    <2> QED  BY <1>5, <1>23, <2>1, <2>2 DEF Located
  <1>11. ArgumentsAt(memory', base, temp_argv, n - 1)
    <2>1. n - 1 \in 0 .. Len(argv) /\ argv \in Seq(Nat)
      BY <1>1, InputIs
    <2>2. SameFrom(memory, memory', sb) /\ ArgumentsAt(memory, sb, temp_argv, n - 1) /\ base <= sb
      BY Zenon, <1>3, <1>4, <1>5, <1>9
    <2> QED  BY <2>1, <2>2, ArgumentsStay
  <1>12. ArgumentsAt(memory', base, Append(temp_argv, base), n)
    <2>1. PICK ta : ta = Append(temp_argv, base)
      OBVIOUS
    <2>2. temp_argv \in Seq(Int) /\ Len(temp_argv) = n - 1
      BY <1>3 DEF ArgumentsAt
    <2>3. ta \in Seq(Int) /\ Len(ta) = n /\ ta[n] = base /\ \A j \in 1 .. n - 1 : ta[j] = temp_argv[j]
      BY <2>1, <2>2
    <2>4. ASSUME NEW j \in 1 .. n  PROVE base <= ta[j] /\ Located(memory', j, argv[j], ta[j])
      <3>1. CASE j = n
        BY <1>10, <2>3, <3>1
      <3>2. CASE j # n
        <4>1. j \in 1 .. n - 1
          BY <3>2
        <4> QED  BY <1>11, <2>3, <4>1 DEF ArgumentsAt
      <3> QED  BY <3>1, <3>2
    <2>5. ArgumentsAt(memory', base, ta, n)
      BY <2>3, <2>4 DEF ArgumentsAt
    <2> QED  BY Zenon, <2>1, <2>5
  <1>13. ArgumentsAt(memory, stack_base, temp_argv, nth - 1)'
    <2>1. nth' - 1 = n
      BY <1>7
    <2>2. ArgumentsAt(memory', stack_base', temp_argv', n)
      BY Zenon, <1>7, <1>12
    <2> QED  BY <1>7, <2>1, <2>2 DEF ArgumentsAt
  <1>14. nth' \in 1 .. Len(argv') + 1 /\ stack_base' = STACK_TOP - Used(argv')[nth' - 1]
    <2>1. nth' - 1 = n /\ argv' = argv
      BY <1>7
    <2>2. nth' \in 1 .. Len(argv) + 1
      BY <1>1, <1>7
    <2> QED  BY <1>5, <1>7, <2>1, <2>2
  <1>15. program' \in Programs /\ argv' \in Arguments
    BY <1>7 DEF LoadInv
  <1> QED  BY <1>9, <1>13, <1>14, <1>15 DEF LoadInv


\* The words of add_entrance_args.
WordsAre(w, x, s) ==
  /\ w \in Seq(Int) /\ Len(w) = Len(s) + 2 /\ w[1] = x /\ w[Len(s) + 2] = 0
  /\ \A n \in 1 .. Len(s) : w[n + 1] = s[n]

LEMMA WordsJoined ==
  ASSUME NEW x \in Int, NEW s \in Seq(Int)
  PROVE  WordsAre(<<x>> \o s \o <<0>>, x, s)
  <1>1. PICK q, e \in Seq(Int) : q = <<x>> /\ Len(q) = 1 /\ q[1] = x /\ e = <<0>> /\ Len(e) = 1 /\ e[1] = 0
    <2>1. <<x>> \in Seq(Int) /\ Len(<<x>>) = 1 /\ <<x>>[1] = x
      BY OneElement
    <2>2. <<0>> \in Seq(Int) /\ Len(<<0>>) = 1 /\ <<0>>[1] = 0
      BY OneElement
    <2> QED  BY Zenon, <2>1, <2>2
  <1>2. PICK c \in Nat : c = Len(s)
    BY LenProperties
  <1>3. PICK p \in Seq(Int) : /\ p = q \o s /\ Len(p) = 1 + c
                              /\ \A n \in 1 .. 1 + c : p[n] = IF n <= 1 THEN q[n] ELSE s[n - 1]
    <2>1. /\ q \o s \in Seq(Int) /\ Len(q \o s) = Len(q) + Len(s)
          /\ \A n \in 1 .. Len(q) + Len(s) : (q \o s)[n] = IF n <= Len(q) THEN q[n] ELSE s[n - Len(q)]
      BY ConcatProperties, ZenonT(20)
    <2> QED  BY Zenon, <1>1, <1>2, <2>1
  <1>4. PICK w \in Seq(Int) : /\ w = p \o e /\ Len(w) = (1 + c) + 1
                              /\ \A n \in 1 .. (1 + c) + 1 :
                                   w[n] = IF n <= 1 + c THEN p[n] ELSE e[n - (1 + c)]
    <2>1. p \in Seq(Int) /\ e \in Seq(Int)
      BY <1>1, <1>3
    <2>2. /\ p \o e \in Seq(Int) /\ Len(p \o e) = Len(p) + Len(e)
          /\ \A n \in 1 .. Len(p) + Len(e) : (p \o e)[n] = IF n <= Len(p) THEN p[n] ELSE e[n - Len(p)]
      BY <2>1, ConcatProperties, ZenonT(20)
    <2>3. Len(p) = 1 + c /\ Len(e) = 1
      BY <1>1, <1>3
    <2> QED  BY ZenonT(20), <2>2, <2>3
  <1>5. w[1] = x
    BY <1>1, <1>2, <1>3, <1>4
  <1>6. w[c + 2] = 0
    <2>1. c + 2 \in 1 .. (1 + c) + 1 /\ ~(c + 2 <= 1 + c) /\ (c + 2) - (1 + c) = 1
      BY <1>2
    <2> QED  BY <1>1, <1>4, <2>1
  <1>7. ASSUME NEW n \in 1 .. c  PROVE w[n + 1] = s[n]
    <2>1. n + 1 \in 1 .. (1 + c) + 1 /\ n + 1 <= 1 + c /\ ~(n + 1 <= 1) /\ (n + 1) - 1 = n /\ n + 1 \in 1 .. 1 + c
      BY <1>2
    <2> QED  BY <1>3, <1>4, <2>1
  <1>8. Len(w) = c + 2
    BY <1>2, <1>4
  <1>9. WordsAre(w, x, s)
    BY <1>2, <1>5, <1>6, <1>7, <1>8 DEF WordsAre
  <1>10. w = <<x>> \o s \o <<0>>
    BY Zenon, <1>1, <1>3, <1>4
  <1> QED  BY Zenon, <1>9, <1>10

\* Word j of c words at base.
LEMMA WordOf ==
  ASSUME NEW W \in Nat \ {0}, NEW c \in Nat, NEW base \in Int, NEW j \in 0 .. c - 1, NEW k \in 0 .. W - 1,
         NEW a, a = base + W * j + k
  PROVE  /\ a \in base .. base + W * c - 1
         /\ (a - base) \div W = j /\ (a - base) % W = k
         /\ base <= base + W * j /\ base + W * j + W <= base + W * c
  <1>1. PICK y, z \in Nat : y = W * j /\ z = W * c
    OBVIOUS
  <1>2. y + W <= z
    <2>1. (j + 1) * W <= c * W
      BY Monotone
    <2>2. (j + 1) * W = W * j + W /\ c * W = W * c
      OBVIOUS
    <2> QED  BY <1>1, <2>1, <2>2
  <1>3. a - base = y + k /\ y + k \in Nat
    BY <1>1
  <1>4. y + k = j * W + k
    BY <1>1
  <1>5. (y + k) \div W = j /\ (y + k) % W = k
    <2>1. j \in Nat
      OBVIOUS
    <2> QED  BY <1>3, <1>4, <2>1, Quotient
  <1>6. a \in base .. base + z - 1 /\ base <= base + y /\ base + y + W <= base + z
    BY <1>1, <1>2, <1>3
  <1> QED  BY <1>1, <1>3, <1>5, <1>6

LEMMA EntranceKeeps ==
  ASSUME LoaderAssumption, InputAssumption, LoadInv, add_entrance_args  PROVE LoadInv'
  <1>1. PICK c \in Nat : c = Len(argv) /\ nth = c + 1
    <2>1. nth \in 1 .. Len(argv) + 1 /\ nth > Len(argv)
      BY DEF LoadInv, add_entrance_args
    <2> QED  BY <2>1, InputIs
  <1>2. stack_base = STACK_TOP - Used(argv)[c] /\ ArgumentsAt(memory, stack_base, temp_argv, c)
    <2>1. nth - 1 = c /\ step = "arguments"
      BY <1>1 DEF add_entrance_args
    <2> QED  BY <2>1 DEF LoadInv
  <1>3. temp_argv \in Seq(Int) /\ Len(temp_argv) = c
    BY <1>2 DEF ArgumentsAt
  <1>4. PICK words : words = <<Len(argv)>> \o temp_argv \o <<0>> /\ WordsAre(words, c, temp_argv)
    <2>1. c \in Int
      BY <1>1
    <2>2. WordsAre(<<c>> \o temp_argv \o <<0>>, c, temp_argv)
      BY <1>3, <2>1, WordsJoined
    <2> QED  BY Zenon, <1>1, <2>2
  <1>5. Len(words) = c + 2
    BY <1>3, <1>4 DEF WordsAre
  <1>6. PICK W \in Nat \ {0} : W = WORD
    BY LoaderNumbers
  <1>7. PICK t, low, used, w, z \in Nat :
          /\ t = STACK_TOP /\ low = Low /\ used = Used(argv)[c] /\ w = W * (c + 2) /\ z = STACK_PAGES * PAGE
    <2>1. W * (c + 2) \in Nat
      BY <1>1, <1>6
    <2>2. STACK_PAGES * PAGE \in Nat /\ STACK_TOP \in Nat /\ Low \in Nat
      BY LoaderNumbers
    <2>3. Used(argv)[c] \in Nat
      <3>1. c \in 0 .. Len(argv)
        BY <1>1
      <3> QED  BY <3>1, InputIs, UsedIs
    <2> QED  BY Zenon, <2>1, <2>2, <2>3
  <1>8. used + w <= z /\ low = t - z
    <2>1. Used(argv)[Len(argv)] + WORD * (Len(argv) + 2) <= STACK_PAGES * PAGE
      BY InputIs DEF FitsTheStack
    <2> QED  BY Zenon, <1>1, <1>6, <1>7, <2>1 DEF Low
  <1>9. PICK sb, base \in Int : /\ sb = stack_base /\ sb = t - used
                                /\ base = sb - w /\ base = stack_base - WORD * Len(words)
    <2>1. PICK sb \in Int : sb = t - used
      BY <1>7
    <2>2. PICK base \in Int : base = sb - w
      BY <1>7, <2>1
    <2> QED  BY Zenon, <1>2, <1>5, <1>6, <1>7, <2>1, <2>2
  <1>10. low <= base /\ base <= sb /\ sb <= t /\ low <= sb /\ base + w = sb
    <2>1. /\ t \in Nat /\ low \in Nat /\ used \in Nat /\ w \in Nat /\ z \in Nat /\ sb \in Int /\ base \in Int
          /\ used + w <= z /\ low = t - z /\ sb = t - used /\ base = sb - w
      BY Zenon, <1>7, <1>8, <1>9
    <2> QED  BY <2>1
  <1>11. PICK bytes : bytes = [a \in base .. stack_base - 1 |->
                                 WordByte(words[(a - base) \div WORD + 1], (a - base) % WORD)]
    OBVIOUS
  <1>12. /\ Copies(memory, bytes, "elf_load") /\ stack_base' = base /\ nth' = 1
         /\ program' = program /\ argv' = argv /\ temp_argv' = temp_argv
    <2>1. base = stack_base - WORD * Len(words)
      BY <1>9
    <2> HIDE DEF WordByte
    <2> QED  BY <1>4, <1>11, <2>1 DEF add_entrance_args
  <1>13. Low .. STACK_TOP - 1 \subseteq DOMAIN memory
    BY DEF LoadInv, add_entrance_args
  <1>19. w \in Nat /\ low \in Nat /\ t \in Nat /\ sb \in Int /\ base \in Int
    BY Zenon, <1>7, <1>9
  <1>14. DOMAIN bytes = base .. base + w - 1 /\ DOMAIN bytes \subseteq Low .. sb - 1
    <2>1. base .. sb - 1 \subseteq low .. sb - 1
      BY <1>10, <1>19
    <2>2. DOMAIN bytes = base .. sb - 1
      BY <1>9, <1>11
    <2>3. base .. sb - 1 = base .. base + w - 1
      BY <1>10
    <2>4. low = Low
      BY <1>7
    <2> QED  BY Zenon, <2>1, <2>2, <2>3, <2>4
  <1>15. /\ step' = "elf_load" /\ Low .. STACK_TOP - 1 \subseteq DOMAIN memory'
         /\ SameFrom(memory, memory', sb) /\ \A a \in DOMAIN bytes : memory'[a] = bytes[a]
    <2>1. sb \in Int /\ sb <= STACK_TOP /\ Low <= sb
      BY <1>7, <1>9, <1>10
    <2> QED  BY <1>12, <1>13, <1>14, <2>1, CopiedBelow
  <1>16. ASSUME NEW j \in 0 .. c + 1  PROVE HoldsWord(memory', base + WORD * j, words[j + 1])
    <2>1. PICK n, y \in Nat : n = c + 2 /\ y = W * j /\ j \in 0 .. n - 1 /\ y + W <= w
      <3>1. PICK n \in Nat : n = c + 2 /\ j \in 0 .. n - 1 /\ j \in Nat
        BY <1>1
      <3>2. (j + 1) * W <= n * W
        BY <1>6, <3>1, Monotone
      <3>3. (j + 1) * W = W * j + W /\ n * W = W * n /\ W * j \in Nat
        BY <1>6, <3>1
      <3> QED  BY <1>7, <3>1, <3>2, <3>3
    <2>2. ASSUME NEW k \in 0 .. W - 1  PROVE memory'[base + y + k] = WordByte(words[j + 1], k)
      <3>1. PICK a : a = base + W * j + k
        OBVIOUS
      <3>2. /\ a \in base .. base + W * n - 1 /\ (a - base) \div W = j /\ (a - base) % W = k
        <4>1. W \in Nat \ {0} /\ n \in Nat /\ base \in Int /\ j \in 0 .. n - 1
          BY Zenon, <1>6, <1>19, <2>1
        <4> QED  BY SMTT(30), <3>1, <4>1, WordOf
      <3>3. a \in DOMAIN bytes
        BY Zenon, <1>7, <1>14, <2>1, <3>2
      <3>4. bytes[a] = WordByte(words[(a - base) \div WORD + 1], (a - base) % WORD)
        BY <1>11, <1>14, <3>3
      <3> QED  BY Zenon, <1>6, <1>15, <2>1, <3>1, <3>2, <3>3, <3>4
    <2>3. Low <= base + y /\ (base + y) + WORD <= STACK_TOP
      <3>1. y \in Nat /\ W \in Nat /\ y + W <= w
        BY <1>6, <2>1
      <3>2. low <= base + y /\ (base + y) + W <= t
        BY <1>10, <1>19, <3>1
      <3> QED  BY Zenon, <1>6, <1>7, <3>2
    <2>4. HoldsWord(memory', base + y, words[j + 1])
      BY <1>6, <2>2, <2>3 DEF HoldsWord
    <2> QED  BY Zenon, <1>6, <2>1, <2>4
  <1>17. HandedOver(memory, stack_base)'
    <2>1. base \in Int /\ Low <= base
      BY <1>7, <1>9, <1>10
    <2>2. ArgumentsAt(memory', base, temp_argv, c)
      <3>1. c \in 0 .. Len(argv) /\ argv \in Seq(Nat) /\ sb \in Int /\ base <= sb
        BY <1>1, <1>9, <1>10, InputIs
      <3>2. ArgumentsAt(memory, sb, temp_argv, c) /\ SameFrom(memory, memory', sb)
        BY Zenon, <1>2, <1>9, <1>15
      <3> QED  BY <2>1, <3>1, <3>2, ArgumentsStay
    <2>3. HoldsWord(memory', base, c)
      <3>1. 0 \in 0 .. c + 1 /\ 0 + 1 = 1 /\ base + WORD * 0 = base
        BY <1>1, <1>6, <1>9
      <3>2. words[1] = c
        BY <1>4 DEF WordsAre
      <3>3. HoldsWord(memory', base + WORD * 0, words[0 + 1])
        BY Zenon, <1>16, <3>1
      <3> QED  BY Zenon, <3>1, <3>2, <3>3
    <2>4. HoldsWord(memory', base + WORD * (c + 1), 0)
      <3>1. c + 1 \in 0 .. c + 1 /\ (c + 1) + 1 = c + 2
        BY <1>1
      <3>2. words[c + 2] = 0
        BY <1>3, <1>4 DEF WordsAre
      <3>3. HoldsWord(memory', base + WORD * (c + 1), words[(c + 1) + 1])
        BY Zenon, <1>16, <3>1
      <3> QED  BY Zenon, <3>1, <3>2, <3>3
    <2>5. ASSUME NEW n \in 1 .. c  PROVE HoldsWord(memory', base + WORD * n, temp_argv[n])
      <3>1. n \in 0 .. c + 1
        BY <1>1
      <3>2. words[n + 1] = temp_argv[n]
        BY <1>3, <1>4 DEF WordsAre
      <3>3. HoldsWord(memory', base + WORD * n, words[n + 1])
        BY Zenon, <1>16, <3>1
      <3> QED  BY Zenon, <3>2, <3>3
    <2>6. HandedOver(memory', base)
      BY Zenon, <1>1, <2>1, <2>2, <2>3, <2>4, <2>5 DEF HandedOver
    <2> QED  BY <1>12, <2>6 DEF HandedOver, ArgumentsAt
  <1>18. program' \in Programs /\ argv' \in Arguments
    BY <1>12 DEF LoadInv
  <1> QED  BY <1>12, <1>15, <1>17, <1>18 DEF LoadInv


\* The pages of a segment end behind it.
LEMMA EndsBehind ==
  ASSUME PAGE \in Nat \ {0}, NEW s \in Headers, s.mem_size > 0, EndsInPage(s)
  PROVE  s.vaddr + s.mem_size <= bss_end(PageOf(s.vaddr) + s.mem_size)
  <1>1. PICK v, m \in Nat : v = s.vaddr /\ m = s.mem_size /\ m > 0
    BY DEF Headers
  <1>2. PICK b \in Nat : b = PageOf(v)
    BY <1>1, PageOfIs
  <1>3. PICK q, z \in Nat : z = q * PAGE /\ bss_end(b + m) = z /\ b + m <= z
    <2>1. b + m \in Nat
      BY <1>1, <1>2
    <2> QED  BY <2>1, RoundedUp
  <1>4. PICK a \in Nat : a = v + m - 1 /\ a \in v .. v + m - 1
    <2>1. v + m - 1 \in Nat /\ v + m - 1 \in v .. v + m - 1
      BY <1>1
    <2> QED  BY <2>1
  <1>5. PICK d \in Nat : d = PageOf(a)
    BY <1>4, PageOfIs
  <1>6. d < b + m
    BY <1>1, <1>2, <1>4, <1>5 DEF EndsInPage
  <1>7. z <= a => z <= d
    <2>1. q * PAGE <= a => q * PAGE <= PageOf(a)
      BY <1>3, <1>4, PageOfIs
    <2> QED  BY Zenon, <1>3, <1>5, <2>1
  <1>8. a < z
    <2>1. a \in Nat /\ z \in Nat /\ d \in Nat /\ b + m \in Nat
      BY <1>1, <1>2, <1>3, <1>4, <1>5
    <2> QED  BY <1>3, <1>6, <1>7, <2>1
  <1>9. v + m <= z
    BY <1>1, <1>3, <1>4, <1>8
  <1> QED  BY <1>1, <1>2, <1>3, <1>9

\* The pages that umap_pages maps are those of the bytes copied.
LEMMA SegmentReached ==
  ASSUME PAGE \in Nat \ {0}, NEW v \in Nat, NEW end \in Nat, NEW a \in v .. end - 1,
         NEW pages, {p \in PageOf(v) .. end - 1 : p % PAGE = 0} \subseteq pages
  PROVE  PageOf(a) \in pages
  <1>1. a \in Nat /\ v <= a /\ a < end
    OBVIOUS
  <1>2. PICK b, d, k, j \in Nat : b = PageOf(v) /\ d = PageOf(a) /\ b = k * PAGE /\ d = j * PAGE
    BY <1>1, PageOfIs
  <1>3. b <= v /\ d <= a
    BY <1>1, <1>2, PageOfIs
  <1>4. k * PAGE <= a
    BY <1>1, <1>2, <1>3
  <1>5. b <= d
    BY <1>1, <1>2, <1>4, PageOfIs
  <1>6. d % PAGE = 0
    <2>1. d = j * PAGE + 0 /\ 0 \in 0 .. PAGE - 1
      BY <1>2
    <2> QED  BY <1>2, <2>1, Quotient
  <1>7. d \in b .. end - 1
    BY <1>1, <1>2, <1>3, <1>5
  <1> QED  BY <1>2, <1>6, <1>7

\* What a round of elf_load_segments does with a segment that it copies: a
\* segment that ends before its first page stays.
LEMMA SegmentCopied ==
  ASSUME LoaderAssumption, NEW s \in Headers, s.file_size <= s.mem_size,
         NEW end \in Nat, end <= Low, NEW bytes,
         bytes = [a \in s.vaddr .. end - 1 |->
                    IF a < s.vaddr + s.file_size THEN FileByte(s.offset + a - s.vaddr) ELSE Zero],
         user_pages \subseteq user_pages',
         {p \in PageOf(s.vaddr) .. end - 1 : p % PAGE = 0} \subseteq user_pages',
         Low .. STACK_TOP - 1 \subseteq DOMAIN memory,
         Copies(MapFresh(PageOf(s.vaddr), end), bytes, "segments")
  PROVE  /\ step' = "segments" /\ SameFrom(memory, memory', Low)
         /\ \A a \in DOMAIN memory : a \in DOMAIN memory'
         /\ s.vaddr + s.mem_size <= end => SegmentIn(memory', user_pages', s)
         /\ \A r \in Headers :
              r.vaddr + r.mem_size <= PageOf(s.vaddr) /\ SegmentIn(memory, user_pages, r)
                => SegmentIn(memory', user_pages', r)
  <1>1. PAGE \in Nat \ {0} /\ Low \in Nat /\ STACK_TOP \in Nat
    BY LoaderNumbers
  <1>2. PICK v, f, m, o \in Nat : v = s.vaddr /\ f = s.file_size /\ m = s.mem_size /\ o = s.offset /\ f <= m
    BY DEF Headers
  <1>3. PICK b \in Nat : b = PageOf(v) /\ b <= v
    BY <1>1, <1>2, PageOfIs
  <1>4. DOMAIN bytes = v .. end - 1
    BY <1>2
  <1>5. PICK mem : mem = MapFresh(b, end)
    OBVIOUS
  <1>6. /\ DOMAIN mem = DOMAIN memory \cup (b .. end - 1)
        /\ \A a \in DOMAIN memory : a \notin b .. end - 1 => mem[a] = memory[a]
    BY <1>5 DEF MapFresh
  <1>7. v .. end - 1 \subseteq b .. end - 1
    BY <1>2, <1>3
  <1>8. /\ step' = "segments" /\ DOMAIN memory' = DOMAIN mem
        /\ \A a \in v .. end - 1 : memory'[a] = bytes[a]
        /\ \A a \in DOMAIN mem : a \notin v .. end - 1 => memory'[a] = mem[a]
    <2>1. Copies(mem, bytes, "segments") /\ DOMAIN bytes \subseteq DOMAIN mem
      BY <1>2, <1>3, <1>4, <1>5, <1>6, <1>7
    <2>2. /\ step' = "segments" /\ DOMAIN memory' = DOMAIN mem
          /\ \A a \in DOMAIN bytes : memory'[a] = bytes[a]
          /\ \A a \in DOMAIN mem : a \notin DOMAIN bytes => memory'[a] = mem[a]
      BY <2>1 DEF Copies
    <2> QED  BY Zenon, <1>4, <2>2
  <1>9. \A a \in DOMAIN memory :
          a \in DOMAIN memory' /\ (a \notin b .. end - 1 => memory'[a] = memory[a])
    BY <1>6, <1>7, <1>8
  <1>10. SameFrom(memory, memory', Low)
    <2>1. \A a \in Low .. STACK_TOP - 1 : a \notin b .. end - 1
      BY <1>1, <1>3
    <2> QED  BY <1>9, <2>1 DEF SameFrom
  <1>11. v \in Nat /\ f \in Nat /\ m \in Nat /\ o \in Nat /\ f <= m
    BY <1>2
  <1>12. ASSUME v + m <= end  PROVE SegmentIn(memory', user_pages', s)
    <2>1. ASSUME NEW k \in 0 .. m - 1
          PROVE  /\ v + k \in DOMAIN memory' /\ PageOf(v + k) \in user_pages'
                 /\ memory'[v + k] = IF k < f THEN FileByte(o + k) ELSE Zero
      <3>1. v + k \in v .. end - 1
        BY <1>12, <1>11
      <3>2. (v + k < v + f <=> k < f) /\ o + (v + k) - v = o + k
        BY <1>11
      <3>3. bytes[v + k] = IF v + k < v + f THEN FileByte(o + (v + k) - v) ELSE Zero
        BY <1>2, <3>1
      <3>4. PageOf(v + k) \in user_pages'
        <4>1. {p \in PageOf(v) .. end - 1 : p % PAGE = 0} \subseteq user_pages'
          BY <1>2
        <4> QED  BY <1>1, <1>11, <3>1, <4>1, SegmentReached
      <3>5. v + k \in DOMAIN memory'
        BY <1>6, <1>7, <1>8, <3>1
      <3> QED  BY <1>8, <3>1, <3>2, <3>3, <3>4, <3>5
    <2> QED  BY <1>2, <2>1 DEF SegmentIn
  <1>13. ASSUME NEW r \in Headers, r.vaddr + r.mem_size <= b, SegmentIn(memory, user_pages, r)
        PROVE  SegmentIn(memory', user_pages', r)
    <2>1. ASSUME NEW k \in 0 .. r.mem_size - 1
          PROVE  r.vaddr + k \in DOMAIN memory' /\ memory'[r.vaddr + k] = memory[r.vaddr + k]
      <3>1. r.vaddr + k \notin b .. end - 1
        <4>1. PICK rv, rm \in Nat : rv = r.vaddr /\ rm = r.mem_size
          BY DEF Headers
        <4>2. k \in 0 .. rm - 1
          BY Zenon, <4>1
        <4>3. rv + rm <= b
          BY Zenon, <1>13, <4>1
        <4>4. rv \in Nat /\ rm \in Nat /\ b \in Nat /\ end \in Nat
          BY Zenon, <1>3, <4>1
        <4>5. rv + k \notin b .. end - 1
          BY <4>2, <4>3, <4>4
        <4> QED  BY Zenon, <4>1, <4>5
      <3> QED  BY <1>9, <1>13, <3>1 DEF SegmentIn
    <2> QED  BY <1>13, <2>1 DEF SegmentIn
  <1> QED  BY <1>2, <1>3, <1>8, <1>9, <1>10, <1>12, <1>13

LEMMA SegmentKeeps ==
  ASSUME LoaderAssumption, InputAssumption, LoadInv, load_segment  PROVE LoadInv'
  <1> DEFINE segments == program.segments
  <1>1. PICK n \in Nat \ {0} : n = nth /\ n \in 1 .. Len(segments) /\ n \in DOMAIN segments
    <2>1. nth \in 1 .. Len(segments) + 1 /\ nth <= Len(segments)
      BY DEF LoadInv, load_segment
    <2>2. segments \in Seq(Headers) /\ Len(segments) \in Nat
      BY InputIs
    <2>3. nth \in 1 .. Len(segments)
      BY <2>1, <2>2
    <2> QED  BY <2>2, <2>3
  <1>2. PICK s \in Headers : s = Segment /\ s = segments[n]
    <2>1. segments[n] \in Headers
      BY <1>1, InputIs
    <2> QED  BY <1>1, <2>1 DEF Segment
  <1>3. PICK begin, end, v, f, m \in Nat :
          /\ v = s.vaddr /\ f = s.file_size /\ m = s.mem_size
          /\ begin = PageOf(s.vaddr) /\ end = bss_end(begin + s.mem_size)
    <2>1. PICK v, f, m \in Nat : v = s.vaddr /\ f = s.file_size /\ m = s.mem_size
      BY DEF Headers
    <2>2. PICK begin \in Nat : begin = PageOf(v)
      BY <2>1, LoaderNumbers, PageOfIs
    <2>3. PICK k \in Nat : k = begin + m
      BY <2>1, <2>2
    <2>4. PICK end \in Nat : end = bss_end(k)
      BY <2>3, LoaderNumbers, RoundedUp
    <2> QED  BY Zenon, <2>1, <2>2, <2>3, <2>4
  <1>4. /\ step = "segments" /\ program.type = "exec" /\ nth' = n + 1 /\ program' = program /\ argv' = argv
        /\ stack_base' = stack_base /\ temp_argv' = temp_argv /\ eip' = eip
    BY <1>1 DEF load_segment
  <1>5. /\ Low .. STACK_TOP - 1 \subseteq DOMAIN memory /\ HandedOver(memory, stack_base)
        /\ (WellPlaced => Image(memory, user_pages, n - 1)) /\ program \in Programs /\ argv \in Arguments
    BY <1>1, <1>4 DEF LoadInv
  <1>6. s.loadable =>
          /\ f <= m /\ m > 0 /\ end <= Low
          /\ \A r \in 1 .. n - 1 : segments[r].loadable => segments[r].vaddr + segments[r].mem_size <= v
    BY <1>1, <1>2, <1>3, InputIs DEF Linked, Low
  <1>7. CASE ~s.loadable
    <2>1. step' = step /\ memory' = memory /\ user_pages' = user_pages
      BY <1>2, <1>7 DEF load_segment
    <2>2. ASSUME WellPlaced  PROVE Image(memory, user_pages, n)
      <3>1. \A r \in 1 .. n : r = n \/ r \in 1 .. n - 1
        BY <1>1
      <3> QED  BY <1>2, <1>5, <1>7, <2>2, <3>1 DEF Image
    <2>3. (WellPlaced => Image(memory, user_pages, nth - 1))'
      <3>1. nth' - 1 = n
        BY <1>1, <1>4
      <3> QED  BY <1>4, <2>1, <2>2, <3>1 DEF WellPlaced, Image
    <2>4. nth' \in 1 .. Len(segments) + 1
      BY <1>1, <1>4, InputIs
    <2>5. HandedOver(memory, stack_base)'
      BY <1>4, <1>5, <2>1 DEF HandedOver, ArgumentsAt
    <2> QED  BY <1>4, <1>5, <2>1, <2>3, <2>4, <2>5 DEF LoadInv
  <1>8. CASE s.loadable /\ v + f <= end
    <2>1. PICK bytes : bytes = [a \in s.vaddr .. end - 1 |->
                    IF a < s.vaddr + s.file_size THEN FileByte(s.offset + a - s.vaddr) ELSE Zero]
      OBVIOUS
    <2>2. /\ user_pages' = user_pages \cup {p \in begin .. end - 1 : p % PAGE = 0}
          /\ Copies(MapFresh(begin, end), bytes, "segments")
      <3>1. ~(v + f > end)
        BY <1>3, <1>8
      <3> QED  BY <1>2, <1>3, <1>8, <2>1, <3>1 DEF load_segment
    <2>3. /\ {p \in PageOf(s.vaddr) .. end - 1 : p % PAGE = 0} \subseteq user_pages'
          /\ user_pages \subseteq user_pages' /\ Copies(MapFresh(PageOf(s.vaddr), end), bytes, "segments")
      BY <1>3, <2>2
    <2>4. /\ step' = "segments" /\ SameFrom(memory, memory', Low)
          /\ \A a \in DOMAIN memory : a \in DOMAIN memory'
          /\ s.vaddr + s.mem_size <= end => SegmentIn(memory', user_pages', s)
          /\ \A r \in Headers :
               r.vaddr + r.mem_size <= PageOf(s.vaddr) /\ SegmentIn(memory, user_pages, r)
                 => SegmentIn(memory', user_pages', r)
      <3>1. f <= m /\ end <= Low /\ end \in Nat
        BY <1>3, <1>6, <1>8
      <3>2. s.file_size <= s.mem_size
        BY <1>3, <3>1
      <3>3. Low .. STACK_TOP - 1 \subseteq DOMAIN memory
        BY <1>5
      <3> QED  BY Zenon, <1>2, <2>1, <2>3, <3>1, <3>2, <3>3, SegmentCopied
    <2>5. ASSUME WellPlaced  PROVE Image(memory', user_pages', n)
      <3>1. SegmentIn(memory', user_pages', s)
        <4>1. EndsInPage(s)
          BY <1>1, <1>2, <2>5 DEF WellPlaced
        <4>2. s.mem_size > 0
          BY <1>3, <1>6, <1>8
        <4>3. s.vaddr + s.mem_size <= end
          BY <1>3, <4>1, <4>2, LoaderNumbers, EndsBehind
        <4> QED  BY <2>4, <4>3
      <3>2. ASSUME NEW r \in 1 .. n - 1, segments[r].loadable  PROVE SegmentIn(memory', user_pages', segments[r])
        <4>1. segments[r] \in Headers
          <5>1. r \in 1 .. Len(segments)
            BY <1>1
          <5> QED  BY <5>1, InputIs
        <4>2. SegmentIn(memory, user_pages, segments[r])
          BY <1>5, <2>5, <3>2 DEF Image
        <4>3. segments[r].vaddr + segments[r].mem_size <= PageOf(s.vaddr)
          BY <1>1, <1>2, <1>8, <2>5, <3>2 DEF WellPlaced, OwnPages
        <4> QED  BY <2>4, <4>1, <4>2, <4>3
      <3>3. \A r \in 1 .. n : r = n \/ r \in 1 .. n - 1
        BY <1>1
      <3> QED  BY <1>2, <3>1, <3>2, <3>3 DEF Image
    <2>6. (WellPlaced => Image(memory, user_pages, nth - 1))'
      <3>1. nth' - 1 = n
        BY <1>1, <1>4
      <3> QED  BY <1>4, <2>5, <3>1 DEF WellPlaced, Image
    <2>7. nth' \in 1 .. Len(segments) + 1
      BY <1>1, <1>4, InputIs
    <2>8. HandedOver(memory, stack_base)'
      <3>1. HandedOver(memory', stack_base)
        BY <1>5, <2>4, InputIs, PassedStays
      <3> QED  BY <1>4, <3>1 DEF HandedOver, ArgumentsAt
    <2> QED  BY <1>4, <1>5, <2>4, <2>6, <2>7, <2>8 DEF LoadInv
  <1>9. CASE s.loadable /\ v + f > end
    <2>1. step' = "fault" /\ memory' = memory
      <3>1. ~(v + f <= end)
        BY <1>3, <1>9
      <3> QED  BY <1>2, <1>3, <1>9, <3>1 DEF load_segment
    <2>2. ~WellPlaced
      <3> SUFFICES ASSUME WellPlaced  PROVE FALSE
        OBVIOUS
      <3>1. EndsInPage(s)
        BY <1>1, <1>2 DEF WellPlaced
      <3>2. s.mem_size > 0 /\ f <= m
        BY <1>3, <1>6, <1>9
      <3>3. v + m <= end
        BY <1>3, <3>1, <3>2, LoaderNumbers, EndsBehind
      <3>4. v \in Nat /\ f \in Nat /\ m \in Nat /\ end \in Nat /\ v + f > end
        BY <1>3, <1>9
      <3>5. f <= m
        BY <3>2
      <3> QED  BY <3>3, <3>4, <3>5
    <2>3. ~WellPlaced'
      BY <1>4, <2>2 DEF WellPlaced
    <2> QED  BY <1>4, <1>5, <2>1, <2>3 DEF LoadInv
  <1>10. v + f <= end \/ v + f > end
    BY <1>3
  <1> QED  BY <1>7, <1>8, <1>9, <1>10

LEMMA ElfLoadKeeps ==
  ASSUME LoaderAssumption, InputAssumption, LoadInv, elf_load  PROVE LoadInv'
  <1>1. /\ step = "elf_load" /\ program' = program /\ argv' = argv /\ memory' = memory /\ nth' = nth
        /\ user_pages' = user_pages /\ stack_base' = stack_base /\ temp_argv' = temp_argv
        /\ step' = "segments" \/ (step' = "user" /\ eip' = 0)
    BY DEF elf_load
  <1>2. /\ Low .. STACK_TOP - 1 \subseteq DOMAIN memory /\ HandedOver(memory, stack_base) /\ nth = 1
        /\ program \in Programs /\ argv \in Arguments
    BY <1>1 DEF LoadInv
  <1>3. HandedOver(memory, stack_base)'
    BY <1>1, <1>2 DEF HandedOver, ArgumentsAt
  <1>4. nth' \in 1 .. Len(program.segments) + 1
    BY <1>1, <1>2, InputIs
  <1>5. Image(memory, user_pages, nth - 1)'
    <2>1. nth' - 1 = 0
      BY <1>1, <1>2
    <2> QED  BY <2>1 DEF Image
  <1> QED  BY <1>1, <1>2, <1>3, <1>4, <1>5 DEF LoadInv

LEMMA LoadedKeeps ==
  ASSUME LoaderAssumption, InputAssumption, LoadInv, segments_loaded  PROVE LoadInv'
  <1>1. /\ step = "segments" /\ step' = "user" /\ program' = program /\ argv' = argv /\ memory' = memory
        /\ user_pages' = user_pages /\ stack_base' = stack_base /\ temp_argv' = temp_argv /\ nth' = nth
        /\ program.type # "exec" \/ nth > Len(program.segments)
    BY DEF segments_loaded
  <1>2. /\ Low .. STACK_TOP - 1 \subseteq DOMAIN memory /\ HandedOver(memory, stack_base)
        /\ program \in Programs /\ argv \in Arguments
    BY <1>1 DEF LoadInv
  <1>3. HandedOver(memory, stack_base)'
    BY <1>1, <1>2 DEF HandedOver, ArgumentsAt
  <1>4. ASSUME program.type = "exec", WellPlaced  PROVE Image(memory, user_pages, Len(program.segments))
    <2>1. nth \in 1 .. Len(program.segments) + 1 /\ Image(memory, user_pages, nth - 1)
      BY <1>1, <1>4 DEF LoadInv
    <2>2. nth - 1 = Len(program.segments)
      BY <1>1, <1>4, <2>1, InputIs
    <2> QED  BY <2>1, <2>2
  <1>5. (program.type = "exec" /\ WellPlaced => Image(memory, user_pages, Len(program.segments)))'
    BY <1>1, <1>4 DEF WellPlaced, Image
  <1> QED  BY <1>1, <1>2, <1>3, <1>5 DEF LoadInv

LEMMA LoadStarts ==
  ASSUME LoaderInit  PROVE LoadInv
  BY DEF LoaderInit, LoadInv

LEMMA BytesThere ==
  ASSUME LoaderAssumption, Low .. STACK_TOP - 1 \subseteq DOMAIN memory, NEW a \in Int, NEW v,
         HoldsWord(memory, a, v)
  PROVE  Bytes(a, v)
  <1>1. WORD \in Nat /\ STACK_TOP \in Nat /\ Low \in Nat
    BY LoaderNumbers
  <1>2. \A k \in 0 .. WORD - 1 : a + k \in Low .. STACK_TOP - 1
    BY <1>1 DEF HoldsWord
  <1> QED  BY <1>2 DEF HoldsWord, Bytes

LEMMA LoadImplies ==
  ASSUME LoaderAssumption, InputAssumption, LoadInv  PROVE ProgramArrives
  <1>1. argv \in Seq(Nat) /\ Len(argv) \in Nat /\ DOMAIN argv = 1 .. Len(argv)
    BY InputIs
  <1>2. WORD \in Nat /\ STACK_TOP \in Nat /\ Low \in Nat
    BY LoaderNumbers
  <1>3. ASSUME step = "user"  PROVE ArgumentsArrive
    <2>1. Low .. STACK_TOP - 1 \subseteq DOMAIN memory /\ HandedOver(memory, stack_base)
      BY <1>3 DEF LoadInv
    <2>2. stack_base \in Int /\ ArgumentsAt(memory, stack_base, temp_argv, Len(argv))
      BY <2>1 DEF HandedOver
    <2>3. \A n \in 0 .. Len(argv) + 1 : stack_base + WORD * n \in Int
      <3>1. ASSUME NEW n \in 0 .. Len(argv) + 1  PROVE stack_base + WORD * n \in Int
        <4>1. PICK w \in Nat : w = WORD * n
          BY <1>1, <1>2
        <4> QED  BY <2>2, <4>1
      <3> QED  BY <3>1
    <2>4. Bytes(stack_base, Len(argv))
      BY <2>1, <2>2, BytesThere DEF HandedOver
    <2>5. Bytes(stack_base + WORD * (Len(argv) + 1), 0)
      <3>1. Len(argv) + 1 \in 0 .. Len(argv) + 1
        BY <1>1
      <3>2. stack_base + WORD * (Len(argv) + 1) \in Int
        BY <2>3, <3>1
      <3>3. HoldsWord(memory, stack_base + WORD * (Len(argv) + 1), 0)
        BY <2>1 DEF HandedOver
      <3> QED  BY <2>1, <3>2, <3>3, BytesThere
    <2>6. ASSUME NEW n \in DOMAIN argv
          PROVE  \E p \in DOMAIN memory :
                   /\ Bytes(stack_base + WORD * n, p)
                   /\ \A k \in 0 .. argv[n] - 1 :
                        p + k \in DOMAIN memory /\ memory[p + k] = Char(n, k)
                   /\ p + argv[n] \in DOMAIN memory /\ memory[p + argv[n]] = Zero
      <3>1. n \in 1 .. Len(argv) /\ n \in 0 .. Len(argv) + 1
        BY <1>1
      <3>2. PICK l \in Nat, p \in Int : l = argv[n] /\ p = temp_argv[n]
        <4>1. argv[n] \in Nat
          BY <1>1, <3>1
        <4>2. temp_argv \in Seq(Int) /\ Len(temp_argv) = Len(argv)
          BY <2>2 DEF ArgumentsAt
        <4>3. temp_argv[n] \in Int
          BY <3>1, <4>2
        <4> QED  BY <4>1, <4>3
      <3>3. Located(memory, n, l, p)
        BY <2>2, <3>1, <3>2 DEF ArgumentsAt
      <3>4. \A k \in 0 .. l : p + k \in DOMAIN memory
        <4>1. l \in Nat /\ p \in Int /\ Low <= p /\ p + l < STACK_TOP
          BY <3>2, <3>3 DEF Located
        <4>2. \A k \in 0 .. l : p + k \in Low .. STACK_TOP - 1
          BY <1>2, <4>1
        <4> QED  BY <2>1, <4>2
      <3>5. p \in DOMAIN memory /\ p + l \in DOMAIN memory /\ \A k \in 0 .. l - 1 : p + k \in DOMAIN memory
        <4>1. l \in Nat /\ p \in Int
          BY <3>2
        <4>2. 0 \in 0 .. l /\ l \in 0 .. l /\ p + 0 = p /\ 0 .. l - 1 \subseteq 0 .. l
          BY <4>1
        <4> QED  BY <3>4, <4>2
      <3>6. Bytes(stack_base + WORD * n, p)
        <4>1. stack_base + WORD * n \in Int
          BY <2>3, <3>1
        <4>2. HoldsWord(memory, stack_base + WORD * n, p)
          BY <2>1, <3>1, <3>2 DEF HandedOver
        <4> QED  BY <2>1, <4>1, <4>2, BytesThere
      <3> QED  BY <3>2, <3>3, <3>5, <3>6 DEF Located
    <2> QED  BY <2>4, <2>5, <2>6 DEF ArgumentsArrive
  <1>4. ArgumentsArrive
    BY <1>3 DEF ArgumentsArrive
  <1>5. ASSUME WellPlaced  PROVE ImageArrives
    <2>1. step # "fault"
      BY <1>5 DEF LoadInv
    <2>2. ASSUME step = "user", eip # 0, program.type = "exec",
                 NEW n \in DOMAIN program.segments, program.segments[n].loadable
          PROVE  SegmentIn(memory, user_pages, program.segments[n])
      <3>1. n \in 1 .. Len(program.segments)
        BY InputIs
      <3>2. Image(memory, user_pages, Len(program.segments))
        BY <1>5, <2>2 DEF LoadInv
      <3> QED  BY <2>2, <3>1, <3>2 DEF Image
    <2>3. ImageIsThere
      BY <2>2 DEF ImageIsThere, SegmentIn
    <2> QED  BY <2>1, <2>3 DEF ImageArrives
  <1>6. ImageArrives
    BY <1>5 DEF ImageArrives
  <1> QED  BY <1>4, <1>6 DEF ProgramArrives

\* execute (exe.c) and elf_load (elf.c): a program of which the segments are
\* laid out one behind the other, start in pages of their own and end in the
\* page elf_load_segments finds, starts with all of its bytes and zeros behind
\* them on pages it can access; every program starts with its arguments in
\* memory, though on pages that ring 3 cannot read.
THEOREM ProgramsArrive == LoaderSpec => []ProgramArrives
  <1>1. LoaderInit => LoadInv
    BY LoadStarts
  <1>2. LoadInv /\ [LoaderNext]_loaderVars => LoadInv'
    <2> SUFFICES ASSUME LoadInv, [LoaderNext]_loaderVars  PROVE LoadInv'
      OBVIOUS
    <2> USE LoaderAssumption, InputAssumption
    <2>1. CASE UNCHANGED loaderVars
      BY <2>1 DEF loaderVars, LoadInv, HandedOver, ArgumentsAt, WellPlaced, Image
    <2>2. CASE new_stack
      BY <2>2, NewStackKeeps
    <2>3. CASE copy_argument
      BY <2>3, CopyKeeps
    <2>4. CASE add_entrance_args
      BY <2>4, EntranceKeeps
    <2>5. CASE elf_load
      BY <2>5, ElfLoadKeeps
    <2>6. CASE load_segment
      BY <2>6, SegmentKeeps
    <2>7. CASE segments_loaded
      BY <2>7, LoadedKeeps
    <2> QED  BY <2>1, <2>2, <2>3, <2>4, <2>5, <2>6, <2>7 DEF LoaderNext
  <1>3. LoadInv => ProgramArrives
    BY LoaderAssumption, InputAssumption, LoadImplies
  <1> QED  BY <1>1, <1>2, <1>3, PTL DEF LoaderSpec
=============================================================================
