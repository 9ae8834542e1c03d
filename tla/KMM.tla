-------------------------------- MODULE KMM --------------------------------
(***************************************************************************)
(* The kernel heap of LakeOS (kernel/src/kmm.c): a first-fit allocator     *)
(* over one circular, doubly linked list of free blocks that is kept in    *)
(* address order.  The static pointer `freelist' always points to the      *)
(* block at HEAP_START and is never updated.                               *)
(*                                                                         *)
(* Addresses are offsets from HEAP_START.  The unit of the instances is a  *)
(* machine word; HDR is sizeof(size_t), the header in front of every       *)
(* allocation, and NODE is sizeof(t_FreeBlock).                            *)
(***************************************************************************)
EXTENDS Integers

CONSTANTS HEAP_SIZE,   \* size of the heap
          HDR,         \* sizeof(size_t)
          NODE,        \* sizeof(t_FreeBlock)
          Requests,    \* arguments of kmalloc
          Increments   \* arguments of kexpand

ASSUME SizesAssumption ==
  /\ HDR \in Nat \ {0} /\ NODE \in Nat /\ HEAP_SIZE \in Nat
  /\ HDR < NODE /\ NODE <= HEAP_SIZE
  /\ Requests \subseteq Nat
  /\ Increments \subseteq Nat \ {0}

VARIABLES
  heap,   \* the words of the heap that the allocator reads and writes
  fault   \* ghost: why the heap's metadata may no longer be trusted

vars == <<heap, fault>>

Addr == 0 .. HEAP_SIZE - 1

(***************************************************************************)
(* heap.size, heap.next and heap.prev are the three fields of the blocks   *)
(* on the list; heap.alloc maps the address of the header of every block   *)
(* handed out (p minus HDR) to the size in that header.                    *)
(***************************************************************************)
freelist == 0

Free(h) == DOMAIN h.size
Live(h) == DOMAIN h.alloc

Bind(f, k, v) == [x \in DOMAIN f \cup {k} |-> IF x = k THEN v ELSE f[x]]
Drop(f, k)    == [x \in DOMAIN f \ {k} |-> f[x]]

KMM_init == [size  |-> [x \in {freelist} |-> HEAP_SIZE],
             next  |-> [x \in {freelist} |-> freelist],
             prev  |-> [x \in {freelist} |-> freelist],
             alloc |-> [x \in {} |-> 0]]

-----------------------------------------------------------------------------
(* List surgery                                                            *)

\* Wrong on purpose: only one of the two links around x is updated.
UnlinkOneWay(h, x) ==
  [size  |-> Drop(h.size, x),
   next  |-> [y \in Free(h) \ {x} |-> h.next[y]],
   prev  |-> [y \in Free(h) \ {x} |-> IF y = h.next[x] THEN h.prev[x] ELSE h.prev[y]],
   alloc |-> h.alloc]

\* x->prev->next = x->next; x->next->prev = x->prev.
Unlink(h, x) ==
  [size  |-> Drop(h.size, x),
   next  |-> [y \in Free(h) \ {x} |-> IF y = h.prev[x] THEN h.next[x] ELSE h.next[y]],
   prev  |-> [y \in Free(h) \ {x} |-> IF y = h.next[x] THEN h.prev[x] ELSE h.prev[y]],
   alloc |-> h.alloc]

\* The block a, already free, absorbs the block b, which leaves the list.
Merge(h, a, b) ==
  LET u == Unlink(h, b)
  IN  [size  |-> [u.size EXCEPT ![a] = @ + h.size[b]],
       next  |-> u.next, prev |-> u.prev, alloc |-> u.alloc]

(* find_first_fit                                                          *)

\* The block size for a request: the header is added, a node must fit later.
BlockSize(req) == IF req + HDR < NODE THEN NODE ELSE req + HDR

\* The walk starts at freelist->next, so the head is looked at last.
Before(y, x) == y # freelist /\ (x = freelist \/ y < x)

FirstFit(h, x, n) ==
  /\ x \in Free(h)
  /\ h.size[x] >= n
  /\ \A y \in Free(h) : Before(y, x) => h.size[y] < n

NoFit(h, n) == \A y \in Free(h) : h.size[y] < n

\* Wrong on purpose: the block that was carved keeps its size.
CarveUnshrunk(h, x, n) ==
  [size  |-> h.size, next |-> h.next, prev |-> h.prev,
   alloc |-> Bind(h.alloc, x + h.size[x] - n, n)]

\* The block keeps its node and gives away its high end.
Carve(h, x, n) ==
  LET rest == h.size[x] - n
  IN  [size  |-> [h.size EXCEPT ![x] = rest],
       next  |-> h.next, prev |-> h.prev,
       alloc |-> Bind(h.alloc, x + rest, n)]

\* Wrong on purpose: the block stays on the list.
TakeListed(h, x, n) ==
  [size |-> h.size, next |-> h.next, prev |-> h.prev,
   alloc |-> Bind(h.alloc, x, n)]

\* No room for a node after the allocation: the block leaves the list.  What
\* it has beyond n stays in nobody's hands.
Take(h, x, n) ==
  LET u == Unlink(h, x)
  IN  [size |-> u.size, next |-> u.next, prev |-> u.prev,
       alloc |-> Bind(h.alloc, x, n)]

Carves(h, x, n) == h.size[x] >= n + NODE

Grant(h, x, n) == IF Carves(h, x, n) THEN Carve(h, x, n) ELSE Take(h, x, n)

\* The head itself is handed out, although `freelist' keeps pointing to it.
TakesHead(h, x, n) == x = freelist /\ ~Carves(h, x, n)

(* kfree                                                                   *)

\* The walk `keep blocks sequential' stops at i: the first node, from
\* freelist on, whose successor is not between it and the freed block.
StopsAt(h, i, f) == ~(h.next[i] < f /\ h.next[i] > i)

\* Wrong on purpose: no walk, a freed block goes behind the head.
InsertAtHead(h, i, f) == i = freelist /\ i \in Free(h)

InsertPoint(h, i, f) ==
  /\ i \in Free(h)
  /\ StopsAt(h, i, f)
  /\ \A j \in Free(h) : j < i => ~StopsAt(h, j, f)

\* The header of the freed block becomes the size field of its node.
Insert(h, i, f) ==
  LET n == h.next[i]
  IN  [size  |-> Bind(h.size, f, h.alloc[f]),
       next  |-> Bind([h.next EXCEPT ![i] = f], f, n),
       prev  |-> Bind([h.prev EXCEPT ![n] = f], f, i),
       alloc |-> Drop(h.alloc, f)]

\* Merges with the next block, or else with the previous one, never both.
coalesce_neighbors(h, b) ==
  LET n == h.next[b]
      p == h.prev[b]
  IN  IF n = b \/ p = b               THEN h
      ELSE IF b + h.size[b] = n       THEN Merge(h, b, n)
      ELSE IF p + h.size[p] = b       THEN Merge(h, p, b)
      ELSE h

Release(h, i, f) == coalesce_neighbors(Insert(h, i, f), f)

(* krealloc                                                                *)

\* The free block x behind f gives its first off units to f: its node is
\* moved up by off.
Shift(h, f, x, off) ==
  LET m == x + off
      u == Unlink(h, x)
  IN  [size  |-> Bind(u.size, m, h.size[x] - off),
       next  |-> Bind([u.next EXCEPT ![h.prev[x]] = m], m, h.next[x]),
       prev  |-> Bind([u.prev EXCEPT ![h.next[x]] = m], m, h.prev[x]),
       alloc |-> [h.alloc EXCEPT ![f] = @ + off]]

\* The free block x behind f goes to f as a whole.
Absorb(h, f, x) ==
  LET u == Unlink(h, x)
  IN  [size |-> u.size, next |-> u.next, prev |-> u.prev,
       alloc |-> [h.alloc EXCEPT ![f] = @ + h.size[x]]]

\* memmove(moved, iter, NODE) runs backwards from offset NODE down to HDR: it
\* writes the word that follows the moved node too.  When nothing is left in
\* between, that is the header (or the size field) of the block behind it, or
\* the first word past the heap, where the page fault handler halts.
Overrun(h, x, off) ==
  LET w == x + off + NODE
  IN  IF w + HDR > HEAP_SIZE THEN "end"
      ELSE IF \E b \in (Free(h) \ {x}) \cup Live(h) : b < w + HDR /\ w < b + HDR
      THEN "header"
      ELSE "none"

-----------------------------------------------------------------------------
(* Operations.  Once `fault' is set the metadata is not what the code      *)
(* believes it to be, and nothing is said of what the program does next.   *)

Faults == {"none", "head", "header", "end", "null"}

Kmalloc(req) ==
  LET n == BlockSize(req) IN
  /\ fault = "none"
  /\ \/ \E x \in Free(heap) :
          /\ FirstFit(heap, x, n)
          /\ heap' = Grant(heap, x, n)
          /\ fault' = IF TakesHead(heap, x, n) THEN "head" ELSE fault
     \/ NoFit(heap, n) /\ UNCHANGED vars      \* returns NULL

Kfree(f) ==
  /\ fault = "none"
  /\ f \in Live(heap)
  /\ \E i \in Free(heap) :
       InsertPoint(heap, i, f) /\ heap' = Release(heap, i, f)
  /\ UNCHANGED fault

\* krealloc finds the free block right behind p and it is large enough.
GrowsInPlace(f, off) ==
  LET x == f + heap.alloc[f]
  IN  x \in Free(heap) /\ heap.size[x] >= off

KexpandShift(f, off) ==
  LET x == f + heap.alloc[f] IN
  /\ heap.size[x] - off >= NODE
  /\ heap' = Shift(heap, f, x, off)
  /\ fault' = Overrun(heap, x, off)

KexpandAbsorb(f, off) ==
  LET x == f + heap.alloc[f] IN
  /\ heap.size[x] - off < NODE
  /\ heap' = Absorb(heap, f, x)
  /\ UNCHANGED fault

\* Wrong on purpose: the new block is as large as the old one was asked to be.
KexpandMoveSameSize(f, off) ==
  LET n == BlockSize(heap.alloc[f]) IN
  \E x \in Free(heap) :
    /\ FirstFit(heap, x, n) /\ ~TakesHead(heap, x, n)
    /\ LET h == Grant(heap, x, n) IN
       \E i \in Free(h) : InsertPoint(h, i, f) /\ heap' = Release(h, i, f)
    /\ UNCHANGED fault

\* kmalloc, memcpy, kfree.  A NULL from kmalloc is not looked at: the memcpy
\* then writes through it.
KexpandMove(f, off) ==
  LET n == BlockSize(heap.alloc[f] + off) IN
  \/ \E x \in Free(heap) :
       /\ FirstFit(heap, x, n)
       /\ LET h == Grant(heap, x, n) IN
          IF TakesHead(heap, x, n)
          THEN heap' = h /\ fault' = "head"
          ELSE /\ \E i \in Free(h) :
                    InsertPoint(h, i, f) /\ heap' = Release(h, i, f)
               /\ UNCHANGED fault
  \/ NoFit(heap, n) /\ fault' = "null" /\ UNCHANGED heap

\* kexpand(p, off) is krealloc(p, size + off), so krealloc's early return for
\* a size that is not larger is never taken.
Kexpand(f, off) ==
  /\ fault = "none"
  /\ f \in Live(heap)
  /\ IF GrowsInPlace(f, off)
     THEN KexpandShift(f, off) \/ KexpandAbsorb(f, off)
     ELSE KexpandMove(f, off)

\* The metadata is damaged: the behaviour is not followed any further.
Damaged == fault # "none" /\ UNCHANGED vars

Init == heap = KMM_init /\ fault = "none"

Next == \/ \E req \in Requests : Kmalloc(req)
        \/ \E f \in Live(heap) : Kfree(f)
        \/ \E f \in Live(heap), off \in Increments : Kexpand(f, off)
        \/ Damaged

Spec == Init /\ [][Next]_vars

-----------------------------------------------------------------------------
(* Properties                                                              *)

\* The shape of the allocator's state: every list node has its three fields,
\* and its links lead to nodes.
HeapType(h) ==
  /\ Free(h) \subseteq Addr /\ Live(h) \subseteq Addr
  /\ h.size \in [Free(h) -> Nat]
  /\ h.next \in [Free(h) -> Free(h)]
  /\ h.prev \in [Free(h) -> Free(h)]
  /\ h.alloc \in [Live(h) -> Nat]

TypeOK == /\ fault \in Faults
          /\ fault = "none" => HeapType(heap)

Extent(h, b) == IF b \in Free(h) THEN h.size[b] ELSE h.alloc[b]

\* Every block, free or handed out, lies inside the heap and has room for a
\* node.
BlocksInside(h) ==
  \A b \in Free(h) \cup Live(h) :
    Extent(h, b) >= NODE /\ b + Extent(h, b) <= HEAP_SIZE

\* No two blocks share a word.
BlocksApart(h) ==
  /\ Free(h) \cap Live(h) = {}
  /\ \A a, b \in Free(h) \cup Live(h) : a < b => a + Extent(h, a) <= b

\* The list is doubly linked, contains the block `freelist' points to and
\* runs through all free blocks in address order.
ListSorted(h) ==
  /\ freelist \in Free(h)
  /\ \A x \in Free(h) :
       /\ h.prev[h.next[x]] = x /\ h.next[h.prev[x]] = x
       /\ IF h.next[x] = freelist
          THEN \A y \in Free(h) : y <= x
          ELSE h.next[x] > x /\ \A y \in Free(h) : y <= x \/ h.next[x] <= y

\* Whatever the order of kmalloc, kfree and kexpand calls: until the metadata
\* is damaged, no word of the heap belongs to two blocks, free or handed out,
\* and every block lies inside the heap (find_first_fit, coalesce_neighbors,
\* krealloc's in-place growth).
NoOverlap == fault = "none" => BlocksInside(heap) /\ BlocksApart(heap)

\* kfree's insertion walk, the merges and the node that krealloc moves keep
\* the free list doubly linked, complete and `sequential'.
ListOK == fault = "none" => ListSorted(heap)

\* After a kexpand the caller holds a block that is larger by at least the
\* increment, and everybody else's blocks are as they were, on each of
\* krealloc's three paths.
ExpandGrows ==
  [][\A f \in Live(heap), off \in Increments :
       Kexpand(f, off) /\ fault' = "none" =>
         \E g \in Live(heap)' :
           /\ heap'.alloc[g] >= heap.alloc[f] + off
           /\ Live(heap)' \ {g} = Live(heap) \ {f}
           /\ \A b \in Live(heap) \ {f} : heap'.alloc[b] = heap.alloc[b]]_vars

\* The allocator implements its contract: whoever sees only the blocks handed
\* out cannot tell kmalloc, kfree and kexpand from KMMContract's operations.
Contract == INSTANCE KMMContract
              WITH live <- heap.alloc, damaged <- (fault # "none")

Implements == Contract!Spec

\* find_first_fit's `won't have enough room for metadata, delete' removes a
\* block from the list; `freelist' must not be left pointing to a block that
\* belongs to a caller.
HeadNotGranted == freelist \notin Live(heap)

\* `store the size of the allocation as metadata': nothing but the allocator
\* changes that word, in particular not krealloc moving a neighbouring node.
HeadersIntact == fault # "header"
=============================================================================
