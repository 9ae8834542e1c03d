---------------------------- MODULE KMMContract ----------------------------
(***************************************************************************)
(* What the kernel heap promises its callers, without free list, headers   *)
(* or placement policy: live blocks are pairwise disjoint pieces of the    *)
(* heap, a call changes nobody else's block, and growing a block gives the *)
(* caller at least the increment.  The promise ends with the first damage. *)
(***************************************************************************)
EXTENDS Integers

CONSTANTS HEAP_SIZE, HDR, Requests, Increments

VARIABLES live,      \* the address of every block handed out |-> its size
          damaged

Addr == 0 .. HEAP_SIZE - 1

\* [a, a + n) lies inside the heap and meets no block of l.
Vacant(l, a, n) ==
  /\ a + n <= HEAP_SIZE
  /\ \A b \in DOMAIN l : a + n <= b \/ b + l[b] <= a

Without(l, a) == [b \in DOMAIN l \ {a} |-> l[b]]
With(l, a, n) == [b \in DOMAIN l \cup {a} |-> IF b = a THEN n ELSE l[b]]

Malloc(a, n) == /\ ~damaged
                /\ \E req \in Requests : n >= req + HDR
                /\ a \notin DOMAIN live /\ Vacant(live, a, n)
                /\ live' = With(live, a, n)
                /\ UNCHANGED damaged

Dispose(a)   == /\ ~damaged
                /\ a \in DOMAIN live
                /\ live' = Without(live, a)
                /\ UNCHANGED damaged

\* The block may move, into words of its own as well as into vacant ones.
Expand(a, b, n) ==
  /\ ~damaged
  /\ a \in DOMAIN live
  /\ \E inc \in Increments : n >= live[a] + inc
  /\ b \notin DOMAIN live \ {a} /\ Vacant(Without(live, a), b, n)
  /\ live' = With(Without(live, a), b, n)
  /\ UNCHANGED damaged

\* The promise ends: nothing is said of the blocks from here on.
Damage == ~damaged /\ damaged' = TRUE

Init == live = [b \in {} |-> 0] /\ damaged = FALSE

Next == \/ \E a \in Addr, n \in 1 .. HEAP_SIZE : Malloc(a, n)
        \/ \E a \in DOMAIN live : Dispose(a)
        \/ \E a \in DOMAIN live, b \in Addr, n \in 1 .. HEAP_SIZE : Expand(a, b, n)
        \/ Damage

Spec == Init /\ [][Next]_<<live, damaged>>
=============================================================================
