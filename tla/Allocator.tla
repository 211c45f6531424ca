------------------------------ MODULE Allocator ------------------------------
(***************************************************************************)
(* What a heap promises its callers, without saying how: a set of live     *)
(* regions of one arena that never overlap.  A region appears where no     *)
(* live region is, stays as it is until its owner gives it back, and then  *)
(* vanishes.  Heap.tla is shown to implement this specification.           *)
(***************************************************************************)
EXTENDS Integers

CONSTANT ArenaSize   \* bytes in the arena

VARIABLE live        \* start of a region -> bytes granted to its owner

\* Region p of n bytes lies inside the arena.
InArena(p, n) == p \in 0 .. ArenaSize /\ n \in 0 .. ArenaSize /\ p + n <= ArenaSize

\* Region p of n bytes and region q of m bytes share no byte and no start.
Apart(p, n, q, m) == p # q /\ (p + n <= q \/ q + m <= p)

AllocatorInit == live = [p \in {} |-> 0]

\* A caller obtains the region p of n bytes.
Allocate(p, n) ==
    /\ InArena(p, n)
    /\ \A q \in DOMAIN live : Apart(p, n, q, live[q])
    /\ live' = [q \in DOMAIN live \cup {p} |-> IF q = p THEN n ELSE live[q]]

\* The owner of region p gives it back.
Release(p) ==
    /\ p \in DOMAIN live
    /\ live' = [q \in DOMAIN live \ {p} |-> live[q]]

\* The owner of region p trades it for the region r of n bytes; the two are
\* apart, so the contents can be copied before p is given back.
Move(p, r, n) ==
    /\ p \in DOMAIN live
    /\ InArena(r, n)
    /\ \A q \in DOMAIN live : Apart(r, n, q, live[q])
    /\ live' = [q \in (DOMAIN live \ {p}) \cup {r} |-> IF q = r THEN n ELSE live[q]]

\* The region obtained, and its size, are read off the next state.
AllocatorNext ==
    \/ \E p \in DOMAIN live' : Allocate(p, live'[p])
    \/ \E p \in DOMAIN live : Release(p)
    \/ \E p \in DOMAIN live, r \in DOMAIN live' : Move(p, r, live'[r])

AllocatorSpec == AllocatorInit /\ [][AllocatorNext]_live
==============================================================================
