-------------------------------- MODULE Heap --------------------------------
(***************************************************************************)
(* The kernel heap (kernel/mm/heap.c): one arena cut into blocks, each a   *)
(* header followed by its payload, kept in an address-ordered doubly       *)
(* linked list.  kmalloc takes the first free block that fits and splits   *)
(* it, kfree marks a block free and merges it with its free neighbours.    *)
(*                                                                         *)
(* Addresses are byte offsets from the arena's base, a block is named by   *)
(* the offset of its header, and blocks is the memory the headers live in: *)
(* a header overwritten or absorbed by a merge is no longer in its domain. *)
(*                                                                         *)
(* align_size keeps only the low 32 bits of a size, so a request of 2^32   *)
(* bytes or more is granted by its low half; kcalloc then clears all the   *)
(* bytes asked for, and krealloc copies the whole old payload.  Such a     *)
(* write destroys the headers behind the block and, in the end, what lies  *)
(* behind the arena: overrun says it has happened, and the model ends.     *)
(***************************************************************************)
EXTENDS Integers, FiniteSetsExt

CONSTANTS
    ArenaSize,   \* sizeof(bootstrap_heap)
    Hdr,         \* sizeof(block_header_t)
    Align,       \* payload granularity, and the least payload split off (16)
    UIntMod,     \* 2^32: ~15u is a 32-bit mask, zero-extended to size_t
    SizeMod,     \* 2^64: size_t arithmetic
    Requests     \* the sizes and counts callers ask for

ASSUME HeapConstants ==
    /\ ArenaSize \in Nat /\ Hdr \in Nat /\ Align \in Nat
    /\ UIntMod \in Nat /\ SizeMod \in Nat
    /\ 0 < Align /\ 0 < Hdr /\ Hdr < ArenaSize
    /\ Align < UIntMod /\ UIntMod <= SizeMod
    /\ Requests \subseteq 0 .. SizeMod - 1

\* What the constants of the build add: every boundary is a multiple of 16.
ASSUME HeapAlignment ==
    /\ Hdr % Align = 0 /\ ArenaSize % Align = 0 /\ UIntMod % Align = 0

VARIABLES
    blocks,      \* header offset -> [size, free, next, prev]
    used_size,   \* bytes of payload handed out
    overrun,     \* the heap has written past the block it granted
    requested    \* history: live header offset -> size its owner asked for

heapVars == <<blocks, used_size, overrun, requested>>

Null == -1

Live == {a \in DOMAIN blocks : ~blocks[a].free}

-----------------------------------------------------------------------------
\* Mutant of align_size: rounding down.
align_size_down(n) == ((n % SizeMod) \div Align) * Align

align_size(n) == ((((n + Align - 1) % SizeMod) \div Align) * Align) % UIntMod

\* Header h with its prev pointer set to p.
WithPrev(h, p) == [size |-> h.size, free |-> h.free, next |-> h.next, prev |-> p]

\* b with the free flag of block a set to f.
Marked(b, a, f) ==
    [c \in DOMAIN b |->
        IF c = a THEN [size |-> b[a].size, free |-> f, next |-> b[a].next, prev |-> b[a].prev]
        ELSE b[c]]

split_block(b, a, size) ==
    LET n == a + Hdr + size
    IN  IF b[a].size < size + Hdr + Align THEN b
        ELSE [c \in DOMAIN b \cup {n} |->
                IF c = a THEN [size |-> size, free |-> b[a].free,
                               next |-> n, prev |-> b[a].prev]
                ELSE IF c = n THEN [size |-> b[a].size - size - Hdr, free |-> TRUE,
                                    next |-> b[a].next, prev |-> a]
                ELSE IF c = b[a].next THEN WithPrev(b[c], n)
                ELSE b[c]]

merge_next(b, a) ==
    LET n == b[a].next
    IN  IF n # Null /\ b[n].free
        THEN [c \in DOMAIN b \ {n} |->
                IF c = a THEN [size |-> b[a].size + Hdr + b[n].size, free |-> b[a].free,
                               next |-> b[n].next, prev |-> b[a].prev]
                ELSE IF c = b[n].next THEN WithPrev(b[c], a)
                ELSE b[c]]
        ELSE b

\* Mutant of coalesce: only backwards.
coalesce_backward(b, a) ==
    IF b[a].prev # Null /\ b[b[a].prev].free THEN merge_next(b, b[a].prev) ELSE b

\* The recursive call on prev finds no free block before prev (Coalesced), so
\* one level of it is the whole recursion.
coalesce(b, a) ==
    LET m == merge_next(b, a)
        p == m[a].prev
    IN  IF p # Null /\ m[p].free THEN merge_next(m, p) ELSE m

\* The block kmalloc's walk from head stops at: list order is address order.
FirstFit(b, a, size) ==
    /\ a \in DOMAIN b /\ b[a].free /\ b[a].size >= size
    /\ \A c \in DOMAIN b : b[c].free /\ b[c].size >= size => a <= c

Taken(b, a, size) == Marked(split_block(b, a, size), a, FALSE)

Freed(b, a) == coalesce(Marked(b, a, TRUE), a)

Refused(n) == n = 0 \/ n > SizeMod - Align

\* The n bytes from the payload of block a on are written: the headers that lie
\* there are lost.
Overwritten(b, a, n) == [c \in {x \in DOMAIN b : x <= a \/ x >= a + Hdr + n} |-> b[c]]

NoFit(n) == ~ \E a \in DOMAIN blocks : FirstFit(blocks, a, align_size(n))

-----------------------------------------------------------------------------
\* heap_init over the bootstrap arena.
HeapInit ==
    /\ blocks = [a \in {0} |-> [size |-> ArenaSize - Hdr, free |-> TRUE,
                                next |-> Null, prev |-> Null]]
    /\ used_size = 0
    /\ overrun = FALSE
    /\ requested = [a \in {} |-> 0]

kmalloc(n) ==
    \/ /\ Refused(n) \/ NoFit(n)
       /\ UNCHANGED heapVars
    \/ /\ ~Refused(n)
       /\ \E a \in DOMAIN blocks :
            /\ FirstFit(blocks, a, align_size(n))
            /\ blocks' = Taken(blocks, a, align_size(n))
            /\ used_size' = used_size + blocks'[a].size
            /\ requested' = [c \in DOMAIN requested \cup {a} |->
                               IF c = a THEN n ELSE requested[c]]
       /\ UNCHANGED overrun

\* kmalloc grants less than the n bytes that are then cleared.
ClearPast(n) ==
    /\ ~Refused(n)
    /\ \E a \in DOMAIN blocks :
         /\ FirstFit(blocks, a, align_size(n))
         /\ LET taken == Taken(blocks, a, align_size(n))
            IN  /\ n > taken[a].size
                /\ blocks' = Overwritten(taken, a, n)
                /\ used_size' = used_size + taken[a].size
         /\ requested' = [c \in DOMAIN requested \cup {a} |->
                            IF c = a THEN n ELSE requested[c]]
    /\ overrun' = TRUE

kcalloc(count, size) ==
    \/ /\ count # 0 /\ size > (SizeMod - 1) \div count
       /\ UNCHANGED heapVars
    \/ /\ count # 0 => size <= (SizeMod - 1) \div count
       /\ \/ /\ kmalloc(count * size)
             /\ \A a \in Live' \ Live : count * size <= blocks'[a].size
          \/ ClearPast(count * size)

\* Mutant of Release: the size is subtracted after the merge has changed it.
Release_late_count(a) ==
    LET b == Freed(blocks, a)
    IN  /\ blocks' = b
        /\ used_size' = used_size - (IF a \in DOMAIN b THEN b[a].size ELSE blocks[a].size)
        /\ requested' = [c \in DOMAIN requested \ {a} |-> requested[c]]
        /\ UNCHANGED overrun

\* kfree of the live block a.
Release(a) ==
    /\ blocks' = Freed(blocks, a)
    /\ used_size' = used_size - blocks[a].size
    /\ requested' = [c \in DOMAIN requested \ {a} |-> requested[c]]
    /\ UNCHANGED overrun

\* A pointer that no live block of this heap backs: NULL or out of the arena.
Foreign(a) == a < 0 \/ a >= ArenaSize

kfree(a) ==
    \/ Foreign(a) /\ UNCHANGED heapVars
    \/ a \in Live /\ Release(a)

\* Mutant of Relocate: the old block is freed before the new one is found.
Relocate_free_first(a, n) ==
    LET b == Freed(blocks, a)
    IN  \E c \in DOMAIN b :
            /\ FirstFit(b, c, align_size(n))
            /\ blocks' = Taken(b, c, align_size(n))
            /\ used_size' = used_size + blocks'[c].size - blocks[a].size
            /\ requested' = [x \in (DOMAIN requested \ {a}) \cup {c} |->
                               IF x = c THEN n ELSE requested[x]]
            /\ UNCHANGED overrun

\* The growing path of krealloc: a new block, the copy, the old block freed.
Relocate(a, n) ==
    \E c \in DOMAIN blocks :
        /\ FirstFit(blocks, c, align_size(n))
        /\ LET taken == Taken(blocks, c, align_size(n))
           IN  /\ taken[a].size <= taken[c].size
               /\ blocks' = Freed(taken, a)
               /\ used_size' = used_size + taken[c].size - taken[a].size
        /\ requested' = [x \in (DOMAIN requested \ {a}) \cup {c} |->
                           IF x = c THEN n ELSE requested[x]]
        /\ UNCHANGED overrun

\* The old payload is copied into a block that is smaller.
CopyPast(a, n) ==
    /\ \E c \in DOMAIN blocks :
         /\ FirstFit(blocks, c, align_size(n))
         /\ LET taken == Taken(blocks, c, align_size(n))
            IN  /\ taken[a].size > taken[c].size
                /\ blocks' = Overwritten(taken, c, taken[a].size)
                /\ used_size' = used_size + taken[c].size
         /\ requested' = [x \in DOMAIN requested \cup {c} |->
                            IF x = c THEN n ELSE requested[x]]
    /\ overrun' = TRUE

\* Mutant of krealloc: the in-place test is lost.
krealloc_always_moves(a, n) ==
    \/ a = Null /\ kmalloc(n)
    \/ a # Null /\ n = 0 /\ kfree(a)
    \/ a # Null /\ n # 0 /\ Foreign(a) /\ UNCHANGED heapVars
    \/ /\ n # 0 /\ a \in Live
       /\ \/ (Refused(n) \/ NoFit(n)) /\ UNCHANGED heapVars
          \/ ~Refused(n) /\ (Relocate(a, n) \/ CopyPast(a, n))

krealloc(a, n) ==
    \/ a = Null /\ kmalloc(n)
    \/ a # Null /\ n = 0 /\ kfree(a)
    \/ a # Null /\ n # 0 /\ Foreign(a) /\ UNCHANGED heapVars
    \/ /\ n # 0 /\ a \in Live /\ blocks[a].size >= n
       /\ requested' = [requested EXCEPT ![a] = n]
       /\ UNCHANGED <<blocks, used_size, overrun>>
    \/ /\ n # 0 /\ a \in Live /\ blocks[a].size < n
       /\ \/ (Refused(n) \/ NoFit(n)) /\ UNCHANGED heapVars
          \/ ~Refused(n) /\ (Relocate(a, n) \/ CopyPast(a, n))

Pointers == Live \cup {Null, ArenaSize}

HeapNext ==
    /\ ~overrun
    /\ \/ \E n \in Requests : kmalloc(n)
       \/ \E c, n \in Requests : kcalloc(c, n)
       \/ \E a \in Pointers : kfree(a)
       \/ \E a \in Pointers, n \in Requests : krealloc(a, n)

HeapSpec == HeapInit /\ [][HeapNext]_heapVars

-----------------------------------------------------------------------------
BlockEnd(a) == a + Hdr + blocks[a].size

Block == [size : Nat, free : BOOLEAN, next : Int, prev : Int]

\* Types; in particular no payload has a negative size.
HeapTypeOK ==
    /\ DOMAIN blocks \subseteq 0 .. ArenaSize - 1
    /\ blocks \in [DOMAIN blocks -> Block]
    /\ used_size \in Int
    /\ DOMAIN requested = Live
    /\ requested \in [DOMAIN requested -> Nat]

\* The list is the memory: from the header at the base, every block's next is
\* the header right behind its payload (the last block ends the arena) and
\* every prev undoes a next.  Split and merge both rely on it.
ListIsTiling ==
    /\ 0 \in DOMAIN blocks
    /\ \A a \in DOMAIN blocks :
        /\ IF blocks[a].next = Null
           THEN BlockEnd(a) = ArenaSize
           ELSE /\ blocks[a].next = BlockEnd(a)
                /\ BlockEnd(a) \in DOMAIN blocks
                /\ blocks[BlockEnd(a)].prev = a
        /\ IF blocks[a].prev = Null
           THEN a = 0
           ELSE /\ blocks[a].prev \in DOMAIN blocks
                /\ blocks[blocks[a].prev].next = a

\* No header or payload byte belongs to two blocks.
NoOverlap ==
    \A a, b \in DOMAIN blocks : a < b => BlockEnd(a) <= b

\* Two neighbouring blocks are never both free: kfree's merges are complete,
\* and the recursion of coalesce stops after one level.
Coalesced ==
    \A a \in DOMAIN blocks :
        blocks[a].next # Null => ~(blocks[a].free /\ blocks[blocks[a].next].free)

\* Once everything has been freed, whatever the order, the arena is one block
\* again: no sequence of calls leaves it fragmented for good.
WholeAgain ==
    Live = {} => /\ DOMAIN blocks = {0}
                 /\ blocks[0].size = ArenaSize - Hdr

\* heap_bytes_used is exactly the payload in live blocks, and with the headers
\* and the free payload it adds up to the arena.
Accounting ==
    /\ used_size = MapThenSumSet(LAMBDA a : blocks[a].size, Live)
    /\ MapThenSumSet(LAMBDA a : Hdr + blocks[a].size, DOMAIN blocks) = ArenaSize

\* Every pointer handed out is 16-aligned, and a live block is as large as its
\* owner asked, for requests below 2^32 - 15; beyond that align_size's 32-bit mask
\* drops the upper half of the size.
GrantCoversRequest ==
    \A a \in Live :
       /\ (a + Hdr) % Align = 0
       /\ requested[a] <= UIntMod - Align => requested[a] <= blocks[a].size

\* The books balance and every owner has what it asked for (kmalloc, kfree,
\* krealloc, align_size), until the heap writes past a block.
HeapExact == ~overrun => Accounting /\ GrantCoversRequest

\* The list of blocks is sound after any sequence of calls, and whole again when
\* everything was freed (split_block, merge_next, coalesce), until the heap writes
\* past a block.
HeapSound ==
    ~overrun => HeapTypeOK /\ ListIsTiling /\ NoOverlap /\ Coalesced /\ WholeAgain

\* kcalloc clears and krealloc copies within the block just granted, unless more
\* than 2^32 - 16 bytes were asked for.
WritesFit ==
    [][overrun' => \E c \in DOMAIN requested' \ DOMAIN requested :
                      requested'[c] > UIntMod - Align]_heapVars

\* The live payloads of b, each with its size: the abstract allocator's state.
LiveMap(b) ==
    [p \in {a + Hdr : a \in {c \in DOMAIN b : ~b[c].free}} |-> b[p - Hdr].size]
HeapPromise == INSTANCE Allocator WITH live <- LiveMap(blocks)

\* The heap implements the abstract allocator: a call grants, returns or moves
\* at most one region, where no other live region is, and touches no other, until
\* the heap writes past a block; WritesFit says which requests lead there.
ImplementsAllocator ==
    /\ HeapPromise!AllocatorInit
    /\ [][overrun' \/ HeapPromise!AllocatorNext]_(LiveMap(blocks))
=============================================================================
