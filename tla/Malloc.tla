-------------------------------- MODULE Malloc --------------------------------
(***************************************************************************)
(* The heap of a program (userland/libc/src/stdlib.c) over sbrk and        *)
(* sys_brk: a list of blocks in the order they were obtained.  malloc takes *)
(* the first free block that is large enough, whole, or moves the break;   *)
(* free merges free neighbours.                                            *)
(*                                                                         *)
(* sys_brk grants every address, and stores it before anybody looks: after *)
(* a request that passes the middle of the address space sbrk reports      *)
(* failure, and so does every later one.  The break is one variable of the *)
(* kernel; here one program uses it.                                       *)
(***************************************************************************)
EXTENDS Integers

CONSTANTS
    Meta,           \* sizeof(Block)
    Granule,        \* ALIGN
    AddrMod,        \* 2^64
    FirstBreak,     \* process_break when the program starts
    Sizes           \* the sizes and counts callers ask for

Half == AddrMod \div 2

\* From half the address space on, a size is a negative increment to sbrk: nobody
\* asks for that much.
ASSUME MallocConstants ==
    /\ Meta \in Nat \ {0} /\ Granule \in Nat \ {0} /\ AddrMod \in Nat
    /\ FirstBreak \in 1 .. Half - 1
    /\ Sizes \subseteq 0 .. Half - Meta - Granule

\* What calloc is asked for, likewise, unless the product overflows and is refused.
Reasonable(n) == n <= Half - Meta - Granule \/ n >= AddrMod

VARIABLES
    chunks,         \* address of a header -> [size, free, next]
    heap_head,
    process_break,
    wanted          \* history: header of a live block -> size its owner asked for

mallocVars == <<chunks, heap_head, process_break, wanted>>

NoBlock == 0

\* Mutant of AlignUp: the size is rounded down.
AlignUp_down(n) == (n \div Granule) * Granule

AlignUp(n) == (((n + Granule - 1) % AddrMod) \div Granule) * Granule

\* The block the walk of find_free stops at: the list is in address order.
FirstFree(a, size) ==
    /\ a \in DOMAIN chunks /\ chunks[a].free /\ chunks[a].size >= size
    /\ \A c \in DOMAIN chunks : chunks[c].free /\ chunks[c].size >= size => a <= c

Fits(size) == \E a \in DOMAIN chunks : FirstFree(a, size)

Flagged(c, a, free) == [x \in DOMAIN c |-> IF x = a THEN [size |-> c[a].size, free |-> free, next |-> c[a].next] ELSE c[x]]

Owned(a, n) == [x \in DOMAIN wanted \cup {a} |-> IF x = a THEN n ELSE wanted[x]]
Disowned(a) == [x \in DOMAIN wanted \ {a} |-> wanted[x]]

-----------------------------------------------------------------------------
MallocInit ==
    /\ chunks = [a \in {} |-> 0] /\ wanted = [a \in {} |-> 0]
    /\ heap_head = NoBlock /\ process_break = FirstBreak

\* The break after sbrk(Meta + size); a negative one fails, now and later.
NextBreak(size) == (process_break + Meta + size) % AddrMod
CanExtend(size) == process_break < Half /\ NextBreak(size) < Half

\* extend_heap and the walk to the tail: the block at the old break becomes the last.
Extended(c, size) ==
    [a \in DOMAIN c \cup {process_break} |->
        IF a = process_break THEN [size |-> size, free |-> FALSE, next |-> NoBlock]
        ELSE IF c[a].next = NoBlock THEN [size |-> c[a].size, free |-> c[a].free, next |-> process_break]
        ELSE c[a]]

\* malloc returns the block a to a caller who asked for n bytes.
Granted(n, a) ==
    /\ n # 0
    /\ \/ /\ FirstFree(a, AlignUp(n))
          /\ chunks' = Flagged(chunks, a, FALSE)
          /\ UNCHANGED <<heap_head, process_break>>
       \/ /\ ~Fits(AlignUp(n)) /\ CanExtend(AlignUp(n)) /\ a = process_break
          /\ chunks' = Extended(chunks, AlignUp(n))
          /\ heap_head' = IF heap_head = NoBlock THEN a ELSE heap_head
          /\ process_break' = NextBreak(AlignUp(n))

\* malloc returns null; the break is moved all the same.
Denied(n) ==
    /\ \/ n = 0 /\ UNCHANGED process_break
       \/ /\ n # 0 /\ ~Fits(AlignUp(n)) /\ ~CanExtend(AlignUp(n))
          /\ process_break' = IF process_break < Half THEN NextBreak(AlignUp(n)) ELSE process_break
    /\ UNCHANGED <<chunks, heap_head, wanted>>

malloc(n) ==
    \/ Denied(n)
    \/ \E a \in DOMAIN chunks \cup {process_break} : Granted(n, a) /\ wanted' = Owned(a, n)

\* The memory is cleared up to count * size; what it holds is nobody's business here.
calloc(count, size) ==
    LET total == (count * size) % AddrMod
    IN  IF count # 0 /\ total \div count # size THEN UNCHANGED mallocVars ELSE malloc(total)

\* Mutant of MergeNext: the neighbour's flag is not looked at.
MergeNext_blind(c, a) ==
    LET n == c[a].next
    IN  IF c[a].free /\ n # NoBlock
        THEN [x \in DOMAIN c \ {n} |->
                IF x = a THEN [size |-> c[a].size + Meta + c[n].size, free |-> TRUE, next |-> c[n].next] ELSE c[x]]
        ELSE c

\* One turn of the loop of free at block a.
MergeNext(c, a) ==
    LET n == c[a].next
    IN  IF c[a].free /\ n # NoBlock /\ c[n].free
        THEN [x \in DOMAIN c \ {n} |->
                IF x = a THEN [size |-> c[a].size + Meta + c[n].size, free |-> TRUE, next |-> c[n].next] ELSE c[x]]
        ELSE c

\* The loop looks at every block; no two neighbours were free before (Coalesced),
\* so it finds something to do only at the block freed and at the one before it.
Coalesce(c, a) ==
    LET m == MergeNext(c, a)
        before == {p \in DOMAIN m : m[p].next = a}
    IN  IF before = {} THEN m ELSE MergeNext(m, CHOOSE p \in before : TRUE)

Released(c, a) == Coalesce(Flagged(c, a, TRUE), a)

free(a) ==
    /\ chunks' = Released(chunks, a) /\ wanted' = Disowned(a)
    /\ UNCHANGED <<heap_head, process_break>>

\* Of the live block a.  A larger block is taken before the old one is given back; the
\* size malloc is passed is rounded up already, and rounding it again changes nothing.
realloc(a, n) ==
    \/ n = 0 /\ free(a)
    \/ /\ n # 0 /\ chunks[a].size >= AlignUp(n)
       /\ wanted' = Owned(a, n) /\ UNCHANGED <<chunks, heap_head, process_break>>
    \/ n # 0 /\ chunks[a].size < AlignUp(n) /\ Denied(n)
    \/ /\ n # 0 /\ chunks[a].size < AlignUp(n)
       /\ \E r \in DOMAIN chunks \cup {process_break} :
             LET size == AlignUp(n)
                 taken == IF Fits(size) THEN Flagged(chunks, r, FALSE) ELSE Extended(chunks, size)
             IN  /\ IF Fits(size) THEN FirstFree(r, size) ELSE CanExtend(size) /\ r = process_break
                 /\ chunks' = Released(taken, a)
                 /\ process_break' = IF Fits(size) THEN process_break ELSE NextBreak(size)
                 /\ wanted' = [x \in (DOMAIN wanted \ {a}) \cup {r} |-> IF x = r THEN n ELSE wanted[x]]
       /\ UNCHANGED heap_head

InUse == {a \in DOMAIN chunks : ~chunks[a].free}

MallocNext ==
    \/ \E n \in Sizes : malloc(n)
    \/ \E count \in Sizes, size \in Sizes : Reasonable(count * size) /\ calloc(count, size)
    \/ \E a \in InUse : free(a) \/ \E n \in Sizes : realloc(a, n)

MallocSpec == MallocInit /\ [][MallocNext]_mallocVars
-----------------------------------------------------------------------------
End(c, a) == a + Meta + c[a].size

\* The blocks of c lie one after the other up to the break, each linked to the next.
Chained(c, break) ==
    /\ \A a \in DOMAIN c :
          /\ End(c, a) < Half /\ (break < Half => End(c, a) <= break)
          /\ IF c[a].next = NoBlock THEN break < Half => End(c, a) = break
             ELSE c[a].next = End(c, a) /\ c[a].next \in DOMAIN c
    /\ \A a, b \in DOMAIN c :
          /\ a < b => End(c, a) <= b
          /\ c[a].next = NoBlock /\ c[b].next = NoBlock => a = b

\* No free block is followed by a free block.
Coalesced(c) == \A a \in DOMAIN c : c[a].free /\ c[a].next # NoBlock => ~c[c[a].next].free

\* The blocks lie end to end, no two free ones beside each other, so what free gave
\* back can be found again as one piece; and what a caller holds is as large as what
\* it asked for, through every order of malloc, calloc, realloc and free.
UserHeapSound ==
    /\ Chained(chunks, process_break) /\ Coalesced(chunks)
    /\ heap_head = (IF DOMAIN chunks = {} THEN NoBlock ELSE FirstBreak)
    /\ DOMAIN chunks # {} => FirstBreak \in DOMAIN chunks
    /\ DOMAIN wanted = InUse /\ \A a \in InUse : wanted[a] <= chunks[a].size

\* What callers hold: the payload of every block in use.
Payloads(c) == [p \in {a + Meta : a \in {x \in DOMAIN c : ~c[x].free}} |-> c[p - Meta].size]

Arena == INSTANCE Allocator WITH ArenaSize <- Half, live <- Payloads(chunks)

\* malloc, calloc, realloc and free behave as an allocator: regions appear where no
\* other is, stay until given back, and a region that grows by moving is apart
\* from its old place while it is copied.
UserHeapIsAllocator == Arena!AllocatorSpec
===============================================================================
