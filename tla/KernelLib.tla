------------------------------ MODULE KernelLib -------------------------------
(* The kernel's small data structures: slabs, hash tables and paths.         *)
EXTENDS Integers, Sequences, SequencesExt, FiniteSets, FiniteSetsExt

-------------------------------------------------------------------------------
(***************************************************************************)
(* The slab cache (kernel/mm/slab.c): objects of one size, freed ones on a *)
(* list whose links lie in the objects themselves, so that whatever a user *)
(* writes into an object while it is live must not matter afterwards.      *)
(* No kernel code uses the cache yet; callers free live objects only.      *)
(***************************************************************************)

CONSTANTS SlabObjects, MaxSlabCalls

ASSUME SlabConstants == SlabObjects \subseteq Nat \ {0} /\ MaxSlabCalls \in Nat

VARIABLES
    cache,         \* free_list, allocated, freed
    first_word,    \* first word of each object: a link while it is free
    obtained,      \* objects kmalloc has granted
    live           \* history: objects in the hands of callers

slabVars == <<cache, first_word, obtained, live>>

SlabInit ==
    /\ cache = [free_list |-> 0, allocated |-> 0, freed |-> 0]
    /\ first_word = [o \in SlabObjects |-> 0]
    /\ obtained = {} /\ live = {}

\* From the free list, or a new object from the heap when the list is empty.
slab_alloc ==
    /\ cache.allocated < MaxSlabCalls
    /\ \/ /\ cache.free_list # 0
          /\ cache' = [cache EXCEPT !.free_list = first_word[cache.free_list], !.allocated = @ + 1]
          /\ live' = live \cup {cache.free_list}
          /\ UNCHANGED <<first_word, obtained>>
       \/ /\ cache.free_list = 0
          /\ \E o \in SlabObjects \ obtained :
                obtained' = obtained \cup {o} /\ live' = live \cup {o}
          /\ cache' = [cache EXCEPT !.allocated = @ + 1]
          /\ UNCHANGED first_word

\* Mutant of slab_free: the object is put on the list without its link.
slab_free_unlinked(o) ==
    /\ cache' = [cache EXCEPT !.free_list = o, !.freed = @ + 1]
    /\ live' = live \ {o}
    /\ UNCHANGED <<first_word, obtained>>

slab_free(o) ==
    /\ first_word' = [first_word EXCEPT ![o] = cache.free_list]
    /\ cache' = [cache EXCEPT !.free_list = o, !.freed = @ + 1]
    /\ live' = live \ {o}
    /\ UNCHANGED obtained

\* A caller writes into an object it holds.
Scribble(o) ==
    /\ first_word' = [first_word EXCEPT ![o] = o]
    /\ UNCHANGED <<cache, obtained, live>>

\* Freeing a null pointer does nothing.
slab_free_null == UNCHANGED slabVars

SlabNext == slab_alloc \/ slab_free_null \/ \E o \in live : slab_free(o) \/ Scribble(o)

slab_live_count == cache.allocated - cache.freed

FreeList ==
    FoldLeft(LAMBDA l, i : LET o == IF l = << >> THEN cache.free_list ELSE first_word[Last(l)]
                           IN  IF o = 0 THEN l ELSE Append(l, o),
             << >>, [i \in 1 .. Cardinality(SlabObjects) + 1 |-> i])

\* Every object the heap granted is either in a caller's hands or once on the
\* free list, never both, whatever callers write into their objects; the live
\* count is exact (slab_alloc, slab_free).
SlabExact ==
    /\ IsInjective(FreeList)
    /\ Range(FreeList) = obtained \ live
    /\ live \subseteq obtained
    /\ slab_live_count = Cardinality(live)

-------------------------------------------------------------------------------
(***************************************************************************)
(* The hash table of the kernel library (kernel/lib/hashmap.c): chains of  *)
(* entries out of a fixed array.  No kernel code uses it yet; callers are  *)
(* arbitrary.  A string is a model value, its hash a constant function.    *)
(***************************************************************************)

CONSTANTS
    MapKeys, MapValues,
    HashOf,        \* hashmap_hash_string on those keys
    BucketCount,
    EntryCapacity

ASSUME HashMapConstants ==
    /\ HashOf \in [MapKeys -> Nat] /\ BucketCount \in Nat \ {0} /\ EntryCapacity \in Nat

VARIABLES
    hmap,          \* buckets, entries, entry_count; index 0 is the null pointer
    dict           \* history: the last value put under each key not removed since

hashVars == <<hmap, dict>>

NoKey == "NULL"
NoEntry == [key |-> NoKey, value |-> 0, hash |-> 0, next |-> 0]
Missing == 0

hashmap_clear ==
    [buckets |-> [b \in 0 .. BucketCount - 1 |-> 0],
     entries |-> [e \in 1 .. EntryCapacity |-> NoEntry],
     entry_count |-> 0]

HashMapInit == hmap = hashmap_clear /\ dict = [k \in MapKeys |-> Missing]

bucket(key) == HashOf[key] % BucketCount

\* The entries met from the head of a bucket on; a chain longer than the array
\* would be circular.
ChainOf(b) ==
    FoldLeft(LAMBDA c, i : LET e == IF c = << >> THEN hmap.buckets[b] ELSE hmap.entries[Last(c)].next
                           IN  IF e = 0 THEN c ELSE Append(c, e),
             << >>, [i \in 1 .. EntryCapacity + 1 |-> i])

key_equals(e, key) ==
    hmap.entries[e].key # NoKey /\ hmap.entries[e].hash = HashOf[key] /\ hmap.entries[e].key = key

\* Position in the chain of the key's entry, 0 if it is not there.
Position(key) ==
    LET c == ChainOf(bucket(key))
        hits == {i \in DOMAIN c : key_equals(c[i], key)}
    IN  IF hits = {} THEN 0 ELSE Min(hits)

\* The first entry without a key, 0 when the array is full.
alloc_entry ==
    LET unused == {e \in 1 .. EntryCapacity : hmap.entries[e].key = NoKey}
    IN  IF hmap.entry_count >= EntryCapacity \/ unused = {} THEN 0 ELSE Min(unused)

hashmap_put(key, value) ==
    LET b == bucket(key)
        p == Position(key)
        e == alloc_entry
    IN  \/ /\ p # 0
           /\ hmap' = [hmap EXCEPT !.entries[ChainOf(b)[p]].value = value]
           /\ dict' = [dict EXCEPT ![key] = value]
        \/ /\ p = 0 /\ e # 0
           /\ hmap' = [hmap EXCEPT !.entry_count = @ + 1, !.buckets[b] = e,
                  !.entries[e] = [key |-> key, value |-> value, hash |-> HashOf[key], next |-> hmap.buckets[b]]]
           /\ dict' = [dict EXCEPT ![key] = value]

hashmap_get(key) ==
    LET p == Position(key) IN IF p = 0 THEN Missing ELSE hmap.entries[ChainOf(bucket(key))[p]].value

\* Mutant of hashmap_remove: the rest of the chain goes with the entry.
hashmap_remove_cuts(key) ==
    LET b == bucket(key)
        c == ChainOf(b)
        p == Position(key)
    IN  /\ p # 0
        /\ LET cut == IF p > 1 THEN [hmap EXCEPT !.entries[c[p - 1]].next = 0] ELSE [hmap EXCEPT !.buckets[b] = 0]
           IN  hmap' = [cut EXCEPT !.entries[c[p]] = NoEntry, !.entry_count = @ - 1]
        /\ dict' = [dict EXCEPT ![key] = Missing]

hashmap_remove(key) ==
    LET b == bucket(key)
        c == ChainOf(b)
        p == Position(key)
        after == hmap.entries[c[p]].next
    IN  /\ p # 0
        /\ LET cut == IF p > 1 THEN [hmap EXCEPT !.entries[c[p - 1]].next = after]
                      ELSE [hmap EXCEPT !.buckets[b] = after]
           IN  hmap' = [cut EXCEPT !.entries[c[p]] = NoEntry, !.entry_count = @ - 1]
        /\ dict' = [dict EXCEPT ![key] = Missing]

HashMapNext ==
    \/ \E k \in MapKeys, v \in MapValues : hashmap_put(k, v)
    \/ \E k \in MapKeys : hashmap_remove(k)
    \/ hmap' = hashmap_clear /\ dict' = [k \in MapKeys |-> Missing]

\* The table is a partial function: get returns what was last put, through
\* collisions, removals and reuse of entries; each entry in use is in exactly one
\* chain, the one of its hash; the count is exact, so a put of a new key fails
\* only when every entry is taken (hashmap_put, hashmap_get, hashmap_remove).
HashMapExact ==
    LET taken == {e \in 1 .. EntryCapacity : hmap.entries[e].key # NoKey}
    IN  /\ \A k \in MapKeys : hashmap_get(k) = dict[k]
        /\ hmap.entry_count = Cardinality({k \in MapKeys : dict[k] # Missing})
        /\ hmap.entry_count = Cardinality(taken)
        /\ \A e \in taken, b \in 0 .. BucketCount - 1 :
              Cardinality({i \in DOMAIN ChainOf(b) : ChainOf(b)[i] = e})
                = IF hmap.entries[e].hash % BucketCount = b THEN 1 ELSE 0

-------------------------------------------------------------------------------
(***************************************************************************)
(* Path strings (fs/path.c): normalisation into a bounded buffer, and the  *)
(* walk over the components of the result that vfs_lookup makes.           *)
(***************************************************************************)

CONSTANTS
    Chars,        \* "/", "." and the other characters
    MaxInput,     \* bound on the length of the paths given
    OutputSize,   \* VFS_PATH_MAX
    NameMax       \* VFS_NAME_MAX

ASSUME PathConstants ==
    {"/", "."} \subseteq Chars /\ MaxInput \in Nat /\ OutputSize > 1 /\ NameMax > 1

VARIABLES
    input,      \* the path given
    in,         \* characters of it consumed
    output,     \* the normalised path so far
    stage,      \* "normalize", "walk", "done" or "fail"
    cursor,     \* characters of output the walk has passed
    walked      \* the components handed to the lookup

pathVars == <<input, in, output, stage, cursor, walked>>

PathInit ==
    /\ input \in UNION {[1 .. n -> Chars] : n \in 0 .. MaxInput}
    /\ in = 0 /\ output = <<"/">> /\ stage = "normalize"
    /\ cursor = 0 /\ walked = << >>

\* How far the slashes, or the other characters, after position i go on.
PastSlashes(s, i) == Max({i} \cup {j \in i .. Len(s) : \A k \in i + 1 .. j : s[k] = "/"})
PastName(s, i) == Max({i} \cup {j \in i .. Len(s) : \A k \in i + 1 .. j : s[k] # "/"})

\* Mutant of Popped: the only component stays.
Popped_keeps_first(o) ==
    LET j == Max({1} \cup {k \in 1 .. Len(o) : o[k] = "/"})
    IN  SubSeq(o, 1, IF j > 1 THEN j - 1 ELSE Len(o))

\* ".." takes the last component and its separator away, except at the root.
Popped(o) ==
    LET j == Max({1} \cup {k \in 1 .. Len(o) : o[k] = "/"})
    IN  SubSeq(o, 1, IF j > 1 THEN j - 1 ELSE 1)

\* Room for a separator, the component and the final zero.
Fits(o, component) ==
    LET separator == IF Len(o) > 1 THEN 1 ELSE 0
    IN  /\ Len(o) + separator < OutputSize
        /\ Len(component) <= OutputSize - Len(o) - separator - 1

\* One turn of the loop of path_normalize.
path_normalize ==
    /\ stage = "normalize" /\ in < Len(input)
    /\ LET start == PastSlashes(input, in)
           end == PastName(input, start)
           component == SubSeq(input, start + 1, end)
       IN  /\ in' = end
           /\ \/ component \in {<< >>, <<".">>} /\ UNCHANGED <<output, stage>>
              \/ component = <<".", ".">> /\ output' = Popped(output) /\ UNCHANGED stage
              \/ /\ component \notin {<< >>, <<".">>, <<".", ".">>}
                 /\ IF Fits(output, component)
                    THEN /\ output' = (IF Len(output) > 1 THEN Append(output, "/") ELSE output)
                                      \o component
                         /\ UNCHANGED stage
                    ELSE stage' = "fail" /\ UNCHANGED output
    /\ UNCHANGED <<input, cursor, walked>>

path_normalized ==
    /\ stage = "normalize" /\ in = Len(input)
    /\ stage' = "walk"
    /\ UNCHANGED <<input, in, output, cursor, walked>>

\* One component of the normalised path, cut to what the buffer holds.
path_next_component ==
    /\ stage = "walk"
    /\ LET start == PastSlashes(output, cursor)
           end == PastName(output, start)
           component == SubSeq(output, start + 1, Min({end, start + NameMax - 1}))
       IN  /\ cursor' = end
           /\ IF end = start THEN stage' = "done" /\ UNCHANGED walked
              ELSE walked' = Append(walked, component) /\ UNCHANGED stage
    /\ UNCHANGED <<input, in, output>>

PathNext == path_normalize \/ path_normalized \/ path_next_component

PathSpec == PathInit /\ [][PathNext]_pathVars

-----------------------------------------------------------------------------
(* Reference: what a path means.                                           *)

\* The non-empty pieces of s between slashes.
Pieces(s) ==
    LET starts == {i \in 1 .. Len(s) : s[i] # "/" /\ (i = 1 \/ s[i - 1] = "/")}
        piece(i) == SubSeq(s, i, PastName(s, i))
    IN  [k \in 1 .. Cardinality(starts) |-> piece(SetToSortSeq(starts, <)[k])]

\* The names that lead from the root to where the path ends.
Meaning(pieces) ==
    FoldLeft(LAMBDA names, c : IF c = <<".">> THEN names
                               ELSE IF c = <<".", ".">>
                                    THEN SubSeq(names, 1, Len(names) - 1)
                                    ELSE Append(names, c),
             << >>, pieces)

RenderedLength(names) == Len(names) + FoldLeft(LAMBDA n, c : n + Len(c), 0, names)

\* Normalising and walking a path visits exactly the names the path means, each
\* cut to the length a name may have (path_normalize, path_next_component).
WalkIsMeaning ==
    stage = "done" =>
        walked = [k \in 1 .. Len(Meaning(Pieces(input))) |->
                     LET c == Meaning(Pieces(input))[k]
                     IN  SubSeq(c, 1, Min({Len(c), NameMax - 1}))]

\* The output always fits its buffer with the final zero, and a path is refused
\* exactly if on the way along it a name would not fit (path_normalize).
RefusedIfTooLong ==
    /\ Len(output) < OutputSize
    /\ stage \in {"done", "fail"} =>
         (stage = "fail") =
           \E k \in 0 .. Len(Pieces(input)) :
               RenderedLength(Meaning(SubSeq(Pieces(input), 1, k))) >= OutputSize

\* Both, for every path.
PathSound == WalkIsMeaning /\ RefusedIfTooLong
===============================================================================
