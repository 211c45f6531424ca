---------------------------- MODULE MallocProofs ----------------------------
(***************************************************************************)
(* The heap of a program, for every size of its headers and of the address *)
(* space.  As in HeapProofs the facts are stated of a block map c, because *)
(* free and realloc pass through maps that are no state of the program.    *)
(***************************************************************************)
EXTENDS Malloc, TLAPS

Chunk == [size : Nat, free : BOOLEAN, next : Nat]

TypedMap(c) == DOMAIN c \subseteq Nat \ {0} /\ c \in [DOMAIN c -> Chunk]

Held(c) == {x \in DOMAIN c : ~c[x].free}

\* The inductive invariant: UserHeapSound, the types, and the map's being a function.
MallocInv ==
    /\ TypedMap(chunks) /\ process_break \in Nat /\ process_break # 0
    /\ process_break >= FirstBreak /\ \A a \in DOMAIN chunks : FirstBreak <= a
    /\ DOMAIN chunks = {} /\ process_break < Half => process_break = FirstBreak
    /\ UserHeapSound

LEMMA Bounds == /\ Half \in Nat /\ Half >= 2 /\ AddrMod \in Nat /\ 2 * Half <= AddrMod
                /\ Meta \in Nat /\ Meta >= 1 /\ Granule \in Nat /\ Granule >= 1
                /\ FirstBreak \in Nat /\ FirstBreak >= 1 /\ FirstBreak < Half
  BY MallocConstants DEF Half

\* Rounding down to a multiple.
LEMMA Floor == \A x \in Nat, d \in Nat \ {0} :
    (x \div d) * d \in Nat /\ (x \div d) * d <= x /\ x < (x \div d) * d + d
  BY SMTT(30)

\* What a caller gets is at least what it asked for, and at most a granule more.
LEMMA AlignUpBounds ==
  ASSUME NEW n \in Nat, n <= Half - Meta - Granule
  PROVE  AlignUp(n) \in Nat /\ n <= AlignUp(n) /\ AlignUp(n) < n + Granule
<1> DEFINE x == n + Granule - 1
<1>1. x \in Nat /\ x < AddrMod
  BY Bounds
<1>2. x % AddrMod = x
  BY <1>1, Bounds
<1> HIDE DEF x
<1>3. AlignUp(n) = (x \div Granule) * Granule
  BY <1>2 DEF AlignUp, x
<1> DEFINE y == (x \div Granule) * Granule
<1>4. y \in Nat /\ y <= x /\ x < y + Granule
  BY <1>1, Floor, Bounds
<1> HIDE DEF y
<1>5. n <= y /\ y < n + Granule
  BY <1>4, Bounds DEF x
<1> QED
  BY <1>3, <1>4, <1>5 DEF y

\* The break after an extension is the sum, unreduced.
LEMMA BreakSum ==
  ASSUME NEW size \in Nat, size <= Half - Meta, process_break \in Nat, process_break < Half
  PROVE  NextBreak(size) = process_break + Meta + size
<1> DEFINE s == process_break + Meta + size
<1>1. s \in Nat /\ s < AddrMod
  BY Bounds
<1> HIDE DEF s
<1>2. s % AddrMod = s
  BY <1>1, Bounds
<1> QED
  BY <1>2 DEF NextBreak, s

LEMMA Fields ==
  ASSUME NEW c, TypedMap(c)
  PROVE  \A x \in DOMAIN c :
            /\ x \in Int /\ x > 0 /\ c[x].size \in Int /\ c[x].size >= 0
            /\ c[x].free \in BOOLEAN /\ c[x].next \in Int /\ c[x].next >= 0
  BY DEF TypedMap, Chunk

\* Setting the flag of a block moves nothing.
LEMMA FlaggedFacts ==
  ASSUME NEW c, TypedMap(c), NEW a \in DOMAIN c, NEW f \in BOOLEAN
  PROVE  LET g == Flagged(c, a, f)
         IN  /\ TypedMap(g) /\ DOMAIN g = DOMAIN c /\ (g[a].free <=> f)
             /\ \A x \in DOMAIN c : /\ g[x].size = c[x].size /\ g[x].next = c[x].next
                                    /\ x # a => g[x] = c[x]
  BY DEF Flagged, TypedMap, Chunk

LEMMA FlaggedChained ==
  ASSUME NEW c, NEW break, TypedMap(c), Chained(c, break), NEW a \in DOMAIN c, NEW f \in BOOLEAN
  PROVE  Chained(Flagged(c, a, f), break)
<1> DEFINE g == Flagged(c, a, f)
<1>1. /\ DOMAIN g = DOMAIN c
      /\ \A x \in DOMAIN c : g[x].size = c[x].size /\ g[x].next = c[x].next
  BY FlaggedFacts
<1> HIDE DEF g
<1>2. Chained(g, break)
  BY <1>1 DEF Chained, End
<1> QED
  BY <1>2 DEF g

\* Joining a free block with the next one keeps the chain, and what is held.
LEMMA MergeFacts ==
  ASSUME NEW c, NEW break \in Nat, TypedMap(c), Chained(c, break), NEW a \in DOMAIN c
  PROVE  LET m == MergeNext(c, a)
         IN  /\ TypedMap(m) /\ Chained(m, break)
             /\ a \in DOMAIN m /\ (m[a].free <=> c[a].free)
             /\ Held(m) = Held(c)
             /\ \A x \in DOMAIN m : x # a => m[x] = c[x]
             /\ FirstBreak \in DOMAIN c /\ (\A x \in DOMAIN c : FirstBreak <= x) => FirstBreak \in DOMAIN m
<1> DEFINE n == c[a].next
           m == MergeNext(c, a)
<1>f. \A x \in DOMAIN c :
            /\ x \in Int /\ x > 0 /\ c[x].size \in Int /\ c[x].size >= 0
            /\ c[x].free \in BOOLEAN /\ c[x].next \in Int /\ c[x].next >= 0
  BY Fields
<1>1. CASE ~(c[a].free /\ n # NoBlock /\ c[n].free)
  <2>1. m = c
    BY <1>1 DEF MergeNext
  <2> QED
    BY <2>1 DEF Held
<1>2. CASE c[a].free /\ n # NoBlock /\ c[n].free
  <2>1. n \in DOMAIN c /\ n = End(c, a)
    BY <1>2 DEF Chained
  <2>2. n > a
    BY <2>1, <1>f, Bounds DEF End
  <2>3. /\ DOMAIN m = DOMAIN c \ {n}
        /\ m[a] = [size |-> c[a].size + Meta + c[n].size, free |-> TRUE, next |-> c[n].next]
        /\ \A x \in DOMAIN m : x # a => m[x] = c[x]
    <3>1. m = [x \in DOMAIN c \ {n} |->
                 IF x = a THEN [size |-> c[a].size + Meta + c[n].size, free |-> TRUE, next |-> c[n].next] ELSE c[x]]
      BY <1>2 DEF MergeNext
    <3>2. a # n
      BY <2>2, <1>f
    <3> HIDE DEF m, n
    <3> QED
      BY <3>1, <3>2
  <2>4. TypedMap(m)
    <3>1. m \in [DOMAIN m -> Chunk]
      BY <1>2, <2>1, <1>f, Bounds DEF MergeNext, TypedMap, Chunk
    <3> QED
      BY <3>1, <2>3 DEF TypedMap
  <2> HIDE DEF m
  <2>5. m[a].size = c[a].size + Meta + c[n].size /\ m[a].next = c[n].next /\ m[a].free = TRUE
    BY <2>3
  <2>6. End(m, a) = End(c, n) /\ \A x \in DOMAIN m : x # a => End(m, x) = End(c, x)
    BY <2>5, <2>1, <2>3, <1>f, Bounds DEF End
  <2>7. Chained(m, break)
    <3>1. ASSUME NEW x \in DOMAIN m
          PROVE  /\ End(m, x) < Half /\ (break < Half => End(m, x) <= break)
                 /\ m[x].next = NoBlock => (break < Half => End(m, x) = break)
      <4>1. CASE x = a
        BY <4>1, <2>1, <2>5, <2>6 DEF Chained
      <4>2. CASE x # a
        BY <4>2, <2>3, <2>6 DEF Chained
      <4> QED
        BY <4>1, <4>2
    <3>2. ASSUME NEW x \in DOMAIN m, m[x].next # NoBlock
          PROVE  m[x].next = End(m, x) /\ m[x].next \in DOMAIN m
      <4>1. CASE x = a
        <5>1. c[n].next = End(c, n) /\ c[n].next \in DOMAIN c
          BY <4>1, <3>2, <2>1, <2>5 DEF Chained
        <5>2. c[n].next # n
          BY <5>1, <2>1, <1>f, Bounds DEF End
        <5> QED
          BY <4>1, <5>1, <5>2, <2>3, <2>5, <2>6
      <4>2. CASE x # a
        <5>1. c[x].next = End(c, x) /\ c[x].next \in DOMAIN c
          BY <4>2, <3>2, <2>3 DEF Chained
        <5>2. c[x].next # n
          <6>1. x < a => End(c, x) <= a
            BY <2>3 DEF Chained
          <6>2. a < x => End(c, a) <= x
            BY <2>3 DEF Chained
          <6>3. x \in DOMAIN c /\ x \in Int /\ a \in Int
            BY <2>3, <1>f
          <6>4. End(c, x) \in Int /\ End(c, a) \in Int /\ x < End(c, x)
            BY <6>3, <1>f, Bounds DEF End
          <6> QED
            BY <6>1, <6>2, <6>3, <6>4, <4>2, <5>1, <2>1, <2>2
        <5> QED
          BY <4>2, <5>1, <5>2, <2>3, <2>6
      <4> QED
        BY <4>1, <4>2
    <3>3. ASSUME NEW x \in DOMAIN m, NEW y \in DOMAIN m, x < y
          PROVE  End(m, x) <= y
      <4>1. CASE x = a
        <5>1. n <= y /\ y # n /\ y \in DOMAIN c
          BY <4>1, <3>3, <2>1, <2>3 DEF Chained
        <5>2. n < y
          BY <5>1, <1>f, <2>1
        <5> QED
          BY <5>1, <5>2, <4>1, <2>1, <2>6 DEF Chained
      <4>2. CASE x # a
        BY <4>2, <3>3, <2>3, <2>6 DEF Chained
      <4> QED
        BY <4>1, <4>2
    <3>4. ASSUME NEW x \in DOMAIN m, NEW y \in DOMAIN m, m[x].next = NoBlock, m[y].next = NoBlock
          PROVE  x = y
      <4> DEFINE old(z) == IF z = a THEN n ELSE z
      <4>1. old(x) \in DOMAIN c /\ c[old(x)].next = NoBlock
        BY <3>4, <2>1, <2>3, <2>5
      <4>2. old(y) \in DOMAIN c /\ c[old(y)].next = NoBlock
        BY <3>4, <2>1, <2>3, <2>5
      <4>3. old(x) = old(y)
        BY <4>1, <4>2 DEF Chained
      <4> QED
        BY <4>3, <2>3, <2>2
    <3> QED
      BY <3>1, <3>2, <3>3, <3>4 DEF Chained
  <2>8. Held(m) = Held(c)
    BY <2>3, <2>5, <1>2 DEF Held
  <2>9. (\A x \in DOMAIN c : FirstBreak <= x) => FirstBreak # n
    BY <2>2, <1>f, Bounds, <2>1
  <2>10. a \in DOMAIN m
    BY <2>3, <2>2, <1>f
  <2> QED
    BY <1>2, <2>3, <2>4, <2>5, <2>7, <2>8, <2>9, <2>10 DEF m
<1> QED
  BY <1>1, <1>2

\* Which entries a merge changes.
LEMMA MergeLinks ==
  ASSUME NEW c, TypedMap(c), NEW a \in DOMAIN c, c[a].next # a
  PROVE  /\ c[a].free /\ c[a].next # NoBlock /\ c[c[a].next].free =>
               /\ DOMAIN MergeNext(c, a) = DOMAIN c \ {c[a].next}
               /\ MergeNext(c, a)[a].next = c[c[a].next].next
         /\ ~(c[a].free /\ c[a].next # NoBlock /\ c[c[a].next].free) => MergeNext(c, a) = c
<1> DEFINE n == c[a].next
<1>1. CASE c[a].free /\ n # NoBlock /\ c[n].free
  <2>1. MergeNext(c, a) = [x \in DOMAIN c \ {n} |->
                 IF x = a THEN [size |-> c[a].size + Meta + c[n].size, free |-> TRUE, next |-> c[n].next] ELSE c[x]]
    BY <1>1 DEF MergeNext
  <2> HIDE DEF n
  <2> QED
    BY <2>1, <1>1 DEF n
<1>2. CASE ~(c[a].free /\ n # NoBlock /\ c[n].free)
  BY <1>2 DEF MergeNext
<1> QED
  BY <1>1, <1>2

\* The link of a block points past it; two blocks never link to the same one.
LEMMA LinkFacts ==
  ASSUME NEW c, NEW break, TypedMap(c), Chained(c, break), NEW x \in DOMAIN c, c[x].next # NoBlock
  PROVE  /\ c[x].next \in DOMAIN c /\ x < c[x].next /\ c[x].next # x
         /\ \A y \in DOMAIN c : c[y].next = c[x].next => y = x
<1>f. \A z \in DOMAIN c : z \in Int /\ z > 0 /\ c[z].size \in Int /\ c[z].size >= 0
  BY Fields
<1>1. c[x].next = End(c, x) /\ c[x].next \in DOMAIN c
  BY DEF Chained
<1>2. \A z \in DOMAIN c : End(c, z) \in Int /\ z < End(c, z)
  BY <1>f, Bounds DEF End
<1>3. ASSUME NEW y \in DOMAIN c, c[y].next = c[x].next PROVE y = x
  <2>1. c[y].next = End(c, y)
    BY <1>3 DEF Chained
  <2>2. (x < y => End(c, x) <= y) /\ (y < x => End(c, y) <= x)
    BY DEF Chained
  <2>3. End(c, x) \in Int /\ x < End(c, x) /\ End(c, y) \in Int /\ y < End(c, y) /\ x \in Int /\ y \in Int
    BY <1>2, <1>f
  <2>4. End(c, x) = End(c, y)
    BY <1>1, <1>3, <2>1
  <2> QED
    BY <2>2, <2>3, <2>4
<1> QED
  BY <1>1, <1>2, <1>3, <1>f

\* free: the block is no longer held, everybody else's is untouched, and no two free
\* blocks are left beside each other.
LEMMA ReleasedFacts ==
  ASSUME NEW c, NEW break \in Nat, TypedMap(c), Chained(c, break), Coalesced(c),
         NEW a \in DOMAIN c, ~c[a].free
  PROVE  LET r == Released(c, a)
         IN  /\ TypedMap(r) /\ Chained(r, break) /\ Coalesced(r)
             /\ DOMAIN r \subseteq DOMAIN c
             /\ Held(r) = Held(c) \ {a}
             /\ \A x \in Held(r) : r[x].size = c[x].size
             /\ FirstBreak \in DOMAIN c /\ (\A x \in DOMAIN c : FirstBreak <= x) => FirstBreak \in DOMAIN r
<1> DEFINE g == Flagged(c, a, TRUE)
           m == MergeNext(g, a)
           before == {p \in DOMAIN m : m[p].next = a}
           q == CHOOSE p \in before : TRUE
           r == Released(c, a)
<1>1. /\ TypedMap(g) /\ DOMAIN g = DOMAIN c /\ g[a].free
      /\ \A x \in DOMAIN c : /\ g[x].size = c[x].size /\ g[x].next = c[x].next
                             /\ x # a => g[x] = c[x]
  BY DEF Flagged, TypedMap, Chunk
<1>3. r = IF before = {} THEN m ELSE MergeNext(m, q)
  BY DEF Released, Coalesce
<1> HIDE DEF g, r
<1>2. Chained(g, break)
  BY <1>1 DEF Chained, End
<1>4. Held(g) = Held(c) \ {a}
  BY <1>1 DEF Held
<1>5. /\ TypedMap(m) /\ Chained(m, break) /\ a \in DOMAIN m /\ m[a].free /\ Held(m) = Held(g)
      /\ \A x \in DOMAIN m : x # a => m[x] = g[x]
      /\ FirstBreak \in DOMAIN g /\ (\A x \in DOMAIN g : FirstBreak <= x) => FirstBreak \in DOMAIN m
  BY <1>1, <1>2, MergeFacts
<1>6. g[a].next # a
  BY <1>1, <1>2, LinkFacts, Bounds, Fields DEF NoBlock
<1>7. IF g[a].next # NoBlock /\ g[g[a].next].free
      THEN DOMAIN m = DOMAIN g \ {g[a].next} /\ m[a].next = g[g[a].next].next
      ELSE m = g
  BY <1>1, <1>6, MergeLinks, SMTT(60)
<1>8. DOMAIN m \subseteq DOMAIN c
  BY <1>1, <1>7
<1>9. m[a].next # NoBlock => ~m[m[a].next].free
  <2> SUFFICES ASSUME m[a].next # NoBlock PROVE ~m[m[a].next].free
    OBVIOUS
  <2>1. m[a].next \in DOMAIN m /\ m[a].next # a
    BY <1>5, LinkFacts
  <2>2. m[m[a].next] = g[m[a].next] /\ g[m[a].next].free = c[m[a].next].free
    BY <2>1, <1>5, <1>8, <1>1
  <2>3. CASE g[a].next # NoBlock /\ g[g[a].next].free
    <3>1. g[a].next \in DOMAIN g /\ g[a].next # a
      BY <2>3, <1>1, <1>2, LinkFacts
    <3>2. c[g[a].next].free /\ c[g[a].next].next = m[a].next
      BY <3>1, <2>3, <1>1, <1>7
    <3> QED
      BY <3>1, <3>2, <2>2, <1>1 DEF Coalesced
  <2>4. CASE ~(g[a].next # NoBlock /\ g[g[a].next].free)
    BY <2>4, <1>7
  <2> QED
    BY <2>3, <2>4
<1>10. ASSUME NEW x \in DOMAIN m, x # a, m[x].free, m[x].next # NoBlock, m[x].next # a
       PROVE  ~m[m[x].next].free
  <2>1. m[x].next \in DOMAIN m
    BY <1>5, <1>10, LinkFacts
  <2>2. m[x] = g[x] /\ m[m[x].next] = g[m[x].next] /\ x \in DOMAIN c /\ m[x].next \in DOMAIN c
    BY <2>1, <1>5, <1>8, <1>10
  <2>3. c[x].free /\ c[x].next = m[x].next
    BY <2>2, <1>1, <1>10
  <2>4. ~c[m[x].next].free
    BY <2>2, <2>3, <1>10 DEF Coalesced
  <2> QED
    BY <2>4, <2>2, <1>1, <1>10
<1>11. \A x \in Held(m) : x # a /\ m[x].size = c[x].size
  BY <1>1, <1>5, <1>8 DEF Held
<1> HIDE DEF m
<1>12. CASE before = {}
  <2>1. r = m
    BY <1>3, <1>12
  <2>2. Coalesced(m)
    BY <1>9, <1>10, <1>12 DEF Coalesced
  <2> QED
    BY <2>1, <2>2, <1>1, <1>4, <1>5, <1>8, <1>11 DEF r
<1>13. CASE before # {}
  <2>1. q \in DOMAIN m /\ m[q].next = a
    BY <1>13
  <2>2. r = MergeNext(m, q)
    BY <1>3, <1>13
  <2> HIDE DEF q
  <2>0. a # NoBlock
    BY <1>5, Fields DEF NoBlock
  <2>3. q # a /\ \A y \in DOMAIN m : m[y].next = a => y = q
    BY <2>0, <2>1, <1>5, LinkFacts
  <2>4. /\ TypedMap(r) /\ Chained(r, break) /\ q \in DOMAIN r /\ (r[q].free <=> m[q].free) /\ Held(r) = Held(m)
        /\ \A x \in DOMAIN r : x # q => r[x] = m[x]
        /\ FirstBreak \in DOMAIN m /\ (\A x \in DOMAIN m : FirstBreak <= x) => FirstBreak \in DOMAIN r
    BY <2>1, <2>2, <1>5, MergeFacts
  <2>5. IF m[q].free THEN DOMAIN r = DOMAIN m \ {a} /\ r[q].next = m[a].next ELSE r = m
    BY <2>0, <2>1, <2>2, <2>3, <1>1, <1>5, MergeLinks, SMTT(60)
  <2>6. DOMAIN r \subseteq DOMAIN m
    BY <2>5
  <2>7. Coalesced(r)
    <3>1. CASE ~m[q].free
      BY <3>1, <2>3, <2>5, <1>9, <1>10 DEF Coalesced
    <3>2. CASE m[q].free
      <4> SUFFICES ASSUME NEW x \in DOMAIN r, r[x].free, r[x].next # NoBlock
                   PROVE  ~r[r[x].next].free
        BY DEF Coalesced
      <4>1. r[x].next \in DOMAIN r /\ r[x].next # x
        BY <2>4, LinkFacts
      <4>2. CASE x = q
        BY <4>1, <4>2, <3>2, <2>4, <2>5, <1>9
      <4>3. CASE x # q
        <5>1. r[x] = m[x] /\ x \in DOMAIN m /\ x # a /\ r[x].next # a
          BY <4>1, <4>3, <3>2, <2>4, <2>5
        <5>2. ~m[m[x].next].free
          BY <5>1, <1>10
        <5> QED
          BY <5>1, <5>2, <4>1, <3>2, <2>4
      <4> QED
        BY <4>2, <4>3
    <3> QED
      BY <3>1, <3>2
  <2>8. \A x \in Held(r) : r[x].size = c[x].size
    <3>1. ASSUME NEW x \in Held(r) PROVE r[x].size = c[x].size
      <4>1. x \in Held(m) /\ x \in DOMAIN r
        BY <2>4 DEF Held
      <4>2. CASE x = q
        BY <4>1, <4>2, <2>5, <1>11 DEF Held
      <4>3. CASE x # q
        BY <4>1, <4>3, <2>4, <1>11
      <4> QED
        BY <4>2, <4>3
    <3> QED
      BY <3>1
  <2> QED
    BY <2>4, <2>6, <2>7, <2>8, <1>1, <1>4, <1>5, <1>8 DEF r
<1> QED
  BY <1>12, <1>13

\* A block at the break becomes the last of the chain.
LEMMA ExtendedFacts ==
  ASSUME NEW c, TypedMap(c), Chained(c, process_break), Coalesced(c),
         process_break \in Nat, process_break # 0, process_break < Half,
         NEW size \in Nat, NEW nb \in Nat, nb = process_break + Meta + size, nb < Half,
         NEW e, e = Extended(c, size)
  PROVE  /\ TypedMap(e) /\ Chained(e, nb) /\ Coalesced(e)
         /\ DOMAIN e = DOMAIN c \cup {process_break} /\ process_break \notin DOMAIN c
         /\ e[process_break].size = size /\ ~e[process_break].free
         /\ \A x \in DOMAIN c : e[x].size = c[x].size /\ (e[x].free <=> c[x].free)
<1> DEFINE k == process_break
<1>f. \A x \in DOMAIN c :
            /\ x \in Int /\ x > 0 /\ c[x].size \in Int /\ c[x].size >= 0
            /\ c[x].free \in BOOLEAN /\ c[x].next \in Int /\ c[x].next >= 0
  BY Fields
<1>1. \A x \in DOMAIN c : End(c, x) <= k /\ End(c, x) \in Int /\ x < k
  <2>1. \A x \in DOMAIN c : End(c, x) <= k
    BY DEF Chained
  <2>2. \A x \in DOMAIN c : End(c, x) \in Int /\ x < End(c, x)
    BY <1>f, Bounds DEF End
  <2> QED
    BY <2>1, <2>2, <1>f
<1>2. k \notin DOMAIN c
  BY <1>1, <1>f
<1>3. /\ DOMAIN e = DOMAIN c \cup {k} /\ e[k] = [size |-> size, free |-> FALSE, next |-> NoBlock]
      /\ \A x \in DOMAIN c :
            e[x] = IF c[x].next = NoBlock THEN [size |-> c[x].size, free |-> c[x].free, next |-> k] ELSE c[x]
  BY <1>2 DEF Extended
<1>4. TypedMap(e)
  <2>1. e \in [DOMAIN e -> Chunk]
    BY <1>f DEF Extended, Chunk, NoBlock, TypedMap
  <2> QED
    BY <2>1, <1>3 DEF TypedMap
<1>5. /\ e[k].size = size /\ ~e[k].free /\ e[k].next = NoBlock
      /\ \A x \in DOMAIN c :
            /\ e[x].size = c[x].size /\ (e[x].free <=> c[x].free)
            /\ e[x].next = IF c[x].next = NoBlock THEN k ELSE c[x].next
  BY <1>3
<1>6. End(e, k) = nb /\ \A x \in DOMAIN c : End(e, x) = End(c, x)
  BY <1>5 DEF End
<1>7. k <= nb /\ k # NoBlock
  BY Bounds DEF NoBlock
<1>8. Chained(e, nb)
  <2>1. ASSUME NEW x \in DOMAIN e
        PROVE  /\ End(e, x) < Half /\ (nb < Half => End(e, x) <= nb)
               /\ IF e[x].next = NoBlock THEN nb < Half => End(e, x) = nb
                  ELSE e[x].next = End(e, x) /\ e[x].next \in DOMAIN e
    <3>1. CASE x = k
      BY <3>1, <1>5, <1>6
    <3>2. CASE x \in DOMAIN c /\ c[x].next = NoBlock
      <4>1. End(c, x) = k
        BY <3>2 DEF Chained
      <4> QED
        BY <4>1, <3>2, <1>3, <1>5, <1>6, <1>7
    <3>3. CASE x \in DOMAIN c /\ c[x].next # NoBlock
      <4>1. c[x].next = End(c, x) /\ c[x].next \in DOMAIN c
        BY <3>3 DEF Chained
      <4>2. End(e, x) = End(c, x) /\ End(c, x) \in Int /\ End(c, x) <= k
        BY <3>3, <1>1, <1>6
      <4>3. End(e, x) < Half /\ End(e, x) <= nb
        BY <4>2, <1>7, Bounds
      <4>4. e[x].next = c[x].next
        BY <3>3, <1>5
      <4> QED
        BY <4>1, <4>2, <4>3, <4>4, <3>3, <1>3
    <3> QED
      BY <3>1, <3>2, <3>3, <1>3
  <2>2. ASSUME NEW x \in DOMAIN e, NEW y \in DOMAIN e
        PROVE  /\ x < y => End(e, x) <= y
               /\ e[x].next = NoBlock /\ e[y].next = NoBlock => x = y
    <3>1. e[x].next = NoBlock /\ e[y].next = NoBlock => x = y
      <4>1. \A z \in DOMAIN c : e[z].next # NoBlock
        BY <1>5, <1>7
      <4> QED
        BY <4>1, <1>3
    <3>2. CASE x \in DOMAIN c /\ y \in DOMAIN c
      <4>1. x < y => End(c, x) <= y
        BY <3>2 DEF Chained
      <4> QED
        BY <3>1, <3>2, <4>1, <1>6
    <3>3. CASE x \in DOMAIN c /\ y = k
      BY <3>1, <3>3, <1>1, <1>6
    <3>4. CASE x = k
      <4>1. ~(x < y)
        BY <3>4, <1>1, <1>3, <1>f
      <4> QED
        BY <3>1, <4>1
    <3> QED
      BY <3>2, <3>3, <3>4, <1>3
  <2> QED
    BY <2>1, <2>2 DEF Chained
<1>9. Coalesced(e)
  <2> SUFFICES ASSUME NEW x \in DOMAIN e, e[x].free, e[x].next # NoBlock
               PROVE  ~e[e[x].next].free
    BY DEF Coalesced
  <2>1. x \in DOMAIN c /\ c[x].free
    BY <1>3, <1>5
  <2>2. CASE c[x].next = NoBlock
    BY <2>1, <2>2, <1>5
  <2>3. CASE c[x].next # NoBlock
    <3>1. c[x].next \in DOMAIN c /\ ~c[c[x].next].free
      BY <2>1, <2>3 DEF Coalesced, Chained
    <3> QED
      BY <3>1, <2>1, <2>3, <1>5
  <2> QED
    BY <2>2, <2>3
<1> QED
  BY <1>2, <1>3, <1>4, <1>5, <1>8, <1>9

-----------------------------------------------------------------------------
\* malloc finds block r for n bytes and leaves the map u and the break nb.
Reused(n, r, u, nb) == FirstFree(r, AlignUp(n)) /\ u = Flagged(chunks, r, FALSE) /\ nb = process_break
Added(n, r, u, nb) ==
    /\ CanExtend(AlignUp(n)) /\ r = process_break
    /\ u = Extended(chunks, AlignUp(n)) /\ nb = NextBreak(AlignUp(n))
Obtained(n, r, u, nb) == Reused(n, r, u, nb) \/ Added(n, r, u, nb)

LEMMA ObtainedFacts ==
  ASSUME MallocInv, NEW n \in Nat, n <= Half - Meta - Granule, NEW r, NEW u, NEW nb, Obtained(n, r, u, nb)
  PROVE  /\ TypedMap(u) /\ Chained(u, nb) /\ Coalesced(u)
         /\ nb \in Nat /\ nb # 0 /\ nb >= FirstBreak
         /\ DOMAIN u = DOMAIN chunks \cup {r} /\ r \in Nat /\ r >= FirstBreak
         /\ r \notin InUse /\ Held(u) = InUse \cup {r}
         /\ \A x \in InUse : u[x].size = chunks[x].size
         /\ n <= u[r].size
         /\ DOMAIN chunks = {} => r = FirstBreak
<1>1. AlignUp(n) \in Nat /\ n <= AlignUp(n) /\ AlignUp(n) <= Half - Meta
  BY AlignUpBounds, Bounds
<1>i. /\ TypedMap(chunks) /\ process_break \in Nat /\ process_break # 0 /\ process_break >= FirstBreak
      /\ Chained(chunks, process_break) /\ Coalesced(chunks) /\ \A a \in DOMAIN chunks : FirstBreak <= a
  BY DEF MallocInv, UserHeapSound
<1>2. CASE Reused(n, r, u, nb)
  <2>0. u = Flagged(chunks, r, FALSE) /\ nb = process_break
    BY <1>2 DEF Reused
  <2>1. r \in DOMAIN chunks /\ chunks[r].free /\ chunks[r].size >= AlignUp(n)
    BY <1>2 DEF Reused, FirstFree
  <2>2. /\ TypedMap(u) /\ DOMAIN u = DOMAIN chunks /\ ~u[r].free
        /\ \A x \in DOMAIN chunks : /\ u[x].size = chunks[x].size /\ u[x].next = chunks[x].next
                                    /\ x # r => u[x] = chunks[x]
    BY <2>0, <1>i, <2>1 DEF Flagged, TypedMap, Chunk
  <2>9. nb = process_break
    BY <2>0
  <2>3. Chained(u, nb)
    BY <2>9, <1>i, <2>2 DEF Chained, End
  <2>4. Coalesced(u)
    <3> SUFFICES ASSUME NEW x \in DOMAIN u, u[x].free, u[x].next # NoBlock PROVE ~u[u[x].next].free
      BY DEF Coalesced
    <3>1. x # r /\ u[x] = chunks[x] /\ x \in DOMAIN chunks
      BY <2>2
    <3>2. u[x].next \in DOMAIN chunks /\ ~chunks[u[x].next].free
      BY <3>1, <1>i DEF Coalesced, Chained
    <3> QED
      BY <3>2, <2>1, <2>2
  <2>5. r \in Nat /\ r >= FirstBreak
    BY <2>1, <1>i DEF TypedMap
  <2>6. n <= u[r].size
    BY <2>1, <2>2, <1>1, <1>i, Fields
  <2>7. r \notin InUse /\ Held(u) = InUse \cup {r}
    BY <2>1, <2>2 DEF InUse, Held
  <2>8. DOMAIN u = DOMAIN chunks \cup {r} /\ DOMAIN chunks # {}
    BY <2>1, <2>2
  <2>10. \A x \in InUse : u[x].size = chunks[x].size
    BY <2>2 DEF InUse
  <2> QED
    BY <2>9, <1>i, <2>2, <2>3, <2>4, <2>5, <2>6, <2>7, <2>8, <2>10
<1>3. CASE Added(n, r, u, nb)
  <2>0. r = process_break /\ u = Extended(chunks, AlignUp(n))
    BY <1>3 DEF Added
  <2>1. process_break < Half /\ nb < Half /\ nb = NextBreak(AlignUp(n))
    BY <1>3 DEF CanExtend, Added
  <2>2. nb = process_break + Meta + AlignUp(n) /\ nb \in Nat
    BY <1>1, <1>i, <2>1, BreakSum, Bounds
  <2>3. /\ TypedMap(u) /\ Chained(u, nb) /\ Coalesced(u)
        /\ DOMAIN u = DOMAIN chunks \cup {r} /\ r \notin DOMAIN chunks /\ u[r].size = AlignUp(n) /\ ~u[r].free
        /\ \A x \in DOMAIN chunks : u[x].size = chunks[x].size /\ (u[x].free <=> chunks[x].free)
    <3> DEFINE size == AlignUp(n)
    <3>1. size \in Nat /\ nb = process_break + Meta + size /\ u = Extended(chunks, size)
      BY <1>1, <2>0, <2>2
    <3> HIDE DEF size
    <3>2. /\ TypedMap(u) /\ Chained(u, nb) /\ Coalesced(u)
          /\ DOMAIN u = DOMAIN chunks \cup {process_break} /\ process_break \notin DOMAIN chunks
          /\ u[process_break].size = size /\ ~u[process_break].free
          /\ \A x \in DOMAIN chunks : u[x].size = chunks[x].size /\ (u[x].free <=> chunks[x].free)
      BY <3>1, <1>i, <2>1, <2>2, ExtendedFacts
    <3> QED
      BY <3>2, <2>0 DEF size
  <2>4. nb # 0 /\ nb >= FirstBreak
    BY <1>1, <1>i, <2>2, Bounds
  <2>5. r \notin InUse /\ Held(u) = InUse \cup {r}
    BY <2>3 DEF InUse, Held
  <2>6. n <= u[r].size /\ \A x \in InUse : u[x].size = chunks[x].size
    BY <1>1, <2>3 DEF InUse
  <2>7. DOMAIN chunks = {} => r = FirstBreak
    BY <2>0, <2>1 DEF MallocInv
  <2> QED
    BY <2>0, <1>i, <2>2, <2>3, <2>4, <2>5, <2>6, <2>7
<1> QED
  BY <1>2, <1>3 DEF Obtained

LEMMA MallocInvInit == MallocInit => MallocInv
  BY Bounds DEF MallocInit, MallocInv, TypedMap, Chunk, UserHeapSound, Chained, Coalesced, InUse

\* malloc that finds a block.
LEMMA GrantKeeps ==
  ASSUME MallocInv, NEW n \in Nat, n <= Half - Meta - Granule, NEW r,
         Obtained(n, r, chunks', process_break'),
         heap_head' = (IF heap_head = NoBlock THEN r ELSE heap_head), wanted' = Owned(r, n)
  PROVE  MallocInv'
<1>p. PICK u, nb : u = chunks' /\ nb = process_break'
  OBVIOUS
<1>q. Obtained(n, r, u, nb)
  BY <1>p
<1>o. /\ TypedMap(u) /\ Chained(u, nb) /\ Coalesced(u)
      /\ nb \in Nat /\ nb # 0 /\ nb >= FirstBreak
      /\ DOMAIN u = DOMAIN chunks \cup {r} /\ r \in Nat /\ r >= FirstBreak
      /\ r \notin InUse /\ Held(u) = InUse \cup {r}
      /\ \A x \in InUse : u[x].size = chunks[x].size
      /\ n <= u[r].size
      /\ DOMAIN chunks = {} => r = FirstBreak
  BY <1>q, ObtainedFacts, Zenon
<1>1. /\ TypedMap(chunks') /\ Chained(chunks', process_break') /\ Coalesced(chunks')
      /\ process_break' \in Nat /\ process_break' # 0 /\ process_break' >= FirstBreak
      /\ DOMAIN chunks' = DOMAIN chunks \cup {r} /\ r \in Nat /\ r >= FirstBreak
      /\ r \notin InUse /\ Held(chunks') = InUse \cup {r}
      /\ \A x \in InUse : chunks'[x].size = chunks[x].size
      /\ n <= chunks'[r].size
      /\ DOMAIN chunks = {} => r = FirstBreak
  BY <1>o, <1>p
<1>2. InUse' = InUse \cup {r}
  BY <1>1 DEF InUse, Held
<1>3. DOMAIN wanted' = InUse' /\ \A x \in InUse' : wanted'[x] <= chunks'[x].size
  BY <1>1, <1>2 DEF Owned, MallocInv, UserHeapSound
<1>4. DOMAIN chunks' # {} /\ FirstBreak \in DOMAIN chunks' /\ heap_head' = FirstBreak
  <2>1. /\ heap_head = (IF DOMAIN chunks = {} THEN NoBlock ELSE FirstBreak) /\ FirstBreak # NoBlock
        /\ DOMAIN chunks # {} => FirstBreak \in DOMAIN chunks
    BY Bounds DEF MallocInv, UserHeapSound, NoBlock
  <2>2. CASE DOMAIN chunks = {}
    BY <1>1, <2>1, <2>2
  <2>3. CASE ~(DOMAIN chunks = {})
    BY <1>1, <2>1, <2>3
  <2> QED
    BY <2>2, <2>3
<1>5. \A x \in DOMAIN chunks' : FirstBreak <= x
  BY <1>1, Bounds DEF MallocInv
<1> QED
  BY <1>1, <1>3, <1>4, <1>5 DEF MallocInv, UserHeapSound

\* Calls that change no block, but may push the break out of reach.
LEMMA DenyKeeps ==
  ASSUME MallocInv, NEW n \in Nat, n <= Half - Meta - Granule, Denied(n)
  PROVE  MallocInv'
<1>1. UNCHANGED <<chunks, heap_head, wanted>>
  BY DEF Denied
<1>2. CASE process_break' = process_break
  BY <1>1, <1>2 DEF MallocInv, UserHeapSound, InUse
<1>3. CASE process_break < Half /\ process_break' = NextBreak(AlignUp(n)) /\ ~CanExtend(AlignUp(n))
  <2>1. AlignUp(n) \in Nat /\ AlignUp(n) <= Half - Meta
    BY AlignUpBounds, Bounds
  <2>2. process_break \in Nat /\ process_break >= FirstBreak
    BY DEF MallocInv
  <2>3. process_break' = process_break + Meta + AlignUp(n)
    BY <1>3, <2>1, <2>2, BreakSum
  <2>4. process_break' \in Nat /\ process_break' # 0 /\ process_break' >= FirstBreak
    BY <2>1, <2>2, <2>3, Bounds
  <2>5. ~(process_break' < Half)
    BY <1>3 DEF CanExtend
  <2>6. Chained(chunks, process_break')
    BY <2>5 DEF MallocInv, UserHeapSound, Chained
  <2> QED
    BY <1>1, <2>4, <2>5, <2>6 DEF MallocInv, UserHeapSound, InUse
<1> QED
  BY <1>2, <1>3 DEF Denied

LEMMA FreeKeeps ==
  ASSUME MallocInv, NEW a \in InUse, free(a)
  PROVE  /\ MallocInv' /\ InUse' = InUse \ {a}
         /\ \A x \in InUse' : chunks'[x].size = chunks[x].size
<1>1. a \in DOMAIN chunks /\ ~chunks[a].free /\ chunks' = Released(chunks, a)
  BY DEF InUse, free
<1>2. /\ TypedMap(chunks') /\ Chained(chunks', process_break) /\ Coalesced(chunks')
      /\ DOMAIN chunks' \subseteq DOMAIN chunks /\ Held(chunks') = Held(chunks) \ {a}
      /\ \A x \in Held(chunks') : chunks'[x].size = chunks[x].size
      /\ FirstBreak \in DOMAIN chunks /\ (\A x \in DOMAIN chunks : FirstBreak <= x) => FirstBreak \in DOMAIN chunks'
  BY <1>1, ReleasedFacts DEF MallocInv, UserHeapSound
<1>3. InUse' = InUse \ {a} /\ InUse' = Held(chunks')
  BY <1>2 DEF InUse, Held
<1>4. FirstBreak \in DOMAIN chunks'
  BY <1>1, <1>2 DEF MallocInv, UserHeapSound
<1>5. wanted' = Disowned(a) /\ UNCHANGED <<heap_head, process_break>>
  BY DEF free
<1>6. DOMAIN wanted' = InUse' /\ \A x \in InUse' : wanted'[x] <= chunks'[x].size
  BY <1>2, <1>3, <1>5 DEF Disowned, MallocInv, UserHeapSound
<1>7. heap_head' = FirstBreak
  BY <1>1, <1>5 DEF MallocInv, UserHeapSound
<1>8. \A x \in DOMAIN chunks' : FirstBreak <= x
  BY <1>2 DEF MallocInv
<1> QED
  BY <1>2, <1>3, <1>4, <1>5, <1>6, <1>7, <1>8 DEF MallocInv, UserHeapSound

\* realloc that moves: block r is taken in the map u, then a is given back.
Moves(a, n, r, u) ==
    /\ Obtained(n, r, u, process_break') /\ chunks' = Released(u, a)
    /\ wanted' = [x \in (DOMAIN wanted \ {a}) \cup {r} |-> IF x = r THEN n ELSE wanted[x]]
    /\ UNCHANGED heap_head

LEMMA MoveKeeps ==
  ASSUME MallocInv, NEW n \in Nat, n <= Half - Meta - Granule, NEW a \in InUse, NEW r, NEW u, Moves(a, n, r, u)
  PROVE  /\ MallocInv'
         /\ TypedMap(u) /\ Chained(u, process_break') /\ r \in DOMAIN u /\ r \notin InUse
         /\ Held(u) = InUse \cup {r} /\ InUse' = (InUse \cup {r}) \ {a}
         /\ \A x \in InUse : u[x].size = chunks[x].size
         /\ \A x \in InUse' : chunks'[x].size = u[x].size
<1>p. PICK nb : nb = process_break'
  OBVIOUS
<1>q. Obtained(n, r, u, nb)
  BY <1>p DEF Moves
<1>o. /\ TypedMap(u) /\ Chained(u, nb) /\ Coalesced(u)
      /\ nb \in Nat /\ nb # 0 /\ nb >= FirstBreak
      /\ DOMAIN u = DOMAIN chunks \cup {r} /\ r \in Nat /\ r >= FirstBreak
      /\ r \notin InUse /\ Held(u) = InUse \cup {r}
      /\ \A x \in InUse : u[x].size = chunks[x].size
      /\ n <= u[r].size
      /\ DOMAIN chunks = {} => r = FirstBreak
  BY <1>q, ObtainedFacts, Zenon
<1>1. a \in DOMAIN u /\ ~u[a].free /\ a # r /\ chunks' = Released(u, a) /\ a \in DOMAIN chunks
  BY <1>o, SMTT(60) DEF Held, Moves, InUse
<1>2. /\ TypedMap(chunks') /\ Chained(chunks', nb) /\ Coalesced(chunks')
      /\ DOMAIN chunks' \subseteq DOMAIN u /\ Held(chunks') = Held(u) \ {a}
      /\ \A x \in Held(chunks') : chunks'[x].size = u[x].size
      /\ FirstBreak \in DOMAIN u /\ (\A x \in DOMAIN u : FirstBreak <= x) => FirstBreak \in DOMAIN chunks'
  BY <1>o, <1>1, ReleasedFacts, SMTT(60)
<1>3. InUse' = (InUse \cup {r}) \ {a} /\ InUse' = Held(chunks')
  BY <1>2, <1>o DEF InUse, Held
<1>4. FirstBreak \in DOMAIN chunks /\ heap_head = FirstBreak /\ \A x \in DOMAIN chunks : FirstBreak <= x
  BY <1>1 DEF MallocInv, UserHeapSound
<1>5. \A x \in DOMAIN u : FirstBreak <= x
  BY <1>o, <1>4, Bounds
<1>6. FirstBreak \in DOMAIN chunks' /\ \A x \in DOMAIN chunks' : FirstBreak <= x
  BY <1>2, <1>4, <1>5, <1>o, SMTT(60)
<1>7. DOMAIN wanted' = InUse' /\ \A x \in InUse' : wanted'[x] <= chunks'[x].size
  <2>1. DOMAIN wanted = InUse /\ \A x \in InUse : wanted[x] <= chunks[x].size
    BY DEF MallocInv, UserHeapSound
  <2>2. wanted' = [x \in (InUse \ {a}) \cup {r} |-> IF x = r THEN n ELSE wanted[x]]
    BY <2>1 DEF Moves
  <2> QED
    BY <2>1, <2>2, <1>1, <1>2, <1>3, <1>o, SMTT(60)
<1>8. heap_head' = FirstBreak
  BY <1>4, SMTT(60) DEF Moves
<1>9. MallocInv'
  BY <1>2, <1>6, <1>7, <1>8, <1>o, <1>p DEF MallocInv, UserHeapSound
<1> QED
  BY <1>2, <1>3, <1>9, <1>o, <1>p

\* The cases of realloc, and of malloc, as the lemmas above take them.
LEMMA MallocCases ==
  ASSUME MallocInv, NEW n \in Nat, malloc(n)
  PROVE  \/ Denied(n)
         \/ \E r : /\ Obtained(n, r, chunks', process_break') /\ wanted' = Owned(r, n)
                   /\ heap_head' = (IF heap_head = NoBlock THEN r ELSE heap_head)
<1> SUFFICES ASSUME NEW r \in DOMAIN chunks \cup {process_break}, Granted(n, r), wanted' = Owned(r, n)
             PROVE  /\ Obtained(n, r, chunks', process_break')
                    /\ heap_head' = (IF heap_head = NoBlock THEN r ELSE heap_head)
  BY Zenon DEF malloc
<1>1. CASE /\ FirstFree(r, AlignUp(n)) /\ chunks' = Flagged(chunks, r, FALSE)
           /\ UNCHANGED <<heap_head, process_break>>
  <2>1. heap_head # NoBlock
    BY <1>1, Bounds DEF FirstFree, MallocInv, UserHeapSound, NoBlock
  <2> QED
    BY <1>1, <2>1 DEF Obtained, Reused
<1>2. CASE /\ CanExtend(AlignUp(n)) /\ r = process_break /\ chunks' = Extended(chunks, AlignUp(n))
           /\ heap_head' = (IF heap_head = NoBlock THEN r ELSE heap_head)
           /\ process_break' = NextBreak(AlignUp(n))
  BY <1>2 DEF Obtained, Added
<1> QED
  BY <1>1, <1>2 DEF Granted

LEMMA ReallocCases ==
  ASSUME MallocInv, NEW n \in Nat, n <= Half - Meta - Granule, NEW a \in InUse, realloc(a, n)
  PROVE  \/ free(a)
         \/ n <= chunks[a].size /\ wanted' = Owned(a, n) /\ UNCHANGED <<chunks, heap_head, process_break>>
         \/ Denied(n)
         \/ \E r, u : Moves(a, n, r, u)
<1> DEFINE size == AlignUp(n)
           taken(r) == IF Fits(size) THEN Flagged(chunks, r, FALSE) ELSE Extended(chunks, size)
<1>1. ASSUME chunks[a].size >= size PROVE n <= chunks[a].size
  <2>1. size \in Nat /\ n <= size
    BY AlignUpBounds
  <2>2. chunks[a].size \in Int
    BY Fields DEF InUse, MallocInv
  <2> HIDE DEF size
  <2> QED
    BY <1>1, <2>1, <2>2
<1>2. ASSUME NEW r,
             IF Fits(size) THEN FirstFree(r, size) ELSE CanExtend(size) /\ r = process_break,
             chunks' = Released(taken(r), a),
             process_break' = IF Fits(size) THEN process_break ELSE NextBreak(size),
             wanted' = [x \in (DOMAIN wanted \ {a}) \cup {r} |-> IF x = r THEN n ELSE wanted[x]],
             UNCHANGED heap_head
      PROVE  Moves(a, n, r, taken(r))
  <2>1. Obtained(n, r, taken(r), process_break')
    BY <1>2 DEF Obtained, Reused, Added
  <2> QED
    BY <1>2, <2>1 DEF Moves
<1> QED
  BY <1>1, <1>2, Zenon DEF realloc

\* A product that passes the address space is refused; another is a size.
LEMMA CallocCases ==
  ASSUME NEW count \in Nat, NEW size \in Nat, Reasonable(count * size), calloc(count, size)
  PROVE  UNCHANGED mallocVars \/ \E n \in Nat : n <= Half - Meta - Granule /\ malloc(n)
<1> DEFINE product == count * size
           total == product % AddrMod
<1>1. product \in Nat
  OBVIOUS
<1>2. CASE product <= Half - Meta - Granule
  <2> HIDE DEF product
  <2>1. product < AddrMod
    BY <1>1, <1>2, Bounds
  <2>2. total = product
    BY <1>1, <2>1, Bounds
  <2>3. UNCHANGED mallocVars \/ malloc(product)
    BY <2>2 DEF calloc, product
  <2> QED
    BY <1>1, <1>2, <2>3
<1>3. CASE product >= AddrMod
  <2>1. total \in Nat /\ total < AddrMod
    BY <1>1, Bounds
  <2>2. count # 0
    BY <1>3, Bounds
  <2>3. total \div count # size
    <3>1. (total \div count) * count <= total
      BY <2>1, <2>2, Floor
    <3>2. SUFFICES ASSUME total \div count = size PROVE FALSE
      OBVIOUS
    <3>3. size * count <= total
      BY <3>1, <3>2
    <3>4. size * count = product
      OBVIOUS
    <3> HIDE DEF product, total
    <3> QED
      BY <3>3, <3>4, <1>1, <1>3, <2>1, Bounds
  <2> QED
    BY <2>2, <2>3 DEF calloc
<1> QED
  BY <1>2, <1>3 DEF Reasonable

\* Every call keeps the invariant.
LEMMA MallocInvNext == MallocInv /\ [MallocNext]_mallocVars => MallocInv'
<1> SUFFICES ASSUME MallocInv, [MallocNext]_mallocVars PROVE MallocInv'
  OBVIOUS
<1>1. CASE UNCHANGED mallocVars
  BY <1>1 DEF mallocVars, MallocInv, UserHeapSound, InUse
<1>s. \A n \in Sizes : n \in Nat /\ n <= Half - Meta - Granule
  BY MallocConstants, Bounds
<1>2. ASSUME NEW n \in Nat, n <= Half - Meta - Granule, malloc(n) PROVE MallocInv'
  BY <1>2, MallocCases, DenyKeeps, GrantKeeps, Zenon
<1>3. ASSUME NEW count \in Sizes, NEW size \in Sizes, Reasonable(count * size), calloc(count, size)
      PROVE  MallocInv'
  BY <1>1, <1>2, <1>3, <1>s, CallocCases, Zenon
<1>4. ASSUME NEW a \in InUse, free(a) PROVE MallocInv'
  BY <1>4, FreeKeeps
<1>5. ASSUME NEW a \in InUse, NEW n \in Sizes, realloc(a, n) PROVE MallocInv'
  <2>1. CASE n <= chunks[a].size /\ wanted' = Owned(a, n) /\ UNCHANGED <<chunks, heap_head, process_break>>
    <3>1. DOMAIN wanted' = InUse /\ \A x \in InUse : wanted'[x] <= chunks[x].size
      BY <2>1 DEF Owned, MallocInv, UserHeapSound
    <3> QED
      BY <2>1, <3>1 DEF MallocInv, UserHeapSound, InUse
  <2>2. ASSUME NEW r, NEW u, Moves(a, n, r, u) PROVE MallocInv'
    BY <1>s, <2>2, MoveKeeps
  <2> QED
    BY <1>4, <1>5, <1>s, <2>1, <2>2, ReallocCases, DenyKeeps, Zenon
<1> QED
  BY <1>1, <1>2, <1>3, <1>4, <1>5, <1>s, Zenon DEF MallocNext

LEMMA MallocInvariant == MallocSpec => []MallocInv
  BY MallocInvInit, MallocInvNext, PTL DEF MallocSpec

\* Whatever is called in whatever order, the blocks of malloc tile what sbrk gave, no
\* two free ones side by side, and every caller holds at least what it asked for.
THEOREM UserHeapSafety == MallocSpec => []UserHeapSound
<1>1. MallocInv => UserHeapSound
  BY DEF MallocInv
<1> QED
  BY <1>1, MallocInvariant, PTL

-----------------------------------------------------------------------------
\* The regions of the abstract allocator are the payloads of the blocks held.
LEMMA PayloadsDomain ==
  ASSUME NEW c, TypedMap(c)
  PROVE  /\ DOMAIN Payloads(c) = {a + Meta : a \in Held(c)}
         /\ \A a \in Held(c) : a + Meta \in DOMAIN Payloads(c) /\ Payloads(c)[a + Meta] = c[a].size
         /\ \A p \in DOMAIN Payloads(c) : p \in Int /\ p - Meta \in Held(c) /\ Payloads(c)[p] = c[p - Meta].size
<1>1. \A a \in Held(c) : a \in Int /\ (a + Meta) - Meta = a
  BY Fields, Bounds DEF Held
<1>2. Payloads(c) = [p \in {a + Meta : a \in Held(c)} |-> c[p - Meta].size]
  BY DEF Payloads, Held
<1>3. DOMAIN Payloads(c) = {a + Meta : a \in Held(c)}
  BY <1>2
<1>4. ASSUME NEW a \in Held(c) PROVE a + Meta \in DOMAIN Payloads(c) /\ Payloads(c)[a + Meta] = c[a].size
  <2>1. a + Meta \in DOMAIN Payloads(c)
    BY <1>3
  <2>2. Payloads(c)[a + Meta] = c[(a + Meta) - Meta].size
    BY <1>2, <1>3, <2>1
  <2> QED
    BY <1>1, <2>1, <2>2
<1>5. ASSUME NEW p \in DOMAIN Payloads(c)
      PROVE  p \in Int /\ p - Meta \in Held(c) /\ Payloads(c)[p] = c[p - Meta].size
  <2>1. PICK a \in Held(c) : p = a + Meta
    BY <1>3
  <2>2. p \in Int /\ p - Meta = a
    BY <1>1, <2>1, Bounds
  <2>3. Payloads(c)[p] = c[p - Meta].size
    BY <1>2, <1>3
  <2> QED
    BY <2>2, <2>3
<1> QED
  BY <1>3, <1>4, <1>5

\* A payload lies in the arena, and two of them are apart.
LEMMA PayloadsApart ==
  ASSUME NEW c, NEW break, TypedMap(c), Chained(c, break)
  PROVE  /\ \A a \in DOMAIN c : Arena!InArena(a + Meta, c[a].size)
         /\ \A a, b \in DOMAIN c : a # b => Arena!Apart(a + Meta, c[a].size, b + Meta, c[b].size)
<1>1. \A a \in DOMAIN c : a \in Int /\ 0 < a /\ c[a].size \in Int /\ 0 <= c[a].size
  BY Fields
<1>2. \A a \in DOMAIN c : a + Meta + c[a].size < Half
  BY DEF Chained, End
<1>3. \A a, b \in DOMAIN c : a # b => a + Meta + c[a].size <= b \/ b + Meta + c[b].size <= a
  BY <1>1 DEF Chained, End
<1>4. ASSUME NEW a \in DOMAIN c PROVE Arena!InArena(a + Meta, c[a].size)
  BY <1>1, <1>2, Bounds DEF Arena!InArena
<1>5. ASSUME NEW a \in DOMAIN c, NEW b \in DOMAIN c, a # b
      PROVE  Arena!Apart(a + Meta, c[a].size, b + Meta, c[b].size)
  BY <1>1, <1>3, <1>5, Bounds DEF Arena!Apart
<1> QED
  BY <1>4, <1>5

\* Map d holds block r besides those of c, and has its region besides those of c.
Gains(c, d, r) ==
    /\ r \in DOMAIN d /\ r \notin Held(c) /\ Held(d) = Held(c) \cup {r}
    /\ \A x \in Held(c) : d[x].size = c[x].size
GainsRegion(c, d, r) ==
    /\ Arena!InArena(r + Meta, d[r].size)
    /\ \A q \in DOMAIN Payloads(c) : Arena!Apart(r + Meta, d[r].size, q, Payloads(c)[q])
    /\ Payloads(d) = [q \in DOMAIN Payloads(c) \cup {r + Meta} |->
                         IF q = r + Meta THEN d[r].size ELSE Payloads(c)[q]]

\* Map d holds what c holds but block a.
Loses(c, d, a) == a \in Held(c) /\ Held(d) = Held(c) \ {a} /\ \A x \in Held(d) : d[x].size = c[x].size
LosesRegion(c, d, a) ==
    /\ a + Meta \in DOMAIN Payloads(c)
    /\ Payloads(d) = [q \in DOMAIN Payloads(c) \ {a + Meta} |-> Payloads(c)[q]]

LEMMA OneMore ==
  ASSUME NEW c, NEW d, NEW break, NEW r, TypedMap(c), TypedMap(d), Chained(d, break), Gains(c, d, r)
  PROVE  GainsRegion(c, d, r)
<1>0. /\ r \in DOMAIN d /\ r \notin Held(c) /\ Held(d) = Held(c) \cup {r}
      /\ \A x \in Held(c) : d[x].size = c[x].size
  BY DEF Gains
<1>1. Arena!InArena(r + Meta, d[r].size)
  BY <1>0, PayloadsApart
<1>2. ASSUME NEW q \in DOMAIN Payloads(c)
      PROVE  Arena!Apart(r + Meta, d[r].size, q, Payloads(c)[q])
  <2>1. q \in Int /\ q - Meta \in Held(c) /\ Payloads(c)[q] = c[q - Meta].size
    BY PayloadsDomain, Zenon
  <2>2. q - Meta \in DOMAIN d /\ q - Meta # r /\ d[q - Meta].size = c[q - Meta].size
    BY <1>0, <2>1 DEF Held
  <2>3. (q - Meta) + Meta = q
    BY <2>1, Bounds
  <2>4. Arena!Apart(r + Meta, d[r].size, (q - Meta) + Meta, d[q - Meta].size)
    BY <1>0, <2>2, PayloadsApart
  <2> QED
    BY <2>1, <2>2, <2>3, <2>4
<1>3. Payloads(d) = [q \in DOMAIN Payloads(c) \cup {r + Meta} |->
                       IF q = r + Meta THEN d[r].size ELSE Payloads(c)[q]]
  <2> DEFINE g == [q \in DOMAIN Payloads(c) \cup {r + Meta} |->
                     IF q = r + Meta THEN d[r].size ELSE Payloads(c)[q]]
  <2>1. DOMAIN Payloads(d) = DOMAIN Payloads(c) \cup {r + Meta}
    <3>1. DOMAIN Payloads(d) = {a + Meta : a \in Held(d)}
      BY PayloadsDomain, Zenon
    <3>2. DOMAIN Payloads(c) = {a + Meta : a \in Held(c)}
      BY PayloadsDomain, Zenon
    <3> QED
      BY <1>0, <3>1, <3>2
  <2>2. ASSUME NEW q \in DOMAIN Payloads(d) PROVE Payloads(d)[q] = g[q]
    <3>1. q \in Int /\ q - Meta \in Held(d) /\ Payloads(d)[q] = d[q - Meta].size
      BY PayloadsDomain, Zenon
    <3>2. CASE q = r + Meta
      <4>1. q - Meta = r
        BY <1>0, <3>2, Bounds, Fields, SMTT(60)
      <4> QED
        BY <2>1, <3>1, <3>2, <4>1
    <3>3. CASE q # r + Meta
      <4>1. q \in DOMAIN Payloads(c)
        BY <2>1, <3>3
      <4>2. q - Meta \in Held(c) /\ Payloads(c)[q] = c[q - Meta].size
        BY <4>1, PayloadsDomain, Zenon
      <4> QED
        BY <1>0, <2>1, <3>1, <3>3, <4>1, <4>2
    <3> QED
      BY <3>2, <3>3
  <2>3. Payloads(d) = [q \in DOMAIN Payloads(d) |-> Payloads(d)[q]]
    BY DEF Payloads
  <2> QED
    BY <2>1, <2>2, <2>3, Zenon
<1> QED
  BY <1>1, <1>2, <1>3 DEF GainsRegion

LEMMA OneLess ==
  ASSUME NEW c, NEW d, NEW a, TypedMap(c), TypedMap(d), Loses(c, d, a)
  PROVE  LosesRegion(c, d, a)
<1>0. a \in Held(c) /\ Held(d) = Held(c) \ {a} /\ \A x \in Held(d) : d[x].size = c[x].size
  BY DEF Loses
<1>1. a + Meta \in DOMAIN Payloads(c)
  BY <1>0, PayloadsDomain, Zenon
<1>2. \A x \in Held(c) : x + Meta = a + Meta => x = a
  BY <1>0, Fields, Bounds DEF Held
<1>3. DOMAIN Payloads(d) = DOMAIN Payloads(c) \ {a + Meta}
  <2>1. DOMAIN Payloads(c) = {x + Meta : x \in Held(c)}
    BY PayloadsDomain, Zenon
  <2>2. DOMAIN Payloads(d) = {x + Meta : x \in Held(d)}
    BY PayloadsDomain, Zenon
  <2> QED
    BY <1>0, <1>2, <2>1, <2>2
<1>4. ASSUME NEW q \in DOMAIN Payloads(d) PROVE Payloads(d)[q] = Payloads(c)[q]
  <2>1. q - Meta \in Held(d) /\ Payloads(d)[q] = d[q - Meta].size
    BY PayloadsDomain, Zenon
  <2>2. Payloads(c)[q] = c[q - Meta].size
    BY <1>3, PayloadsDomain, Zenon
  <2> QED
    BY <1>0, <2>1, <2>2
<1>5. Payloads(d) = [q \in DOMAIN Payloads(d) |-> Payloads(d)[q]]
  BY DEF Payloads
<1> QED
  BY <1>1, <1>3, <1>4, <1>5 DEF LosesRegion

\* Every call is a step of the abstract allocator, or leaves it alone.
LEMMA GrantAllocates ==
  ASSUME MallocInv, NEW n \in Nat, n <= Half - Meta - Granule, NEW r, Obtained(n, r, chunks', process_break')
  PROVE  Arena!AllocatorNext
<1>p. PICK u, nb : u = chunks' /\ nb = process_break'
  OBVIOUS
<1>q. Obtained(n, r, u, nb)
  BY <1>p
<1>o. /\ TypedMap(u) /\ Chained(u, nb) /\ Coalesced(u)
      /\ nb \in Nat /\ nb # 0 /\ nb >= FirstBreak
      /\ DOMAIN u = DOMAIN chunks \cup {r} /\ r \in Nat /\ r >= FirstBreak
      /\ r \notin InUse /\ Held(u) = InUse \cup {r}
      /\ \A x \in InUse : u[x].size = chunks[x].size
      /\ n <= u[r].size
      /\ DOMAIN chunks = {} => r = FirstBreak
  BY <1>q, ObtainedFacts, Zenon
<1>1. TypedMap(chunks) /\ Gains(chunks, u, r)
  BY <1>o, SMTT(60) DEF MallocInv, InUse, Held, Gains
<1>6. GainsRegion(chunks, u, r)
  BY <1>o, <1>1, OneMore
<1>2. /\ Arena!InArena(r + Meta, u[r].size)
      /\ \A q \in DOMAIN Payloads(chunks) : Arena!Apart(r + Meta, u[r].size, q, Payloads(chunks)[q])
      /\ Payloads(u) = [q \in DOMAIN Payloads(chunks) \cup {r + Meta} |->
                           IF q = r + Meta THEN u[r].size ELSE Payloads(chunks)[q]]
  BY <1>6 DEF GainsRegion
<1>3. Payloads(chunks)' = Payloads(u)
  BY <1>p DEF Payloads
<1>4. r + Meta \in DOMAIN Payloads(chunks)' /\ Payloads(chunks)'[r + Meta] = u[r].size
  BY <1>2, <1>3
<1>5. Arena!Allocate(r + Meta, Payloads(chunks)'[r + Meta])
  BY <1>2, <1>3, <1>4 DEF Arena!Allocate
<1> QED
  BY <1>4, <1>5 DEF Arena!AllocatorNext

LEMMA FreeReleases ==
  ASSUME MallocInv, NEW a \in InUse, free(a)
  PROVE  Arena!AllocatorNext
<1>p. PICK d : d = chunks'
  OBVIOUS
<1>1. MallocInv' /\ InUse' = InUse \ {a} /\ \A x \in InUse' : chunks'[x].size = chunks[x].size
  BY FreeKeeps
<1>2. TypedMap(chunks) /\ TypedMap(d) /\ Loses(chunks, d, a)
  BY <1>p, <1>1 DEF MallocInv, InUse, Held, Loses
<1>5. LosesRegion(chunks, d, a)
  BY <1>2, OneLess
<1>3. /\ a + Meta \in DOMAIN Payloads(chunks)
      /\ Payloads(d) = [q \in DOMAIN Payloads(chunks) \ {a + Meta} |-> Payloads(chunks)[q]]
  BY <1>5 DEF LosesRegion
<1>4. Payloads(chunks)' = Payloads(d)
  BY <1>p DEF Payloads
<1> QED
  BY <1>3, <1>4 DEF Arena!AllocatorNext, Arena!Release

LEMMA MoveMoves ==
  ASSUME MallocInv, NEW n \in Nat, n <= Half - Meta - Granule, NEW a \in InUse, NEW r, NEW u, Moves(a, n, r, u)
  PROVE  Arena!AllocatorNext
<1>p. PICK d, nb : d = chunks' /\ nb = process_break'
  OBVIOUS
<1>1. /\ MallocInv'
      /\ TypedMap(u) /\ Chained(u, process_break') /\ r \in DOMAIN u /\ r \notin InUse
      /\ Held(u) = InUse \cup {r} /\ InUse' = (InUse \cup {r}) \ {a}
      /\ \A x \in InUse : u[x].size = chunks[x].size
      /\ \A x \in InUse' : chunks'[x].size = u[x].size
  BY MoveKeeps
<1>2. /\ TypedMap(chunks) /\ TypedMap(d) /\ TypedMap(u) /\ Chained(u, nb) /\ r \in DOMAIN u
      /\ InUse = Held(chunks) /\ r \notin Held(chunks) /\ Held(u) = Held(chunks) \cup {r}
      /\ \A x \in Held(chunks) : u[x].size = chunks[x].size
  BY <1>p, <1>1, SMTT(60) DEF MallocInv, InUse, Held
<1>3. /\ a \in Held(u) /\ a # r /\ Held(d) = Held(u) \ {a} /\ \A x \in Held(d) : d[x].size = u[x].size
  BY <1>p, <1>1, <1>2 DEF InUse, Held
<1>4. /\ Arena!InArena(r + Meta, u[r].size)
      /\ \A q \in DOMAIN Payloads(chunks) : Arena!Apart(r + Meta, u[r].size, q, Payloads(chunks)[q])
      /\ Payloads(u) = [q \in DOMAIN Payloads(chunks) \cup {r + Meta} |->
                           IF q = r + Meta THEN u[r].size ELSE Payloads(chunks)[q]]
  <2>1. Gains(chunks, u, r)
    BY <1>2 DEF Gains
  <2>2. GainsRegion(chunks, u, r)
    BY <1>2, <2>1, OneMore
  <2> QED
    BY <2>2 DEF GainsRegion
<1>5. /\ a + Meta \in DOMAIN Payloads(u)
      /\ Payloads(d) = [q \in DOMAIN Payloads(u) \ {a + Meta} |-> Payloads(u)[q]]
  <2>1. Loses(u, d, a)
    BY <1>3 DEF Loses
  <2>2. LosesRegion(u, d, a)
    BY <1>2, <2>1, OneLess, SMTT(60)
  <2> QED
    BY <2>2 DEF LosesRegion
<1>6. a + Meta # r + Meta
  BY <1>2, <1>3, Fields, Bounds, SMTT(60) DEF Held
<1>7. Payloads(chunks)' = Payloads(d)
  BY <1>p DEF Payloads
<1>8. a + Meta \in DOMAIN Payloads(chunks)
  BY <1>4, <1>5, <1>6, ZenonT(60)
<1>9. Payloads(chunks)' = [q \in (DOMAIN Payloads(chunks) \ {a + Meta}) \cup {r + Meta} |->
                             IF q = r + Meta THEN u[r].size ELSE Payloads(chunks)[q]]
  BY <1>4, <1>5, <1>6, <1>7
<1>10. Arena!Move(a + Meta, r + Meta, Payloads(chunks)'[r + Meta])
  BY <1>4, <1>8, <1>9 DEF Arena!Move
<1> QED
  BY <1>8, <1>9, <1>10, SMTT(60) DEF Arena!AllocatorNext

LEMMA MallocStepRefines ==
  MallocInv /\ [MallocNext]_mallocVars => [Arena!AllocatorNext]_(Payloads(chunks))
<1> SUFFICES ASSUME MallocInv, [MallocNext]_mallocVars
             PROVE  [Arena!AllocatorNext]_(Payloads(chunks))
  OBVIOUS
<1>1. CASE UNCHANGED chunks
  BY <1>1 DEF Payloads
<1>s. \A n \in Sizes : n \in Nat /\ n <= Half - Meta - Granule
  BY MallocConstants, Bounds
<1>d. ASSUME NEW n, Denied(n) PROVE UNCHANGED chunks
  BY <1>d DEF Denied
<1>2. ASSUME NEW n \in Nat, n <= Half - Meta - Granule, malloc(n)
      PROVE  [Arena!AllocatorNext]_(Payloads(chunks))
  BY <1>1, <1>2, <1>d, MallocCases, GrantAllocates, Zenon
<1>3. ASSUME NEW count \in Sizes, NEW size \in Sizes, Reasonable(count * size), calloc(count, size)
      PROVE  [Arena!AllocatorNext]_(Payloads(chunks))
  <2>1. CASE UNCHANGED mallocVars
    BY <1>1, <2>1 DEF mallocVars
  <2> QED
    BY <1>2, <1>3, <1>s, <2>1, CallocCases, Zenon
<1>4. ASSUME NEW a \in InUse, free(a) PROVE [Arena!AllocatorNext]_(Payloads(chunks))
  BY <1>4, FreeReleases
<1>5. ASSUME NEW a \in InUse, NEW n \in Sizes, realloc(a, n)
      PROVE  [Arena!AllocatorNext]_(Payloads(chunks))
  <2>1. CASE UNCHANGED <<chunks, heap_head, process_break>>
    BY <1>1, <2>1
  <2>2. ASSUME NEW r, NEW u, Moves(a, n, r, u) PROVE Arena!AllocatorNext
    BY <1>s, <2>2, MoveMoves
  <2> QED
    BY <1>1, <1>4, <1>5, <1>d, <1>s, <2>1, <2>2, ReallocCases, Zenon
<1>6. CASE UNCHANGED mallocVars
  BY <1>1, <1>6 DEF mallocVars
<1> QED
  BY <1>2, <1>3, <1>4, <1>5, <1>6, <1>s, Zenon DEF MallocNext

\* malloc, calloc, realloc and free implement the abstract allocator: what callers
\* hold never overlaps, and no call touches a region of somebody else.
THEOREM UserHeapImplementsAllocator == MallocSpec => UserHeapIsAllocator
<1>1. MallocInit => Arena!AllocatorInit
  BY DEF MallocInit, Arena!AllocatorInit, Payloads
<1> QED
  BY <1>1, MallocInvariant, MallocStepRefines, PTL DEF MallocSpec, UserHeapIsAllocator, Arena!AllocatorSpec
=============================================================================
