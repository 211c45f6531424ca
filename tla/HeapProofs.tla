----------------------------- MODULE HeapProofs -----------------------------
(***************************************************************************)
(* Proofs about the kernel heap for every arena size, header size and set  *)
(* of requests.  The invariants of Heap are restated over a block map b    *)
(* rather than the variable, because kfree and krealloc go through maps    *)
(* (after the split, after the first merge) that are no state of the       *)
(* system.                                                                 *)
(***************************************************************************)
EXTENDS Heap, FiniteSetTheorems, TLAPS

\* b is a well-formed block list: typed, linked both ways, tiling the arena.
Typed(b) ==
    /\ DOMAIN b \subseteq 0 .. ArenaSize - 1
    /\ 0 \in DOMAIN b
    /\ b \in [DOMAIN b -> Block]
Forward(b) ==
    \A a \in DOMAIN b :
        IF b[a].next = Null
        THEN a + Hdr + b[a].size = ArenaSize
        ELSE /\ b[a].next = a + Hdr + b[a].size
             /\ b[a].next \in DOMAIN b
             /\ b[b[a].next].prev = a
Backward(b) ==
    \A a \in DOMAIN b :
        IF b[a].prev = Null
        THEN a = 0
        ELSE b[a].prev \in DOMAIN b /\ b[b[a].prev].next = a
Disjoint(b) ==
    \A a, c \in DOMAIN b : a < c => a + Hdr + b[a].size <= c
WF(b) == Typed(b) /\ Forward(b) /\ Backward(b) /\ Disjoint(b)

\* No free block of b is followed by a free block.
NoFreePair(b) ==
    \A a \in DOMAIN b : b[a].next # Null => ~(b[a].free /\ b[b[a].next].free)

\* The aligned size that kmalloc looks for is a natural number.
LEMMA AlignNat == \A n \in Nat : align_size(n) \in Nat
<1> TAKE n \in Nat
<1> DEFINE x == (n + Align - 1) % SizeMod
<1>1. x \in Nat
  BY HeapConstants
<1>2. x \div Align \in Nat
  BY <1>1, HeapConstants
<1> HIDE DEF x
<1> DEFINE y == x \div Align
<1> HIDE DEF y
<1>3. y * Align \in Nat
  BY <1>2, HeapConstants DEF y
<1>4. (y * Align) % UIntMod \in Nat
  BY <1>3, HeapConstants
<1> QED
  BY <1>4 DEF align_size, x, y

\* The fields of a typed block list, one by one.
LEMMA Fields ==
  ASSUME NEW b, Typed(b)
  PROVE  \A c \in DOMAIN b :
           /\ c \in Int /\ 0 <= c /\ c < ArenaSize
           /\ b[c].size \in Int /\ 0 <= b[c].size /\ b[c].free \in BOOLEAN
           /\ b[c].next \in Int /\ b[c].prev \in Int
  BY HeapConstants DEF Typed, Block

\* Cutting a block in two keeps the list well formed.
LEMMA SplitWF ==
  ASSUME NEW b, WF(b), NEW a \in DOMAIN b, NEW size \in Nat, size <= b[a].size
  PROVE  WF(split_block(b, a, size))
<1> DEFINE n == a + Hdr + size
           s == split_block(b, a, size)
<1>1. CASE b[a].size < size + Hdr + Align
  BY <1>1 DEF split_block
<1>2. CASE ~(b[a].size < size + Hdr + Align)
  <2> USE HeapConstants DEF Null
  <2>1. \A c \in DOMAIN b :
           /\ c \in Int /\ 0 <= c /\ c < ArenaSize
           /\ b[c].size \in Int /\ 0 <= b[c].size /\ b[c].free \in BOOLEAN
           /\ b[c].next \in Int /\ b[c].prev \in Int
    BY Fields DEF WF
  <2>2. n \in Int /\ a < n /\ n + Hdr + Align <= a + Hdr + b[a].size
    BY <1>2, <2>1
  <2>3. a + Hdr + b[a].size <= ArenaSize
    BY <2>1 DEF WF, Forward
  <2>4. n \notin DOMAIN b /\ n < ArenaSize
    BY <2>1, <2>2, <2>3 DEF WF, Disjoint
  <2>5. s = [c \in DOMAIN b \cup {n} |->
                IF c = a THEN [size |-> size, free |-> b[a].free,
                               next |-> n, prev |-> b[a].prev]
                ELSE IF c = n THEN [size |-> b[a].size - size - Hdr, free |-> TRUE,
                                    next |-> b[a].next, prev |-> a]
                ELSE IF c = b[a].next THEN WithPrev(b[c], n)
                ELSE b[c]]
    BY <1>2 DEF split_block
  <2> HIDE DEF n, s
  <2>6. /\ DOMAIN s = DOMAIN b \cup {n}
        /\ s[a].size = size /\ s[a].next = n /\ s[a].prev = b[a].prev
        /\ s[n].size = b[a].size - size - Hdr /\ s[n].next = b[a].next /\ s[n].prev = a
    BY <2>2, <2>4, <2>5
  <2>7. \A c \in DOMAIN b : c # a =>
            /\ s[c].size = b[c].size /\ s[c].next = b[c].next
            /\ s[c].prev = IF c = b[a].next THEN n ELSE b[c].prev
    BY <2>4, <2>5 DEF WithPrev
  <2>8. Typed(s)
    <3>1. DOMAIN s \subseteq 0 .. ArenaSize - 1 /\ 0 \in DOMAIN s
      BY <2>1, <2>2, <2>4, <2>6 DEF WF, Typed
    <3>2. \A c \in DOMAIN s : s[c] \in Block
      <4> TAKE c \in DOMAIN s
      <4>1. CASE c = a
        BY <4>1, <2>1, <2>2, <2>5 DEF Block
      <4>2. CASE c = n
        <5>1. b[a].size - size - Hdr \in Nat
          BY <2>1, <2>2 DEF n
        <5> QED
          BY <4>2, <5>1, <2>1, <2>4, <2>5 DEF Block
      <4>3. CASE c # a /\ c # n /\ c = b[a].next
        BY <4>3, <2>1, <2>2, <2>5 DEF Block, WithPrev
      <4>4. CASE c # a /\ c # n /\ c # b[a].next
        BY <4>4, <2>5 DEF WF, Typed
      <4> QED
        BY <4>1, <4>2, <4>3, <4>4
    <3>3. s \in [DOMAIN s -> Block]
      BY <3>2, <2>5, Zenon
    <3> QED
      BY <3>1, <3>3 DEF Typed
  <2>9. Forward(s)
    BY <2>1, <2>2, <2>3, <2>4, <2>6, <2>7 DEF WF, Forward, n
  <2>10. Backward(s)
    BY <2>1, <2>2, <2>3, <2>4, <2>6, <2>7 DEF WF, Forward, Backward
  <2>11. Disjoint(s)
    BY <2>1, <2>2, <2>3, <2>4, <2>6, <2>7 DEF WF, Disjoint, n
  <2> QED
    BY <2>8, <2>9, <2>10, <2>11 DEF WF, s
<1> QED
  BY <1>1, <1>2

\* Setting the free flag of a block leaves the list well formed.
LEMMA MarkedWF ==
  ASSUME NEW b, WF(b), NEW a \in DOMAIN b, NEW f \in BOOLEAN
  PROVE  /\ WF(Marked(b, a, f))
         /\ DOMAIN Marked(b, a, f) = DOMAIN b
         /\ Marked(b, a, f)[a].free <=> f
         /\ \A c \in DOMAIN b :
              /\ Marked(b, a, f)[c].size = b[c].size
              /\ Marked(b, a, f)[c].next = b[c].next
              /\ Marked(b, a, f)[c].prev = b[c].prev
              /\ c # a => Marked(b, a, f)[c] = b[c]
<1> DEFINE m == Marked(b, a, f)
<1>1. \A c \in DOMAIN b :
         /\ c \in Int /\ 0 <= c /\ c < ArenaSize
         /\ b[c].size \in Int /\ 0 <= b[c].size /\ b[c].free \in BOOLEAN
         /\ b[c].next \in Int /\ b[c].prev \in Int
  BY Fields DEF WF
<1>2. m = [c \in DOMAIN b |->
             IF c = a THEN [size |-> b[a].size, free |-> f,
                            next |-> b[a].next, prev |-> b[a].prev]
             ELSE b[c]]
  BY DEF Marked
<1> HIDE DEF m
<1>3. /\ DOMAIN m = DOMAIN b /\ (m[a].free <=> f)
      /\ \A c \in DOMAIN b : /\ m[c].size = b[c].size /\ m[c].next = b[c].next
                             /\ m[c].prev = b[c].prev /\ (c # a => m[c] = b[c])
  BY <1>2
<1>4. Typed(m)
  <2>1. \A c \in DOMAIN b : m[c] \in Block
    <3> TAKE c \in DOMAIN b
    <3>1. CASE c = a
      BY <3>1, <1>1, <1>2 DEF Block
    <3>2. CASE c # a
      BY <3>2, <1>2 DEF WF, Typed
    <3> QED
      BY <3>1, <3>2
  <2>2. m \in [DOMAIN m -> Block]
    BY <2>1, <1>2
  <2> QED
    BY <2>2, <1>3 DEF WF, Typed
<1>5. Forward(m)
  BY <1>3 DEF WF, Forward
<1>6. Backward(m)
  BY <1>3 DEF WF, Backward
<1>7. Disjoint(m)
  BY <1>3 DEF WF, Disjoint
<1> QED
  BY <1>3, <1>4, <1>5, <1>6, <1>7 DEF WF, m

\* Absorbing the free block behind a keeps the list well formed; only the
\* absorbed header disappears, and only a changes its size or its next.
LEMMA MergeWF ==
  ASSUME NEW b, WF(b), NEW a \in DOMAIN b, b[a].next # Null, b[b[a].next].free
  PROVE  /\ WF(merge_next(b, a))
         /\ DOMAIN merge_next(b, a) = DOMAIN b \ {b[a].next}
         /\ a \in DOMAIN merge_next(b, a)
         /\ merge_next(b, a)[a].next = b[b[a].next].next
         /\ merge_next(b, a)[a].prev = b[a].prev
         /\ \A c \in DOMAIN merge_next(b, a) :
              /\ merge_next(b, a)[c].free = b[c].free
              /\ c # a => merge_next(b, a)[c].size = b[c].size
              /\ c # a => merge_next(b, a)[c].next = b[c].next
<1> USE HeapConstants DEF Null
<1> DEFINE n == b[a].next
           m == merge_next(b, a)
<1>1. \A c \in DOMAIN b :
         /\ c \in Int /\ 0 <= c /\ c < ArenaSize
         /\ b[c].size \in Int /\ 0 <= b[c].size /\ b[c].free \in BOOLEAN
         /\ b[c].next \in Int /\ b[c].prev \in Int
  BY Fields DEF WF
<1>2. n \in DOMAIN b /\ n = a + Hdr + b[a].size /\ a < n /\ b[n].prev = a
  BY <1>1 DEF WF, Forward
<1>3. m = [c \in DOMAIN b \ {n} |->
             IF c = a THEN [size |-> b[a].size + Hdr + b[n].size, free |-> b[a].free,
                            next |-> b[n].next, prev |-> b[a].prev]
             ELSE IF c = b[n].next THEN WithPrev(b[c], a)
             ELSE b[c]]
  BY DEF merge_next
<1>4. b[n].next # Null => /\ b[n].next = n + Hdr + b[n].size /\ b[n].next \in DOMAIN b
                          /\ b[b[n].next].prev = n /\ n < b[n].next
  BY <1>1, <1>2, SMTT(60) DEF WF, Forward
<1> HIDE DEF m, n
<1>5. /\ DOMAIN m = DOMAIN b \ {n} /\ a \in DOMAIN m
      /\ m[a].size = b[a].size + Hdr + b[n].size /\ m[a].next = b[n].next
      /\ m[a].prev = b[a].prev /\ m[a].free = b[a].free
  BY <1>1, <1>2, <1>3
<1>6. \A c \in DOMAIN m : c # a =>
          /\ m[c].size = b[c].size /\ m[c].next = b[c].next /\ m[c].free = b[c].free
          /\ m[c].prev = IF c = b[n].next THEN a ELSE b[c].prev
  BY <1>3 DEF WithPrev
<1>7. Typed(m)
  <2>1. \A c \in DOMAIN m : m[c] \in Block
    <3> TAKE c \in DOMAIN m
    <3>1. CASE c = a
      BY <3>1, <1>1, <1>2, <1>3, SMTT(90) DEF Block
    <3>2. CASE c # a /\ c = b[n].next
      BY <3>2, <1>1, <1>2, <1>3, <1>5 DEF Block, WithPrev
    <3>3. CASE c # a /\ c # b[n].next
      BY <3>3, <1>3, <1>5 DEF WF, Typed
    <3> QED
      BY <3>1, <3>2, <3>3
  <2>2. m \in [DOMAIN m -> Block]
    BY <2>1, <1>3
  <2>3. DOMAIN m \subseteq 0 .. ArenaSize - 1 /\ 0 \in DOMAIN m
    BY <1>1, <1>2, <1>5, SMTT(60) DEF WF, Typed
  <2> QED
    BY <2>2, <2>3 DEF Typed
<1>8. Forward(m)
  BY <1>1, <1>2, <1>4, <1>5, <1>6, SMTT(60) DEF WF, Forward, Backward
<1>9. Backward(m)
  BY <1>1, <1>2, <1>4, <1>5, <1>6, SMTT(60) DEF WF, Forward, Backward
<1>10. Disjoint(m)
  BY <1>1, <1>2, <1>4, <1>5, <1>6, SMTT(60) DEF WF, Disjoint
<1> QED
  BY <1>5, <1>6, <1>7, <1>8, <1>9, <1>10 DEF WF, m, n

\* The live blocks of b.
LiveIn(b) == {c \in DOMAIN b : ~b[c].free}

\* What kmalloc does to the list: block a becomes live, every other live block
\* is left as it is, and no free pair appears.
LEMMA TakenWF ==
  ASSUME NEW b, WF(b), NoFreePair(b), NEW a \in DOMAIN b, b[a].free,
         NEW size \in Nat, size <= b[a].size
  PROVE  /\ WF(Taken(b, a, size)) /\ NoFreePair(Taken(b, a, size))
         /\ LiveIn(Taken(b, a, size)) = LiveIn(b) \cup {a}
         /\ \A c \in LiveIn(b) : Taken(b, a, size)[c].size = b[c].size
         /\ size <= Taken(b, a, size)[a].size
         /\ Taken(b, a, size)[a].size <= b[a].size
<1> DEFINE n == a + Hdr + size
           s == split_block(b, a, size)
           t == Taken(b, a, size)
<1>1. \A c \in DOMAIN b :
         /\ c \in Int /\ 0 <= c /\ c < ArenaSize
         /\ b[c].size \in Int /\ 0 <= b[c].size /\ b[c].free \in BOOLEAN
         /\ b[c].next \in Int /\ b[c].prev \in Int
  BY Fields DEF WF
<1>2. WF(s)
  BY SplitWF
<1>3. CASE b[a].size < size + Hdr + Align
  <2>1. s = b
    BY <1>3, HeapConstants DEF Null, split_block
  <2> HIDE DEF s
  <2>2. /\ WF(t) /\ DOMAIN t = DOMAIN b /\ ~t[a].free
        /\ \A c \in DOMAIN b : t[c].size = b[c].size /\ t[c].next = b[c].next
                               /\ (c # a => t[c] = b[c])
    <3>1. WF(t)
      BY <2>1, MarkedWF, Zenon DEF Taken, s
    <3> QED
      BY <2>1, <3>1 DEF Taken, Marked, s
  <2> HIDE DEF t
  <2>3. LiveIn(t) = LiveIn(b) \cup {a}
    BY <2>2, HeapConstants DEF Null, LiveIn
  <2>4. NoFreePair(t)
    BY <2>2, HeapConstants DEF Null, NoFreePair, WF, Forward
  <2> QED
    BY <1>1, <2>2, <2>3, <2>4, HeapConstants DEF Null, LiveIn, t
<1>4. CASE ~(b[a].size < size + Hdr + Align)
  <2>1. n \in Int /\ a < n /\ n < a + Hdr + b[a].size
    BY <1>1, <1>4, HeapConstants
  <2>2. n \notin DOMAIN b
    BY <1>1, <2>1, HeapConstants DEF Null, WF, Disjoint
  <2>3. s = [c \in DOMAIN b \cup {n} |->
                IF c = a THEN [size |-> size, free |-> b[a].free,
                               next |-> n, prev |-> b[a].prev]
                ELSE IF c = n THEN [size |-> b[a].size - size - Hdr, free |-> TRUE,
                                    next |-> b[a].next, prev |-> a]
                ELSE IF c = b[a].next THEN WithPrev(b[c], n)
                ELSE b[c]]
    BY <1>4, HeapConstants DEF Null, split_block
  <2> HIDE DEF n, s
  <2>4. /\ DOMAIN s = DOMAIN b \cup {n} /\ s[a].size = size /\ s[a].next = n
        /\ s[n].next = b[a].next /\ s[n].free
        /\ \A c \in DOMAIN b : c # a => /\ s[c].size = b[c].size /\ s[c].next = b[c].next
                                        /\ s[c].free = b[c].free
    BY <2>1, <2>2, <2>3, HeapConstants, ZenonT(60) DEF Null, WithPrev
  <2>5. /\ WF(t) /\ DOMAIN t = DOMAIN s /\ ~t[a].free
        /\ \A c \in DOMAIN s : t[c].size = s[c].size /\ t[c].next = s[c].next
                               /\ (c # a => t[c] = s[c])
    <3>1. a \in DOMAIN s
      BY <2>4
    <3>2. WF(t)
      BY <1>2, <3>1, MarkedWF, Zenon DEF Taken, s
    <3> QED
      BY <3>1, <3>2 DEF Taken, Marked, s
  <2> HIDE DEF t
  <2>6. LiveIn(t) = LiveIn(b) \cup {a}
    BY <1>1, <2>1, <2>2, <2>4, <2>5, HeapConstants, SMTT(60) DEF Null, LiveIn
  <2>7. NoFreePair(t)
    BY <1>1, <2>1, <2>2, <2>4, <2>5, HeapConstants, SMTT(60) DEF Null, NoFreePair, WF, Forward
  <2> QED
    BY <1>1, <2>1, <2>4, <2>5, <2>6, <2>7, HeapConstants, SMTT(60) DEF Null, LiveIn, t
<1> QED
  BY <1>3, <1>4

\* What kfree does to the list: block a is live no more, every other live block
\* is left as it is, and the merges remove every free pair that marking a made.
LEMMA FreedWF ==
  ASSUME NEW b, WF(b), NoFreePair(b), NEW a \in DOMAIN b, ~b[a].free
  PROVE  /\ WF(Freed(b, a)) /\ NoFreePair(Freed(b, a))
         /\ LiveIn(Freed(b, a)) = LiveIn(b) \ {a}
         /\ \A c \in LiveIn(b) \ {a} : Freed(b, a)[c].size = b[c].size
<1> DEFINE m0 == Marked(b, a, TRUE)
           m1 == merge_next(m0, a)
           p  == m1[a].prev
           m2 == Freed(b, a)
<1>1. \A c \in DOMAIN b :
         /\ c \in Int /\ 0 <= c /\ c < ArenaSize
         /\ b[c].size \in Int /\ 0 <= b[c].size /\ b[c].free \in BOOLEAN
         /\ b[c].next \in Int /\ b[c].prev \in Int
  BY Fields DEF WF
<1>2. /\ WF(m0) /\ DOMAIN m0 = DOMAIN b /\ m0[a].free
      /\ \A c \in DOMAIN b : /\ m0[c].size = b[c].size /\ m0[c].next = b[c].next
                             /\ m0[c].prev = b[c].prev /\ (c # a => m0[c] = b[c])
  <2>1. WF(m0)
    BY MarkedWF, Zenon
  <2> QED
    BY <2>1 DEF Marked
<1>3. m2 = IF p # Null /\ m1[p].free THEN merge_next(m1, p) ELSE m1
  BY SMTT(60) DEF Freed, coalesce
<1> HIDE DEF m0, m2
\* After the first merge the only pair of free neighbours can be a and the
\* block before it.
<1>4. /\ WF(m1) /\ a \in DOMAIN m1 /\ m1[a].free
      /\ LiveIn(m1) = LiveIn(b) \ {a}
      /\ \A c \in LiveIn(b) \ {a} : m1[c].size = b[c].size
      /\ \A c \in DOMAIN m1 : m1[c].next # Null /\ m1[c].free /\ m1[m1[c].next].free
                                => m1[c].next = a
  <2>1. CASE m0[a].next # Null /\ m0[m0[a].next].free
    <3> DEFINE n == m0[a].next
    <3>1. /\ WF(m1) /\ DOMAIN m1 = DOMAIN m0 \ {n} /\ a \in DOMAIN m1
          /\ m1[a].next = m0[n].next
          /\ \A c \in DOMAIN m1 : /\ m1[c].free = m0[c].free
                                  /\ c # a => m1[c].size = m0[c].size
                                  /\ c # a => m1[c].next = m0[c].next
      BY <1>2, <2>1, MergeWF, SMTT(90)
    <3>2. n \in DOMAIN b /\ n # a /\ n = b[a].next /\ b[n].free
      BY <1>1, <1>2, <2>1, HeapConstants DEF Null, WF, Forward
    <3> HIDE DEF m1, n
    <3>3. LiveIn(m1) = LiveIn(b) \ {a}
      BY <1>2, <3>1, <3>2, HeapConstants DEF Null, LiveIn
    <3>4. ASSUME NEW c \in DOMAIN m1, m1[c].next # Null, m1[c].free, m1[m1[c].next].free
          PROVE  m1[c].next = a
      <4>1. m1[c].next \in DOMAIN m1
        BY <3>1, <3>4, HeapConstants, SMTT(60) DEF Null, WF, Forward
      <4>2. CASE c = a
        <5>1. b[n].next # Null /\ b[n].next # a /\ b[n].next \in DOMAIN b /\ ~b[b[n].next].free
          BY <1>1, <1>2, <3>1, <3>2, <3>4, <4>2, HeapConstants, SMTT(60) DEF Null, NoFreePair, WF, Forward
        <5> QED
          BY <1>2, <3>1, <3>2, <3>4, <4>1, <4>2, <5>1, SMTT(90)
      <4>3. CASE c # a
        BY <1>2, <3>1, <3>4, <4>1, <4>3, HeapConstants, SMTT(60) DEF Null, NoFreePair
      <4> QED
        BY <4>2, <4>3
    <3> QED
      BY <1>2, <3>1, <3>2, <3>3, <3>4, HeapConstants, SMTT(60) DEF Null, LiveIn
  <2>2. CASE ~(m0[a].next # Null /\ m0[m0[a].next].free)
    <3>1. m1 = m0
      BY <2>2, HeapConstants, SMTT(60) DEF Null, merge_next
    <3> QED
      BY <1>1, <1>2, <2>2, <3>1, HeapConstants, SMTT(60) DEF Null, LiveIn, NoFreePair, WF, Forward
  <2> QED
    BY <2>1, <2>2, SMTT(60)
<1> HIDE DEF m1
<1>5. CASE p # Null /\ m1[p].free
  <2>1. p \in DOMAIN m1 /\ m1[p].next = a /\ p # a
    BY <1>4, <1>5, Fields, HeapConstants DEF Null, WF, Backward, Forward
  <2>2. a # Null
    BY <1>1 DEF Null
  <2>3. /\ WF(m2) /\ DOMAIN m2 = DOMAIN m1 \ {a} /\ p \in DOMAIN m2
        /\ m2[p].next = m1[a].next
        /\ \A c \in DOMAIN m2 : /\ m2[c].free = m1[c].free
                                /\ c # p => m2[c].size = m1[c].size
                                /\ c # p => m2[c].next = m1[c].next
    <3>1. m2 = merge_next(m1, p)
      BY <1>3, <1>5
    <3>2. m1[p].next # Null /\ m1[m1[p].next].free
      BY <1>4, <2>1, <2>2
    <3> HIDE DEF p
    <3>3. WF(m1) /\ p \in DOMAIN m1
      BY <1>4, <2>1
    <3>4. WF(merge_next(m1, p))
      BY <3>2, <3>3, MergeWF, Zenon
    <3>5. DOMAIN merge_next(m1, p) = DOMAIN m1 \ {m1[p].next} /\ p \in DOMAIN merge_next(m1, p)
      BY <2>1, <3>2, <3>3 DEF merge_next
    <3>6. merge_next(m1, p)[p].next = m1[m1[p].next].next
      BY <2>1, <3>2, <3>3, SMTT(60) DEF merge_next
    <3>7. \A c \in DOMAIN merge_next(m1, p) :
              /\ merge_next(m1, p)[c].free = m1[c].free
              /\ c # p => merge_next(m1, p)[c].size = m1[c].size
              /\ c # p => merge_next(m1, p)[c].next = m1[c].next
      BY <2>1, <3>2, <3>3 DEF merge_next, WithPrev
    <3> QED
      BY <2>1, <3>1, <3>4, <3>5, <3>6, <3>7
  <2>4. NoFreePair(m2)
    <3> SUFFICES ASSUME NEW c \in DOMAIN m2, m2[c].next # Null, m2[c].free,
                        m2[m2[c].next].free
                 PROVE  FALSE
      BY DEF NoFreePair
    <3>1. m2[c].next \in DOMAIN m2
      BY <2>3, HeapConstants, SMTT(60) DEF Null, WF, Forward
    <3>2. CASE c = p
      BY <1>4, <2>1, <2>2, <2>3, <3>1, <3>2, SMTT(60)
    <3>3. CASE c # p
      BY <1>4, <2>3, <3>1, <3>3, SMTT(60)
    <3> QED
      BY <3>2, <3>3
  <2>5. LiveIn(m2) = LiveIn(b) \ {a}
    BY <1>4, <2>1, <2>3, HeapConstants, SMTT(60) DEF Null, LiveIn
  <2> QED
    BY <1>4, <1>5, <2>1, <2>3, <2>4, <2>5, HeapConstants, SMTT(60) DEF Null, LiveIn, m2
<1>6. CASE ~(p # Null /\ m1[p].free)
  <2>1. m2 = m1
    BY <1>3, <1>6, SMTT(60)
  <2>2. NoFreePair(m1)
    BY <1>4, <1>6, Fields, HeapConstants DEF Null, NoFreePair, WF, Forward
  <2> QED
    BY <1>4, <2>1, <2>2, HeapConstants DEF Null, m2
<1> QED
  BY <1>5, <1>6

-----------------------------------------------------------------------------
\* The inductive invariant.
HeapInv == HeapTypeOK /\ ListIsTiling /\ NoOverlap /\ Coalesced

\* The invariant is well-formedness of the variable plus the types of the rest.
BlocksInv ==
    /\ WF(blocks) /\ NoFreePair(blocks)
    /\ used_size \in Int
    /\ DOMAIN requested = LiveIn(blocks)
    /\ requested \in [DOMAIN requested -> Nat]

LEMMA HeapInvAsBlocksInv == HeapInv <=> BlocksInv
<1>1. HeapInv => WF(blocks)
  BY DEF HeapInv, HeapTypeOK, ListIsTiling, NoOverlap, WF, Typed, Forward, Backward,
         Disjoint, BlockEnd
<1>2. WF(blocks) => ListIsTiling /\ NoOverlap
  BY DEF ListIsTiling, NoOverlap, WF, Typed, Forward, Backward, Disjoint, BlockEnd
<1>3. Live = LiveIn(blocks) /\ (Coalesced <=> NoFreePair(blocks))
  BY DEF Live, LiveIn, Coalesced, NoFreePair
<1> QED
  BY <1>1, <1>2, <1>3 DEF HeapInv, BlocksInv, HeapTypeOK, WF, Typed

LEMMA BlocksInvInit == HeapInit => BlocksInv
<1> SUFFICES ASSUME HeapInit PROVE BlocksInv
  OBVIOUS
<1>1. Typed(blocks)
  BY HeapConstants DEF HeapInit, Typed, Block, Null
<1>2. Forward(blocks) /\ Backward(blocks) /\ Disjoint(blocks) /\ NoFreePair(blocks)
  BY HeapConstants DEF HeapInit, Forward, Backward, Disjoint, NoFreePair, Null
<1>3. DOMAIN requested = LiveIn(blocks) /\ requested \in [DOMAIN requested -> Nat]
  BY DEF HeapInit, LiveIn
<1>4. used_size \in Int
  BY DEF HeapInit
<1> QED
  BY <1>1, <1>2, <1>3, <1>4 DEF WF, BlocksInv

\* kmalloc, with the block it takes.
LEMMA KmallocStep ==
  ASSUME BlocksInv, NEW n \in Nat, kmalloc(n)
  PROVE  BlocksInv'
<1>1. CASE UNCHANGED heapVars
  BY <1>1 DEF BlocksInv, heapVars
<1>2. ASSUME NEW a \in DOMAIN blocks,
             FirstFit(blocks, a, align_size(n)),
             blocks' = Taken(blocks, a, align_size(n)),
             used_size' = used_size + blocks'[a].size,
             requested' = [c \in DOMAIN requested \cup {a} |->
                               IF c = a THEN n ELSE requested[c]]
      PROVE  BlocksInv'
  <2> DEFINE size == align_size(n)
  <2>1. size \in Nat /\ blocks' = Taken(blocks, a, size)
    BY <1>2, AlignNat
  <2>2. size <= blocks[a].size /\ blocks[a].free
    BY <1>2, <2>1, Fields DEF BlocksInv, FirstFit, WF
  <2> HIDE DEF size
  <2>3. WF(blocks') /\ NoFreePair(blocks') /\ LiveIn(blocks') = LiveIn(blocks) \cup {a}
    BY <2>1, <2>2, TakenWF DEF BlocksInv
  <2>4. used_size' \in Int
    <3>1. blocks'[a].size \in Int
      BY <2>3, Fields DEF WF, LiveIn
    <3> QED
      BY <1>2, <3>1 DEF BlocksInv
  <2>5. DOMAIN requested' = LiveIn(blocks') /\ requested' \in [DOMAIN requested' -> Nat]
    BY <1>2, <2>3 DEF BlocksInv
  <2> QED
    BY <2>3, <2>4, <2>5 DEF BlocksInv
<1> QED
  BY <1>1, <1>2, Zenon DEF kmalloc

\* kfree of a live block.
LEMMA ReleaseStep ==
  ASSUME BlocksInv, NEW a \in Live, Release(a)
  PROVE  BlocksInv'
<1>1. a \in DOMAIN blocks /\ ~blocks[a].free /\ blocks' = Freed(blocks, a)
  BY DEF Live, Release
<1>2. WF(blocks') /\ NoFreePair(blocks') /\ LiveIn(blocks') = LiveIn(blocks) \ {a}
  BY <1>1, FreedWF DEF BlocksInv
<1>3. used_size' \in Int
  <2>1. blocks[a].size \in Int
    BY <1>1, Fields DEF BlocksInv, WF
  <2> QED
    BY <2>1 DEF Release, BlocksInv
<1>4. DOMAIN requested' = LiveIn(blocks') /\ requested' \in [DOMAIN requested' -> Nat]
  BY <1>2 DEF BlocksInv, Release
<1> QED
  BY <1>2, <1>3, <1>4 DEF BlocksInv

\* The growing path of krealloc: the block taken is not the one freed, because
\* the one is free and the other live.
LEMMA RelocateStep ==
  ASSUME BlocksInv, NEW a \in Live, NEW n \in Nat, Relocate(a, n)
  PROVE  BlocksInv'
<1> DEFINE size == align_size(n)
<1>1. size \in Nat
  BY AlignNat
<1>2. PICK c \in DOMAIN blocks :
        /\ FirstFit(blocks, c, size)
        /\ blocks' = Freed(Taken(blocks, c, size), a)
        /\ used_size' = used_size + Taken(blocks, c, size)[c].size
                        - Taken(blocks, c, size)[a].size
        /\ requested' = [x \in (DOMAIN requested \ {a}) \cup {c} |->
                           IF x = c THEN n ELSE requested[x]]
  BY DEF Relocate
<1>3. size <= blocks[c].size /\ blocks[c].free
  BY <1>1, <1>2, Fields DEF BlocksInv, FirstFit, WF
<1> DEFINE t == Taken(blocks, c, size)
<1> HIDE DEF size
<1>4. a \in LiveIn(blocks) /\ a # c
  BY <1>3 DEF Live, LiveIn
<1>5. WF(t) /\ NoFreePair(t) /\ LiveIn(t) = LiveIn(blocks) \cup {c}
  BY <1>1, <1>3, TakenWF DEF BlocksInv
<1>6. blocks' = Freed(t, a)
  BY <1>2
<1>7. used_size' = used_size + t[c].size - t[a].size
  BY <1>2
<1> HIDE DEF t
<1>8. a \in DOMAIN t /\ ~t[a].free /\ c \in DOMAIN t
  BY <1>4, <1>5 DEF LiveIn
<1>9. WF(blocks') /\ NoFreePair(blocks') /\ LiveIn(blocks') = LiveIn(t) \ {a}
  BY <1>5, <1>6, <1>8, FreedWF
<1>10. used_size' \in Int
  <2>1. t[c].size \in Int /\ t[a].size \in Int
    BY <1>5, <1>8, Fields DEF WF
  <2> QED
    BY <2>1, <1>7 DEF BlocksInv
<1>11. DOMAIN requested' = LiveIn(blocks') /\ requested' \in [DOMAIN requested' -> Nat]
  BY <1>2, <1>4, <1>5, <1>9 DEF BlocksInv
<1> QED
  BY <1>9, <1>10, <1>11 DEF BlocksInv

\* Every call that writes only within the block it was granted keeps the invariant.
LEMMA BlocksInvStep == BlocksInv /\ [HeapNext]_heapVars /\ ~overrun' => BlocksInv'
<1> SUFFICES ASSUME BlocksInv, [HeapNext]_heapVars, ~overrun' PROVE BlocksInv'
  OBVIOUS
<1>1. CASE UNCHANGED heapVars
  BY <1>1 DEF BlocksInv, heapVars
<1>2. ASSUME NEW n \in Requests, kmalloc(n) PROVE BlocksInv'
  BY <1>2, KmallocStep, HeapConstants
<1>3. ASSUME NEW c \in Requests, NEW n \in Requests, kcalloc(c, n) PROVE BlocksInv'
  <2>1. c * n \in Nat
    BY HeapConstants
  <2> QED
    BY <1>1, <1>3, <2>1, KmallocStep DEF kcalloc, ClearPast
<1>4. ASSUME NEW a, kfree(a) PROVE BlocksInv'
  BY <1>1, <1>4, ReleaseStep DEF kfree
<1>5. ASSUME NEW a, NEW n \in Requests, krealloc(a, n) PROVE BlocksInv'
  <2>1. n \in Nat
    BY HeapConstants
  <2>2. CASE a = Null /\ kmalloc(n)
    BY <2>1, <2>2, KmallocStep
  <2>3. CASE a \in Live /\ Relocate(a, n)
    BY <2>1, <2>3, RelocateStep
  <2>4. CASE /\ a \in Live /\ requested' = [requested EXCEPT ![a] = n]
             /\ UNCHANGED <<blocks, used_size, overrun>>
    BY <2>1, <2>4, Zenon DEF BlocksInv, Live
  <2> QED
    BY <1>1, <1>4, <1>5, <2>2, <2>3, <2>4 DEF krealloc, CopyPast
<1> QED
  BY <1>1, <1>2, <1>3, <1>4, <1>5 DEF HeapNext

\* Nothing is called once the heap has written past a block.
LEMMA OverrunStays == overrun /\ [HeapNext]_heapVars => overrun'
  BY DEF HeapNext, heapVars

LEMMA BlocksInvariant == HeapSpec => [](~overrun => BlocksInv)
<1>1. (~overrun => BlocksInv) /\ [HeapNext]_heapVars => (~overrun => BlocksInv)'
  BY BlocksInvStep, OverrunStays
<1> QED
  BY <1>1, BlocksInvInit, PTL DEF HeapSpec

\* When every block has been freed the arena is one free block again, as
\* heap_init left it.
LEMMA InvWholeAgain == BlocksInv => WholeAgain
<1> SUFFICES ASSUME BlocksInv, Live = {}
             PROVE  DOMAIN blocks = {0} /\ blocks[0].size = ArenaSize - Hdr
  BY DEF WholeAgain
<1>1. \A c \in DOMAIN blocks :
         /\ c \in Int /\ 0 <= c /\ c < ArenaSize
         /\ blocks[c].size \in Int /\ 0 <= blocks[c].size /\ blocks[c].free \in BOOLEAN
         /\ blocks[c].next \in Int /\ blocks[c].prev \in Int
  BY Fields DEF BlocksInv, WF
<1>2. \A c \in DOMAIN blocks : blocks[c].free
  BY DEF Live
<1>3. 0 \in DOMAIN blocks /\ blocks[0].next = Null
  BY <1>2 DEF BlocksInv, NoFreePair, WF, Typed, Forward
<1>4. Hdr + blocks[0].size = ArenaSize
  BY <1>1, <1>3, HeapConstants DEF BlocksInv, WF, Forward
<1>5. \A c \in DOMAIN blocks : c = 0
  BY <1>1, <1>3, <1>4, HeapConstants DEF BlocksInv, WF, Disjoint
<1>6. DOMAIN blocks = {0}
  BY <1>3, <1>5
<1>7. blocks[0].size = ArenaSize - Hdr
  BY <1>1, <1>3, <1>4, HeapConstants
<1> QED
  BY <1>6, <1>7

\* The list of blocks is typed, tiles the arena without overlap, has no two free
\* neighbours and is one block once everything is freed, after any sequence of
\* kmalloc, kcalloc, krealloc and kfree, until one of them writes past the block it
\* was granted.
THEOREM HeapSafety == HeapSpec => []HeapSound
<1>1. (~overrun => BlocksInv) => HeapSound
  BY HeapInvAsBlocksInv, InvWholeAgain DEF HeapInv, HeapSound
<1> QED
  BY <1>1, BlocksInvariant, PTL

-----------------------------------------------------------------------------
\* The regions of the abstract allocator are the live payloads.
LEMMA LiveMapDomain ==
  ASSUME NEW b, Typed(b)
  PROVE  /\ DOMAIN LiveMap(b) = {a + Hdr : a \in LiveIn(b)}
         /\ \A a \in LiveIn(b) : a + Hdr \in DOMAIN LiveMap(b) /\ LiveMap(b)[a + Hdr] = b[a].size
         /\ \A q \in DOMAIN LiveMap(b) : q \in Int /\ q - Hdr \in LiveIn(b)
                                         /\ LiveMap(b)[q] = b[q - Hdr].size
<1>1. \A c \in DOMAIN b : c \in Int
  BY Fields
<1>2. \A a \in LiveIn(b) : a \in Int /\ (a + Hdr) - Hdr = a
  BY <1>1, HeapConstants DEF LiveIn
<1> QED
  BY <1>2, HeapConstants DEF LiveMap, LiveIn

\* A live payload lies in the arena, and two of them are apart.
LEMMA LivePayloads ==
  ASSUME NEW b, WF(b)
  PROVE  /\ \A a \in DOMAIN b : HeapPromise!InArena(a + Hdr, b[a].size)
         /\ \A a, c \in DOMAIN b : a # c => HeapPromise!Apart(a + Hdr, b[a].size, c + Hdr, b[c].size)
<1>1. \A c \in DOMAIN b :
         /\ c \in Int /\ 0 <= c /\ c < ArenaSize
         /\ b[c].size \in Int /\ 0 <= b[c].size
         /\ b[c].next \in Int
  BY Fields DEF WF
<1>2. \A a \in DOMAIN b : a + Hdr + b[a].size <= ArenaSize
  BY <1>1, HeapConstants DEF WF, Forward
<1>3. \A a, c \in DOMAIN b : a # c => \/ a + Hdr + b[a].size <= c
                                      \/ c + Hdr + b[c].size <= a
  BY <1>1 DEF WF, Disjoint
<1> QED
  BY <1>1, <1>2, <1>3, HeapConstants DEF HeapPromise!InArena, HeapPromise!Apart

\* Taking block a out of b adds one region, apart from those of b.
LEMMA TakenAllocates ==
  ASSUME NEW b, NEW t, WF(b), WF(t), NEW a \in DOMAIN t, a \notin LiveIn(b),
         LiveIn(t) = LiveIn(b) \cup {a},
         \A c \in LiveIn(b) : t[c].size = b[c].size
  PROVE  /\ HeapPromise!InArena(a + Hdr, t[a].size)
         /\ \A q \in DOMAIN LiveMap(b) :
               HeapPromise!Apart(a + Hdr, t[a].size, q, LiveMap(b)[q])
         /\ LiveMap(t) = [q \in DOMAIN LiveMap(b) \cup {a + Hdr} |->
                            IF q = a + Hdr THEN t[a].size ELSE LiveMap(b)[q]]
<1>1. HeapPromise!InArena(a + Hdr, t[a].size)
  BY LivePayloads
<1>2. ASSUME NEW q \in DOMAIN LiveMap(b)
      PROVE  HeapPromise!Apart(a + Hdr, t[a].size, q, LiveMap(b)[q])
  <2>1. q \in Int /\ q - Hdr \in LiveIn(b) /\ LiveMap(b)[q] = b[q - Hdr].size
    BY LiveMapDomain, Zenon DEF WF
  <2>2. q - Hdr \in DOMAIN t /\ q - Hdr # a /\ t[q - Hdr].size = b[q - Hdr].size
    BY <2>1 DEF LiveIn
  <2>3. (q - Hdr) + Hdr = q
    BY <2>1, HeapConstants
  <2>4. HeapPromise!Apart(a + Hdr, t[a].size, (q - Hdr) + Hdr, t[q - Hdr].size)
    BY <2>2, LivePayloads
  <2> QED
    BY <2>1, <2>2, <2>3, <2>4
<1>3. LiveMap(t) = [q \in DOMAIN LiveMap(b) \cup {a + Hdr} |->
                      IF q = a + Hdr THEN t[a].size ELSE LiveMap(b)[q]]
  <2> DEFINE g == [q \in DOMAIN LiveMap(b) \cup {a + Hdr} |->
                      IF q = a + Hdr THEN t[a].size ELSE LiveMap(b)[q]]
  <2>1. DOMAIN LiveMap(t) = DOMAIN LiveMap(b) \cup {a + Hdr}
    <3>1. DOMAIN LiveMap(t) = {c + Hdr : c \in LiveIn(t)}
      BY LiveMapDomain, Zenon DEF WF
    <3>2. DOMAIN LiveMap(b) = {c + Hdr : c \in LiveIn(b)}
      BY LiveMapDomain, Zenon DEF WF
    <3> QED
      BY <3>1, <3>2
  <2>2. ASSUME NEW q \in DOMAIN LiveMap(t) PROVE LiveMap(t)[q] = g[q]
    <3>1. q \in Int /\ q - Hdr \in LiveIn(t) /\ LiveMap(t)[q] = t[q - Hdr].size
      BY LiveMapDomain, Zenon DEF WF
    <3>2. CASE q = a + Hdr
      <4>1. q - Hdr = a
        BY <3>2, HeapConstants, Fields DEF WF
      <4> QED
        BY <2>1, <3>1, <3>2, <4>1
    <3>3. CASE q # a + Hdr
      <4>1. q \in DOMAIN LiveMap(b)
        BY <2>1, <3>3
      <4>2. q - Hdr \in LiveIn(b) /\ LiveMap(b)[q] = b[q - Hdr].size
        BY <4>1, LiveMapDomain, Zenon DEF WF
      <4> QED
        BY <2>1, <3>1, <3>3, <4>1, <4>2
    <3> QED
      BY <3>2, <3>3
  <2>3. LiveMap(t) = [q \in DOMAIN LiveMap(t) |-> LiveMap(t)[q]]
    BY DEF LiveMap
  <2> QED
    BY <2>1, <2>2, <2>3, Zenon
<1> QED
  BY <1>1, <1>2, <1>3

\* Freeing block a of t removes one region and keeps the others.
LEMMA FreedReleases ==
  ASSUME NEW t, NEW f, WF(t), WF(f), NEW a \in LiveIn(t),
         LiveIn(f) = LiveIn(t) \ {a},
         \A c \in LiveIn(t) \ {a} : f[c].size = t[c].size
  PROVE  /\ a + Hdr \in DOMAIN LiveMap(t)
         /\ LiveMap(f) = [q \in DOMAIN LiveMap(t) \ {a + Hdr} |-> LiveMap(t)[q]]
<1>1. a + Hdr \in DOMAIN LiveMap(t)
  BY LiveMapDomain, Zenon DEF WF
<1>2. \A c \in DOMAIN t : c \in Int
  BY Fields DEF WF
<1>3. DOMAIN LiveMap(f) = DOMAIN LiveMap(t) \ {a + Hdr}
  <2>1. \A c \in LiveIn(t) : c + Hdr = a + Hdr => c = a
    BY <1>2, HeapConstants DEF LiveIn
  <2>2. DOMAIN LiveMap(t) = {c + Hdr : c \in LiveIn(t)}
    BY LiveMapDomain, Zenon DEF WF
  <2>3. DOMAIN LiveMap(f) = {c + Hdr : c \in LiveIn(f)}
    BY LiveMapDomain, Zenon DEF WF
  <2> QED
    BY <2>1, <2>2, <2>3
<1>4. ASSUME NEW q \in DOMAIN LiveMap(f) PROVE LiveMap(f)[q] = LiveMap(t)[q]
  <2>1. q - Hdr \in LiveIn(f) /\ LiveMap(f)[q] = f[q - Hdr].size
    BY LiveMapDomain, Zenon DEF WF
  <2>2. LiveMap(t)[q] = t[q - Hdr].size
    BY <1>3, LiveMapDomain, Zenon DEF WF
  <2> QED
    BY <2>1, <2>2
<1>5. LiveMap(f) = [q \in DOMAIN LiveMap(f) |-> LiveMap(f)[q]]
  BY DEF LiveMap
<1> QED
  BY <1>1, <1>3, <1>4, <1>5

\* Every call that writes only within the block it was granted maps to a step of the
\* abstract allocator or leaves it alone.
LEMMA KmallocAllocates ==
  ASSUME BlocksInv, NEW n \in Nat, kmalloc(n)
  PROVE  [HeapPromise!AllocatorNext]_(LiveMap(blocks))
<1>1. CASE UNCHANGED heapVars
  BY <1>1 DEF heapVars
<1>2. ASSUME NEW a \in DOMAIN blocks,
             FirstFit(blocks, a, align_size(n)),
             blocks' = Taken(blocks, a, align_size(n))
      PROVE  HeapPromise!AllocatorNext
  <2> DEFINE size == align_size(n)
  <2>1. size \in Nat /\ blocks' = Taken(blocks, a, size)
    BY <1>2, AlignNat
  <2>2. size <= blocks[a].size /\ blocks[a].free
    BY <1>2, <2>1, Fields DEF BlocksInv, FirstFit, WF
  <2> HIDE DEF size
  <2>3. /\ WF(blocks') /\ LiveIn(blocks') = LiveIn(blocks) \cup {a}
        /\ \A c \in LiveIn(blocks) : blocks'[c].size = blocks[c].size
    BY <2>1, <2>2, TakenWF DEF BlocksInv
  <2>4. a \in DOMAIN blocks' /\ a \notin LiveIn(blocks)
    BY <2>2, <2>3 DEF LiveIn
  <2>5. /\ HeapPromise!InArena(a + Hdr, blocks'[a].size)
        /\ \A q \in DOMAIN LiveMap(blocks) :
              HeapPromise!Apart(a + Hdr, blocks'[a].size, q, LiveMap(blocks)[q])
        /\ LiveMap(blocks') = [q \in DOMAIN LiveMap(blocks) \cup {a + Hdr} |->
                            IF q = a + Hdr THEN blocks'[a].size ELSE LiveMap(blocks)[q]]
    BY <2>3, <2>4, TakenAllocates, SMTT(90) DEF BlocksInv
  <2>6. LiveMap(blocks)' = LiveMap(blocks')
    BY DEF LiveMap
  <2>7. a + Hdr \in DOMAIN LiveMap(blocks)' /\ LiveMap(blocks)'[a + Hdr] = blocks'[a].size
    BY <2>5, <2>6
  <2>8. HeapPromise!Allocate(a + Hdr, LiveMap(blocks)'[a + Hdr])
    BY <2>5, <2>6, <2>7 DEF HeapPromise!Allocate
  <2> QED
    BY <2>7, <2>8 DEF HeapPromise!AllocatorNext
<1> QED
  BY <1>1, <1>2, Zenon DEF kmalloc

LEMMA ReleaseReleases ==
  ASSUME BlocksInv, NEW a \in Live, Release(a)
  PROVE  HeapPromise!AllocatorNext
<1>1. a \in DOMAIN blocks /\ ~blocks[a].free /\ blocks' = Freed(blocks, a)
  BY DEF Live, Release
<1>2. /\ WF(blocks') /\ LiveIn(blocks') = LiveIn(blocks) \ {a}
      /\ \A c \in LiveIn(blocks) \ {a} : blocks'[c].size = blocks[c].size
  BY <1>1, FreedWF DEF BlocksInv
<1>3. a \in LiveIn(blocks)
  BY <1>1 DEF LiveIn
<1>4. /\ a + Hdr \in DOMAIN LiveMap(blocks)
      /\ LiveMap(blocks') = [q \in DOMAIN LiveMap(blocks) \ {a + Hdr} |-> LiveMap(blocks)[q]]
  BY <1>2, <1>3, FreedReleases DEF BlocksInv
<1>5. LiveMap(blocks)' = LiveMap(blocks')
  BY DEF LiveMap
<1> QED
  BY <1>4, <1>5 DEF HeapPromise!AllocatorNext, HeapPromise!Release

LEMMA RelocateMoves ==
  ASSUME BlocksInv, NEW a \in Live, NEW n \in Nat, Relocate(a, n)
  PROVE  HeapPromise!AllocatorNext
<1> DEFINE size == align_size(n)
<1>1. size \in Nat
  BY AlignNat
<1>2. PICK c \in DOMAIN blocks : /\ FirstFit(blocks, c, size)
                                 /\ blocks' = Freed(Taken(blocks, c, size), a)
  BY DEF Relocate
<1>3. size <= blocks[c].size /\ blocks[c].free
  BY <1>1, <1>2, Fields DEF BlocksInv, FirstFit, WF
<1> DEFINE t == Taken(blocks, c, size)
<1> HIDE DEF size
<1>4. a \in LiveIn(blocks) /\ a # c /\ c \notin LiveIn(blocks)
  BY <1>3 DEF Live, LiveIn
<1>5. /\ WF(t) /\ NoFreePair(t) /\ LiveIn(t) = LiveIn(blocks) \cup {c}
      /\ \A x \in LiveIn(blocks) : t[x].size = blocks[x].size
  BY <1>1, <1>3, TakenWF DEF BlocksInv
<1>6. blocks' = Freed(t, a)
  BY <1>2
<1> HIDE DEF t
<1>7. a \in DOMAIN t /\ ~t[a].free /\ a \in LiveIn(t) /\ c \in DOMAIN t
  BY <1>4, <1>5 DEF LiveIn
<1>8. /\ WF(blocks') /\ LiveIn(blocks') = LiveIn(t) \ {a}
      /\ \A x \in LiveIn(t) \ {a} : blocks'[x].size = t[x].size
  BY <1>5, <1>6, <1>7, FreedWF, SMTT(60)
<1>9. /\ HeapPromise!InArena(c + Hdr, t[c].size)
      /\ \A q \in DOMAIN LiveMap(blocks) :
            HeapPromise!Apart(c + Hdr, t[c].size, q, LiveMap(blocks)[q])
      /\ LiveMap(t) = [q \in DOMAIN LiveMap(blocks) \cup {c + Hdr} |->
                         IF q = c + Hdr THEN t[c].size ELSE LiveMap(blocks)[q]]
  <2>1. WF(blocks)
    BY DEF BlocksInv
  <2>2. WF(t) /\ LiveIn(t) = LiveIn(blocks) \cup {c} /\ c \in DOMAIN t /\ c \notin LiveIn(blocks)
    BY <1>4, <1>5, <1>7
  <2>3. \A x \in LiveIn(blocks) : t[x].size = blocks[x].size
    BY <1>5
  <2> QED
    BY <2>1, <2>2, <2>3, TakenAllocates, SMTT(90)
<1>10. /\ a + Hdr \in DOMAIN LiveMap(t)
       /\ LiveMap(blocks') = [q \in DOMAIN LiveMap(t) \ {a + Hdr} |-> LiveMap(t)[q]]
  BY <1>5, <1>7, <1>8, FreedReleases, SMTT(20)
<1>11. a + Hdr # c + Hdr
  BY <1>4, <1>5, <1>7, Fields, HeapConstants DEF WF
<1>12. LiveMap(blocks)' = LiveMap(blocks')
  BY DEF LiveMap
<1>13. a + Hdr \in DOMAIN LiveMap(blocks)
  BY <1>9, <1>10, <1>11
<1>14. LiveMap(blocks)' = [q \in (DOMAIN LiveMap(blocks) \ {a + Hdr}) \cup {c + Hdr} |->
                             IF q = c + Hdr THEN t[c].size ELSE LiveMap(blocks)[q]]
  BY <1>9, <1>10, <1>11, <1>12
<1>15. HeapPromise!Move(a + Hdr, c + Hdr, LiveMap(blocks)'[c + Hdr])
  BY <1>9, <1>13, <1>14 DEF HeapPromise!Move
<1> QED
  BY <1>13, <1>14, <1>15 DEF HeapPromise!AllocatorNext

LEMMA HeapStepRefines ==
  BlocksInv /\ [HeapNext]_heapVars /\ ~overrun' => [HeapPromise!AllocatorNext]_(LiveMap(blocks))
<1> SUFFICES ASSUME BlocksInv, [HeapNext]_heapVars, ~overrun'
             PROVE  [HeapPromise!AllocatorNext]_(LiveMap(blocks))
  OBVIOUS
<1>1. CASE UNCHANGED blocks
  BY <1>1 DEF LiveMap
<1>2. ASSUME NEW n \in Nat, kmalloc(n) PROVE [HeapPromise!AllocatorNext]_(LiveMap(blocks))
  BY <1>2, KmallocAllocates
<1>3. ASSUME NEW a, kfree(a) PROVE [HeapPromise!AllocatorNext]_(LiveMap(blocks))
  BY <1>1, <1>3, ReleaseReleases DEF kfree, heapVars
<1>4. ASSUME NEW c \in Requests, NEW n \in Requests, kcalloc(c, n)
      PROVE  [HeapPromise!AllocatorNext]_(LiveMap(blocks))
  <2>1. c * n \in Nat
    BY HeapConstants
  <2> QED
    BY <1>1, <1>2, <1>4, <2>1, SMTT(60) DEF kcalloc, ClearPast, heapVars
<1>5. ASSUME NEW a, NEW n \in Requests, krealloc(a, n)
      PROVE  [HeapPromise!AllocatorNext]_(LiveMap(blocks))
  <2>1. n \in Nat
    BY HeapConstants
  <2>2. CASE a \in Live /\ Relocate(a, n)
    BY <2>1, <2>2, RelocateMoves
  <2> QED
    BY <1>1, <1>2, <1>3, <1>5, <2>1, <2>2, SMTT(60) DEF krealloc, CopyPast, heapVars
<1> QED
  BY <1>1, <1>2, <1>3, <1>4, <1>5, HeapConstants DEF HeapNext, heapVars

\* kmalloc, kcalloc, krealloc and kfree implement the abstract allocator, until one
\* of them writes past the block it was granted: live regions never overlap and
\* change only at the call that names them.
THEOREM HeapImplementsAllocator == HeapSpec => ImplementsAllocator
<1>1. HeapInit => HeapPromise!AllocatorInit
  BY DEF HeapInit, HeapPromise!AllocatorInit, LiveMap
<1>2. (~overrun => BlocksInv) /\ [HeapNext]_heapVars
        => [overrun' \/ HeapPromise!AllocatorNext]_(LiveMap(blocks))
  BY HeapStepRefines, OverrunStays
<1> QED
  BY <1>1, <1>2, BlocksInvariant, PTL DEF HeapSpec, ImplementsAllocator

-----------------------------------------------------------------------------
(* The books.  A sum over the blocks is a fold over a set, which is defined by *)
(* recursion over its subsets; it is reasoned about through the table of all   *)
(* its partial sums, and that a table exists and that any member may be taken  *)
(* out first are inductions over the size of a set, each by a least size.      *)

\* Every set of numbers that is not empty has a least one.
LEMMA LeastNat ==
  ASSUME NEW T \in SUBSET Nat, T # {}
  PROVE  \E m \in T : \A k \in T : m <= k
<1> DEFINE R == {ss \in Nat \X Nat : ss[1] < ss[2]}
<1>1. IsWellFoundedOn(R, Nat)
  BY NatLessThanWellFounded DEF OpToRel
<1> HIDE DEF R
<1>2. PICK m \in T : \A k \in T : ~ (<<k, m>> \in R)
  BY <1>1, WFMin, Zenon
<1>3. \A k \in T : ~ (k < m)
  BY <1>2, Zenon DEF R
<1> QED
  BY <1>3

\* The element a sum takes next, as FiniteSetsExt chooses it.
Pick(s) == CHOOSE x \in s : TRUE

\* g is the table of the sums of f over the subsets of S.
Sums(f, S, g) ==
    g = [s \in SUBSET S |-> IF s = {} THEN 0 ELSE f[Pick(s)] + g[s \ {Pick(s)}]]

\* The sum of f over S.
Total(f, S) == (CHOOSE g : Sums(f, S, g))[S]

\* f has an integer for each member of the finite set S.
Summable(f, S) == IsFiniteSet(S) /\ \A x \in S : f[x] \in Int

\* The element a sum takes next is one of the set's.
LEMMA Picked ==
  ASSUME NEW s, s # {}
  PROVE  Pick(s) \in s
  BY DEF Pick

\* A set without one member is smaller by one.
LEMMA Smaller ==
  ASSUME NEW S, IsFiniteSet(S), NEW s \in SUBSET S, NEW x \in s
  PROVE  /\ Cardinality(s) \in Nat /\ Cardinality(s \ {x}) \in Nat
         /\ Cardinality(s) = Cardinality(s \ {x}) + 1
         /\ s \ {x} \in SUBSET S
<1>1. IsFiniteSet(s)
  BY FS_Subset
<1>2. Cardinality(s) \in Nat
  BY <1>1, FS_CardinalityType
<1>3. IsFiniteSet(s \ {x}) /\ Cardinality(s \ {x}) = Cardinality(s) - 1
  BY <1>1, FS_RemoveElement
<1>4. Cardinality(s \ {x}) \in Nat
  BY <1>3, FS_CardinalityType
<1> QED
  BY <1>2, <1>3, <1>4

\* Such a table exists: n unfoldings of any table are right for the sets of up to
\* n members.
LEMMA SumsExist ==
  ASSUME NEW f, NEW S, Summable(f, S)
  PROVE  \E g \in [SUBSET S -> Int] : Sums(f, S, g)
<1> DEFINE Next1(g) == [s \in SUBSET S |-> IF s = {} THEN 0 ELSE f[Pick(s)] + g[s \ {Pick(s)}]]
           Right(n, g) == \A s \in SUBSET S : Cardinality(s) <= n => g[s] = Next1(g)[s]
           Reached(n) == \E g \in [SUBSET S -> Int] : Right(n, g)
           Missed == {n \in Nat : ~ Reached(n)}
<1>1. ASSUME NEW g \in [SUBSET S -> Int] PROVE Next1(g) \in [SUBSET S -> Int]
  <2>1. ASSUME NEW s \in SUBSET S, s # {} PROVE f[Pick(s)] + g[s \ {Pick(s)}] \in Int
    <3>1. Pick(s) \in S /\ s \ {Pick(s)} \in SUBSET S
      BY <2>1, Picked
    <3>2. f[Pick(s)] \in Int /\ g[s \ {Pick(s)}] \in Int
      BY <1>1, <3>1 DEF Summable
    <3> QED
      BY <3>2
  <2> QED
    BY <2>1
<1>2. Reached(0)
  <2> DEFINE g == [s \in SUBSET S |-> 0]
  <2>1. g \in [SUBSET S -> Int]
    OBVIOUS
  <2>2. ASSUME NEW s \in SUBSET S, Cardinality(s) <= 0 PROVE s = {}
    <3>1. IsFiniteSet(s)
      BY FS_Subset DEF Summable
    <3>2. Cardinality(s) = 0
      BY <2>2, <3>1, FS_CardinalityType
    <3> QED
      BY <3>1, <3>2, FS_EmptySet
  <2>3. Right(0, g)
    BY <2>2
  <2> QED
    BY <2>1, <2>3, Zenon
<1>3. ASSUME NEW n \in Nat, Reached(n) PROVE Reached(n + 1)
  <2>1. PICK g \in [SUBSET S -> Int] : Right(n, g)
    BY <1>3, Zenon
  <2> DEFINE h == Next1(g)
  <2>2. h \in [SUBSET S -> Int]
    BY <1>1, Zenon
  <2>3. ASSUME NEW s \in SUBSET S, Cardinality(s) <= n + 1 PROVE h[s] = Next1(h)[s]
    <3>1. CASE s = {}
      BY <3>1
    <3>2. CASE s # {}
      <4> DEFINE t == s \ {Pick(s)}
      <4>1. Pick(s) \in s
        BY <3>2, Picked
      <4>2. t \in SUBSET S /\ Cardinality(t) <= n
        BY <2>3, <4>1, Smaller DEF Summable
      <4>3. g[t] = h[t]
        BY <2>1, <4>2, Zenon
      <4> QED
        BY <3>2, <4>2, <4>3
    <3> QED
      BY <3>1, <3>2
  <2> QED
    BY <2>2, <2>3, Zenon
<1>4. \A n \in Nat : Reached(n)
  <2> SUFFICES ASSUME Missed # {} PROVE FALSE
    BY Zenon
  <2> HIDE DEF Reached
  <2>1. PICK m \in Missed : \A k \in Missed : m <= k
    BY LeastNat, Zenon
  <2>2. m # 0 /\ m - 1 \in Nat /\ m - 1 \notin Missed
    BY <1>2, <2>1
  <2>3. Reached(m - 1)
    BY <2>2
  <2>4. Reached((m - 1) + 1)
    BY <1>3, <2>2, <2>3
  <2> QED
    BY <2>1, <2>4
<1>5. Cardinality(S) \in Nat
  BY FS_CardinalityType DEF Summable
<1>6. PICK g \in [SUBSET S -> Int] : Right(Cardinality(S), g)
  BY <1>4, <1>5, Zenon
<1>7. \A s \in SUBSET S : Cardinality(s) <= Cardinality(S)
  BY FS_Subset DEF Summable
<1>8. \A s \in SUBSET S : g[s] = Next1(g)[s]
  BY <1>6, <1>7, Zenon
<1>9. g = Next1(g)
  BY <1>1, <1>6, <1>8, Zenon
<1> QED
  BY <1>6, <1>9, Zenon DEF Sums

\* What the table says of a set, its entries being integers.
LEMMA SumsAt ==
  ASSUME NEW f, NEW S, NEW g, Summable(f, S), Sums(f, S, g)
  PROVE  /\ g[{}] = 0
         /\ \A s \in SUBSET S : s # {} => g[s] = f[Pick(s)] + g[s \ {Pick(s)}]
  BY Zenon DEF Sums

\* g and k are the tables of f over S and of h over T, f and h the same on U.
Tables(f, S, g, h, T, k, U) ==
    /\ Summable(f, S) /\ Sums(f, S, g) /\ Summable(h, T) /\ Sums(h, T, k)
    /\ U \subseteq S /\ U \subseteq T /\ \A x \in U : f[x] = h[x]

AgreeBelow(U, g, k) == \A s \in SUBSET U : g[s] = k[s]

\* Two tables agree on the sets on whose members the functions agree.
LEMMA SameSums ==
  ASSUME NEW f, NEW S, NEW g, NEW h, NEW T, NEW k, NEW U, Tables(f, S, g, h, T, k, U)
  PROVE  AgreeBelow(U, g, k)
<1> USE DEF Tables
<1> DEFINE Apart == {s \in SUBSET U : g[s] # k[s]}
           Sizes == {Cardinality(s) : s \in Apart}
<1> SUFFICES ASSUME Apart # {} PROVE FALSE
  BY DEF AgreeBelow
<1>1. IsFiniteSet(U)
  BY FS_Subset, SMTT(60) DEF Summable
<1>2. Sizes \in SUBSET Nat /\ Sizes # {}
  BY <1>1, FS_Subset, FS_CardinalityType
<1>3. PICK m \in Sizes : \A n \in Sizes : m <= n
  BY <1>2, LeastNat, Zenon
<1>4. PICK s \in Apart : Cardinality(s) = m
  BY <1>3
<1>5. CASE s = {}
  BY <1>4, <1>5, SumsAt
<1>6. CASE s # {}
  <2> DEFINE t == s \ {Pick(s)}
  <2>1. Pick(s) \in s /\ s \in SUBSET U
    BY <1>4, <1>6, Picked, SMTT(60)
  <2>2. t \in SUBSET U /\ Cardinality(t) \in Nat /\ Cardinality(s) = Cardinality(t) + 1
    BY <1>1, <2>1, Smaller
  <2>3. t \notin Apart
    <3>1. Cardinality(t) \notin Sizes
      <4> HIDE DEF Sizes, t
      <4> QED
        BY <1>2, <1>3, <1>4, <2>2, SMTT(30)
    <3> QED
      BY <3>1, Zenon
  <2>4. g[s] = f[Pick(s)] + g[t] /\ k[s] = h[Pick(s)] + k[t]
    BY <1>6, <2>1, SumsAt
  <2> QED
    BY <1>4, <2>1, <2>2, <2>3, <2>4
<1> QED
  BY <1>5, <1>6

\* In the table g any member may be taken out of a sum.
Removes(f, S, g) == \A s \in SUBSET S : \A x \in s : g[s] = f[x] + g[s \ {x}]

\* Any member may be taken out of a sum.
LEMMA SumsRemove ==
  ASSUME NEW f, NEW S, NEW g \in [SUBSET S -> Int], Summable(f, S), Sums(f, S, g)
  PROVE  Removes(f, S, g)
<1> DEFINE Bad == {s \in SUBSET S : \E x \in s : g[s] # f[x] + g[s \ {x}]}
           Sizes == {Cardinality(s) : s \in Bad}
<1> SUFFICES ASSUME Bad # {} PROVE FALSE
  <2>1. CASE Bad = {}
    BY <2>1, Zenon DEF Removes
  <2> QED
    BY <2>1
<1>1. IsFiniteSet(S)
  BY DEF Summable
<1>2. Sizes \in SUBSET Nat /\ Sizes # {}
  BY <1>1, FS_Subset, FS_CardinalityType
<1>3. PICK m \in Sizes : \A n \in Sizes : m <= n
  BY <1>2, LeastNat, Zenon
<1>4. PICK s \in Bad : Cardinality(s) = m
  BY <1>3
<1>5. PICK x \in s : g[s] # f[x] + g[s \ {x}]
  BY <1>4
<1> DEFINE p == Pick(s)
<1>6. p \in s /\ s \in SUBSET S /\ s # {}
  BY <1>4, <1>5, Picked
<1>7. g[s] = f[p] + g[s \ {p}]
  BY <1>6, SumsAt
<1>8. p # x
  BY <1>5, <1>7, Zenon
<1>9. /\ s \ {p} \in SUBSET S /\ Cardinality(s \ {p}) \in Nat /\ m = Cardinality(s \ {p}) + 1
      /\ s \ {x} \in SUBSET S /\ Cardinality(s \ {x}) \in Nat /\ m = Cardinality(s \ {x}) + 1
  BY <1>1, <1>4, <1>5, <1>6, Smaller
<1> HIDE DEF p
<1>10. s \ {p} \notin Bad /\ s \ {x} \notin Bad
  <2>1. Cardinality(s \ {p}) \notin Sizes /\ Cardinality(s \ {x}) \notin Sizes
    <3> HIDE DEF Sizes, Bad
    <3>1. \A k \in Nat : m = k + 1 => k \notin Sizes
      BY <1>2, <1>3
    <3> DEFINE k1 == Cardinality(s \ {p})
               k2 == Cardinality(s \ {x})
    <3>2. k1 \in Nat /\ m = k1 + 1 /\ k2 \in Nat /\ m = k2 + 1
      BY <1>9
    <3> HIDE DEF k1, k2
    <3>3. k1 \notin Sizes /\ k2 \notin Sizes
      BY <3>1, <3>2
    <3> QED
      BY <3>3 DEF k1, k2
  <2> QED
    BY <2>1, Zenon
<1>11. g[s \ {p}] = f[x] + g[(s \ {p}) \ {x}]
  BY <1>5, <1>8, <1>9, <1>10, Zenon
<1>12. g[s \ {x}] = f[p] + g[(s \ {x}) \ {p}]
  BY <1>6, <1>8, <1>9, <1>10, Zenon
<1>13. (s \ {p}) \ {x} = (s \ {x}) \ {p} /\ (s \ {x}) \ {p} \in SUBSET S
  BY <1>9, SMTT(60)
<1>14. f[x] \in Int /\ f[p] \in Int /\ g[(s \ {x}) \ {p}] \in Int
  BY <1>5, <1>6, <1>13 DEF Summable
<1>15. g[s \ {p}] = f[x] + g[(s \ {x}) \ {p}]
  BY <1>11, <1>13, Zenon
<1> DEFINE u == g[(s \ {x}) \ {p}]
           v == g[s \ {x}]
           w == g[s \ {p}]
<1> HIDE DEF u, v, w
<1>16. g[s] # f[x] + v /\ g[s] = f[p] + w /\ v = f[p] + u /\ w = f[x] + u /\ u \in Int
  BY <1>5, <1>7, <1>12, <1>14, <1>15, SMTT(60) DEF u, v, w
<1> QED
  BY <1>14, <1>16

\* The chosen table is one.
LEMMA TotalTable ==
  ASSUME NEW f, NEW S, Summable(f, S)
  PROVE  \E g \in [SUBSET S -> Int] : Sums(f, S, g) /\ Total(f, S) = g[S]
<1>1. PICK e \in [SUBSET S -> Int] : Sums(f, S, e)
  BY SumsExist, Zenon
<1> DEFINE g == CHOOSE k : Sums(f, S, k)
<1>2. Sums(f, S, g) /\ Total(f, S) = g[S]
  BY <1>1, Zenon DEF Total
<1> HIDE DEF g
<1>3. \A s \in SUBSET S : g[s] = e[s]
  <2>1. Tables(f, S, g, f, S, e, S)
    BY <1>1, <1>2 DEF Tables
  <2>2. AgreeBelow(S, g, e)
    BY <2>1, SameSums
  <2> QED
    BY <2>2 DEF AgreeBelow
<1>4. g = [s \in SUBSET S |-> g[s]]
  BY <1>2 DEF Sums
<1>5. g \in [SUBSET S -> Int]
  BY <1>3, <1>4, Zenon
<1> QED
  BY <1>2, <1>5

\* A total of integers is an integer.
LEMMA TotalType ==
  ASSUME NEW f, NEW S, Summable(f, S)
  PROVE  Total(f, S) \in Int
<1>1. PICK g \in [SUBSET S -> Int] : Sums(f, S, g) /\ Total(f, S) = g[S]
  BY TotalTable, Zenon
<1> QED
  BY <1>1

\* Nothing adds up to 0.
LEMMA TotalEmpty ==
  ASSUME NEW f
  PROVE  Total(f, {}) = 0
<1>1. Summable(f, {})
  BY FS_EmptySet DEF Summable
<1>2. PICK g \in [SUBSET {} -> Int] : Sums(f, {}, g) /\ Total(f, {}) = g[{}]
  BY <1>1, TotalTable, Zenon
<1> QED
  BY <1>1, <1>2, SumsAt

\* Functions that agree on a set have the same total over it.
LEMMA TotalSame ==
  ASSUME NEW f, NEW h, NEW S, Summable(f, S), \A x \in S : f[x] = h[x]
  PROVE  Total(f, S) = Total(h, S)
<1>1. Summable(h, S)
  BY DEF Summable
<1>2. PICK g \in [SUBSET S -> Int] : Sums(f, S, g) /\ Total(f, S) = g[S]
  BY TotalTable, Zenon
<1>3. PICK k \in [SUBSET S -> Int] : Sums(h, S, k) /\ Total(h, S) = k[S]
  BY <1>1, TotalTable, Zenon
<1>4. Tables(f, S, g, h, S, k, S)
  BY <1>1, <1>2, <1>3 DEF Tables
<1>5. AgreeBelow(S, g, k)
  BY <1>4, SameSums
<1> QED
  BY <1>2, <1>3, <1>5 DEF AgreeBelow

\* A member counts once.
LEMMA TotalRemove ==
  ASSUME NEW f, NEW S, Summable(f, S), NEW x \in S
  PROVE  Total(f, S) = f[x] + Total(f, S \ {x})
<1> DEFINE T == S \ {x}
<1>1. Summable(f, T)
  BY FS_Subset DEF Summable
<1>2. PICK g \in [SUBSET S -> Int] : Sums(f, S, g) /\ Total(f, S) = g[S]
  BY TotalTable, Zenon
<1>3. PICK k \in [SUBSET T -> Int] : Sums(f, T, k) /\ Total(f, T) = k[T]
  BY <1>1, TotalTable, Zenon
<1>4. g[S] = f[x] + g[T]
  <2>1. Removes(f, S, g)
    BY <1>2, SumsRemove, Zenon
  <2> QED
    BY <2>1 DEF Removes
<1>5. \A s \in SUBSET T : g[s] = k[s]
  <2>1. Tables(f, S, g, f, T, k, T)
    BY <1>1, <1>2, <1>3 DEF Tables
  <2>2. AgreeBelow(T, g, k)
    BY <2>1, SameSums
  <2> QED
    BY <2>2 DEF AgreeBelow
<1> QED
  BY <1>2, <1>3, <1>4, <1>5

\* h adds up over S and x to what f does over S, and h's x.
Grown(f, h, S, x) ==
    Summable(h, S \cup {x}) /\ Total(h, S \cup {x}) = h[x] + Total(f, S)

\* h is f on S and has a value for x outside it.
Adds(f, h, S, x) ==
    /\ x \notin S /\ Summable(f, S) /\ h[x] \in Int
    /\ \A y \in S : h[y] = f[y]

\* A new member adds its value to what the others have together.
LEMMA TotalAdd ==
  ASSUME NEW f, NEW h, NEW S, NEW x, Adds(f, h, S, x)
  PROVE  Grown(f, h, S, x)
<1> USE DEF Adds
<1>1. Summable(h, S \cup {x})
  BY FS_AddElement DEF Summable
<1>2. Total(h, S \cup {x}) = h[x] + Total(h, (S \cup {x}) \ {x})
  BY <1>1, TotalRemove
<1>3. (S \cup {x}) \ {x} = S
  OBVIOUS
<1>4. Total(f, S) = Total(h, S)
  BY TotalSame
<1> QED
  BY <1>1, <1>2, <1>3, <1>4 DEF Grown

-----------------------------------------------------------------------------
(* The sums of Accounting.                                                 *)

\* What Accounting adds up: the payloads, and the payloads with their headers.
PayloadOf(b) == [c \in DOMAIN b |-> b[c].size]
TileOf(b) == [c \in DOMAIN b |-> Hdr + b[c].size]

\* The list is finite and its sizes are numbers.
LEMMA BlocksSummable ==
  ASSUME NEW b, Typed(b), NEW S \in SUBSET DOMAIN b
  PROVE  Summable(PayloadOf(b), S) /\ Summable(TileOf(b), S)
<1>1. IsFiniteSet(0 .. ArenaSize - 1)
  BY FS_Interval, HeapConstants
<1>2. IsFiniteSet(S)
  BY <1>1, FS_Subset, Zenon DEF Typed
<1>3. \A c \in S : PayloadOf(b)[c] \in Int /\ TileOf(b)[c] \in Int
  BY Fields, HeapConstants DEF PayloadOf, TileOf
<1> QED
  BY <1>2, <1>3 DEF Summable

\* The first sum of Accounting as a Total.
LEMMA PayloadSum ==
  ASSUME NEW b, Typed(b), NEW S \in SUBSET DOMAIN b
  PROVE  MapThenSumSet(LAMBDA a : b[a].size, S) = Total(PayloadOf(b), S)
<1> DEFINE f == PayloadOf(b)
           Table(g) == g = [s \in SUBSET S |-> IF s = {} THEN 0 ELSE b[Pick(s)].size + g[s \ {Pick(s)}]]
           t == CHOOSE g : Table(g)
<1>1. MapThenSumSet(LAMBDA a : b[a].size, S) = t[S]
  BY DEF MapThenSumSet, MapThenFoldSet, Pick
<1>2. ASSUME NEW g PROVE Sums(f, S, g) <=> Table(g)
  <2>1. \A s \in SUBSET S : s # {} => f[Pick(s)] = b[Pick(s)].size
    BY Picked DEF PayloadOf
  <2> HIDE DEF f
  <2>2. [s \in SUBSET S |-> IF s = {} THEN 0 ELSE f[Pick(s)] + g[s \ {Pick(s)}]]
          = [s \in SUBSET S |-> IF s = {} THEN 0 ELSE b[Pick(s)].size + g[s \ {Pick(s)}]]
    BY <2>1
  <2> QED
    BY <2>2 DEF Sums
<1>3. Summable(f, S)
  BY BlocksSummable
<1> HIDE DEF f
<1>4. PICK k \in [SUBSET S -> Int] : Sums(f, S, k) /\ Total(f, S) = k[S]
  BY <1>3, TotalTable, Zenon
<1>5. Table(t)
  BY <1>2, <1>4, Zenon
<1> HIDE DEF t
<1>6. Sums(f, S, t)
  BY <1>2, <1>5, Zenon
<1>7. \A s \in SUBSET S : t[s] = k[s]
  <2>1. Tables(f, S, t, f, S, k, S)
    BY <1>3, <1>4, <1>6 DEF Tables
  <2>2. AgreeBelow(S, t, k)
    BY <2>1, SameSums
  <2> QED
    BY <2>2 DEF AgreeBelow
<1> QED
  BY <1>1, <1>4, <1>7 DEF f

\* The second sum of Accounting as a Total.
LEMMA TileSum ==
  ASSUME NEW b, Typed(b), NEW S \in SUBSET DOMAIN b
  PROVE  MapThenSumSet(LAMBDA a : Hdr + b[a].size, S) = Total(TileOf(b), S)
<1> DEFINE f == TileOf(b)
           Table(g) == g = [s \in SUBSET S |-> IF s = {} THEN 0 ELSE (Hdr + b[Pick(s)].size) + g[s \ {Pick(s)}]]
           t == CHOOSE g : Table(g)
<1>1. MapThenSumSet(LAMBDA a : Hdr + b[a].size, S) = t[S]
  BY DEF MapThenSumSet, MapThenFoldSet, Pick
<1>2. ASSUME NEW g PROVE Sums(f, S, g) <=> Table(g)
  <2>1. \A s \in SUBSET S : s # {} => f[Pick(s)] = Hdr + b[Pick(s)].size
    BY Picked DEF TileOf
  <2> HIDE DEF f
  <2>2. [s \in SUBSET S |-> IF s = {} THEN 0 ELSE f[Pick(s)] + g[s \ {Pick(s)}]]
          = [s \in SUBSET S |-> IF s = {} THEN 0 ELSE (Hdr + b[Pick(s)].size) + g[s \ {Pick(s)}]]
    BY <2>1
  <2> QED
    BY <2>2 DEF Sums
<1>3. Summable(f, S)
  BY BlocksSummable
<1> HIDE DEF f
<1>4. PICK k \in [SUBSET S -> Int] : Sums(f, S, k) /\ Total(f, S) = k[S]
  BY <1>3, TotalTable
<1>5. Table(t)
  BY <1>2, <1>4, Zenon
<1> HIDE DEF t
<1>6. Sums(f, S, t)
  BY <1>2, <1>5, Zenon
<1>7. \A s \in SUBSET S : t[s] = k[s]
  <2>1. Tables(f, S, t, f, S, k, S)
    BY <1>3, <1>4, <1>6 DEF Tables
  <2>2. AgreeBelow(S, t, k)
    BY <2>1, SameSums
  <2> QED
    BY <2>2 DEF AgreeBelow
<1> QED
  BY <1>1, <1>4, <1>7 DEF f


-----------------------------------------------------------------------------
(* What every operation on the list keeps: the bytes of the arena, and the     *)
(* alignment of headers and sizes.                                             *)

\* The bytes of all tiles.
ArenaIn(b) == Total(TileOf(b), DOMAIN b)

Multiple(x) == x \in Int /\ x % Align = 0

Aligned(b) == \A c \in DOMAIN b : Multiple(c) /\ Multiple(b[c].size)

\* From b to s neither changes.
Kept(b, s) == ArenaIn(s) = ArenaIn(b) /\ (Aligned(b) => Aligned(s))

\* Sums and differences of multiples of Align are multiples of it.
LEMMA AddMultiple ==
  ASSUME NEW x, NEW y, Multiple(x), Multiple(y)
  PROVE  Multiple(x + y) /\ Multiple(x - y)
<1>1. Align \in Nat /\ 0 < Align /\ x \in Int /\ y \in Int /\ x % Align = 0 /\ y % Align = 0
  BY HeapConstants DEF Multiple
<1> DEFINE p == x \div Align
           q == y \div Align
<1>2. p \in Int /\ q \in Int
  BY <1>1
<1>3. x = Align * p /\ y = Align * q
  BY <1>1
<1> HIDE DEF p, q
<1>4. x + y = Align * (p + q) /\ x - y = Align * (p - q)
  BY <1>1, <1>2, <1>3
<1>5. \A k \in Int : (Align * k) % Align = 0
  BY <1>1
<1> QED
  BY <1>1, <1>2, <1>4, <1>5 DEF Multiple

\* align_size rounds up, except where its 32-bit mask cuts.
LEMMA AlignedSize ==
  ASSUME NEW n \in Nat
  PROVE  /\ Multiple(align_size(n))
         /\ n <= UIntMod - Align => n <= align_size(n)
<1>1. Align \in Nat /\ 0 < Align /\ UIntMod \in Nat /\ SizeMod \in Nat
      /\ Align < UIntMod /\ UIntMod <= SizeMod /\ UIntMod % Align = 0
  BY HeapConstants, HeapAlignment
<1> DEFINE x == (n + Align - 1) % SizeMod
           y == x \div Align
           z == y * Align
<1>2. x \in Nat /\ y \in Nat
  BY <1>1
<1>3. z \in Nat /\ z <= x /\ x < z + Align
  BY <1>1, <1>2
<1>4. align_size(n) = z % UIntMod
  BY DEF align_size
<1> HIDE DEF x
<1>5. Multiple(z)
  BY <1>1, <1>2, <1>3 DEF Multiple
<1> HIDE DEF y, z
<1>6. Multiple(z % UIntMod)
  <2> DEFINE q == z \div UIntMod
             u == UIntMod \div Align
  <2>1. q \in Int /\ u \in Int /\ z % UIntMod \in Int
    BY <1>1, <1>3
  <2>2. z = UIntMod * q + (z % UIntMod)
    BY <1>1, <1>3
  <2>3. UIntMod = Align * u
    BY <1>1
  <2> HIDE DEF q, u
  <2>4. UIntMod * q = Align * (u * q) /\ u * q \in Int
    BY <1>1, <2>1, <2>3
  <2>5. Multiple(UIntMod * q)
    <3>1. \A k \in Int : (Align * k) % Align = 0
      BY <1>1
    <3>2. (Align * (u * q)) % Align = 0
      BY <2>4, <3>1, Zenon
    <3>3. UIntMod * q \in Int
      BY <1>1, <2>1
    <3> QED
      BY <2>4, <3>2, <3>3, Zenon DEF Multiple
  <2>6. Multiple(z + UIntMod * q) /\ Multiple(z - UIntMod * q)
    BY <1>5, <2>5, AddMultiple, Zenon
  <2>7. z % UIntMod = z - UIntMod * q
    BY <1>1, <1>3, <2>1, <2>2
  <2> QED
    BY <2>6, <2>7
<1>7. ASSUME n <= UIntMod - Align PROVE n <= z % UIntMod
  <2>1. x = n + Align - 1 /\ x < UIntMod
    BY <1>1, <1>7 DEF x
  <2>2. z % UIntMod = z
    BY <1>1, <1>3, <2>1, SMTT(60)
  <2> QED
    BY <1>1, <1>3, <2>1, <2>2
<1> QED
  BY <1>4, <1>6, <1>7

\* With n, h adds up to what f does without.
CutKeeps(f, h, S, n) == Total(h, S \cup {n}) = Total(f, S)

\* h has f's value at a cut in two, for a and for n outside S.
Cuts(f, h, S, a, n) ==
    /\ a \in S /\ n \notin S /\ Summable(f, S)
    /\ h[a] \in Int /\ h[n] \in Int /\ h[a] + h[n] = f[a]
    /\ \A c \in S \ {a} : h[c] = f[c]

\* Cutting one member of a sum in two.
LEMMA TotalCut ==
  ASSUME NEW f, NEW h, NEW S, NEW a, NEW n, Cuts(f, h, S, a, n)
  PROVE  CutKeeps(f, h, S, n)
<1> DEFINE R == S \ {a}
<1> USE DEF Cuts
<1>1. Summable(f, R)
  BY FS_Subset DEF Summable
<1>2. Total(f, S) = f[a] + Total(f, R)
  BY TotalRemove
<1>3. Total(f, R) \in Int
  BY <1>1, TotalType
<1>4. Summable(h, R \cup {a}) /\ Total(h, R \cup {a}) = h[a] + Total(f, R)
  <2>1. Adds(f, h, R, a)
    BY <1>1 DEF Adds
  <2>2. Grown(f, h, R, a)
    BY <2>1, TotalAdd
  <2> QED
    BY <2>2 DEF Grown
<1>5. R \cup {a} = S
  OBVIOUS
<1>6. Total(h, S \cup {n}) = h[n] + Total(h, S)
  <2>1. Adds(h, h, S, n)
    BY <1>4, <1>5, Zenon DEF Adds
  <2>2. Grown(h, h, S, n)
    BY <2>1, TotalAdd
  <2> QED
    BY <2>2 DEF Grown
<1>7. Total(h, S) = h[a] + Total(f, R)
  BY <1>4, <1>5, Zenon
<1> HIDE DEF R
<1> QED
  BY <1>2, <1>3, <1>6, <1>7, SMTT(60) DEF CutKeeps

\* split_block cuts one tile in two.
LEMMA SplitKeeps ==
  ASSUME NEW b, WF(b), NEW a \in DOMAIN b, NEW size \in Nat, size <= b[a].size,
         Multiple(size)
  PROVE  Kept(b, split_block(b, a, size))
<1> DEFINE n == a + Hdr + size
           s == split_block(b, a, size)
<1>1. CASE b[a].size < size + Hdr + Align
  BY <1>1, SMTT(60) DEF split_block, Kept
<1>2. CASE ~(b[a].size < size + Hdr + Align)
  <2>1. \A c \in DOMAIN b : /\ c \in Int /\ b[c].size \in Int /\ 0 <= b[c].size
    BY Fields DEF WF
  <2>2. n \in Int /\ a < n /\ n + Hdr + Align <= a + Hdr + b[a].size
    BY <1>2, <2>1, HeapConstants
  <2>3. n \notin DOMAIN b
    BY <2>1, <2>2, HeapConstants, SMTT(60) DEF WF, Disjoint
  <2>4. s = [c \in DOMAIN b \cup {n} |->
                IF c = a THEN [size |-> size, free |-> b[a].free,
                               next |-> n, prev |-> b[a].prev]
                ELSE IF c = n THEN [size |-> b[a].size - size - Hdr, free |-> TRUE,
                                    next |-> b[a].next, prev |-> a]
                ELSE IF c = b[a].next THEN WithPrev(b[c], n)
                ELSE b[c]]
    BY <1>2, SMTT(90) DEF split_block
  <2> HIDE DEF n, s
  <2>5. /\ DOMAIN s = DOMAIN b \cup {n}
        /\ s[a].size = size /\ s[n].size = b[a].size - size - Hdr
    BY <2>2, <2>3, <2>4, SMTT(60)
  <2>6. \A c \in DOMAIN b \ {a} : s[c].size = b[c].size
    BY <2>3, <2>4, SMTT(60) DEF WithPrev
  <2>7. ArenaIn(s) = ArenaIn(b)
    <3> DEFINE f == TileOf(b)
               h == TileOf(s)
    <3>1. Summable(f, DOMAIN b)
      BY BlocksSummable DEF WF
    <3>2. h[a] = Hdr + size /\ h[n] = Hdr + (b[a].size - size - Hdr) /\ f[a] = Hdr + b[a].size
      BY <2>5 DEF TileOf
    <3>3. \A c \in DOMAIN b \ {a} : h[c] = f[c]
      BY <2>5, <2>6, SMTT(60) DEF TileOf
    <3>4. h[a] \in Int /\ h[n] \in Int /\ h[a] + h[n] = f[a]
      BY <2>1, <3>2, HeapConstants, SMTT(60)
    <3> HIDE DEF f, h
    <3>5. Total(h, DOMAIN b \cup {n}) = Total(f, DOMAIN b)
      <4>1. Cuts(f, h, DOMAIN b, a, n)
        BY <2>3, <3>1, <3>3, <3>4, SMTT(60) DEF Cuts
      <4>2. CutKeeps(f, h, DOMAIN b, n)
        BY <4>1, TotalCut, SMTT(60)
      <4> QED
        BY <4>2 DEF CutKeeps
    <3> QED
      BY <2>5, <3>5, SMTT(60) DEF ArenaIn, f, h
  <2>8. ASSUME Aligned(b) PROVE Aligned(s)
    <3>1. Multiple(Hdr) /\ Multiple(a) /\ Multiple(b[a].size)
      BY <2>8, HeapConstants, HeapAlignment DEF Aligned, Multiple
    <3>2. Multiple(a + Hdr) /\ Multiple(a - Hdr)
      BY <3>1, AddMultiple, Zenon
    <3>3. Multiple(n) /\ Multiple((a + Hdr) - size)
      BY <3>2, AddMultiple, Zenon DEF n
    <3>4. Multiple(b[a].size + size) /\ Multiple(b[a].size - size)
      BY <3>1, AddMultiple, Zenon
    <3>5. Multiple(b[a].size - size + Hdr) /\ Multiple(b[a].size - size - Hdr)
      BY <3>1, <3>4, AddMultiple, Zenon
    <3> QED
      BY <2>5, <2>6, <2>8, <3>3, <3>5, SMTT(60) DEF Aligned
  <2> QED
    BY <2>7, <2>8 DEF Kept, s
<1> QED
  BY <1>1, <1>2, SMTT(60)

\* merge_next makes one tile of two.
LEMMA MergeKeeps ==
  ASSUME NEW b, WF(b), NEW a \in DOMAIN b
  PROVE  Kept(b, merge_next(b, a))
<1> DEFINE n == b[a].next
           m == merge_next(b, a)
<1>1. CASE ~(n # Null /\ b[n].free)
  BY <1>1 DEF merge_next, Kept
<1>2. CASE n # Null /\ b[n].free
  <2>1. \A c \in DOMAIN b : /\ c \in Int /\ b[c].size \in Int /\ 0 <= b[c].size
    BY Fields DEF WF
  <2>2. n \in DOMAIN b /\ n # a
    BY <1>2, <2>1, HeapConstants, SMTT(60) DEF WF, Forward
  <2>3. m = [c \in DOMAIN b \ {n} |->
               IF c = a THEN [size |-> b[a].size + Hdr + b[n].size, free |-> b[a].free,
                              next |-> b[n].next, prev |-> b[a].prev]
               ELSE IF c = b[n].next THEN WithPrev(b[c], a)
               ELSE b[c]]
    BY <1>2, SMTT(90) DEF merge_next
  <2> HIDE DEF m, n
  <2>4. DOMAIN m = DOMAIN b \ {n} /\ a \in DOMAIN m /\ m[a].size = b[a].size + Hdr + b[n].size
    BY <2>2, <2>3
  <2>5. \A c \in DOMAIN m \ {a} : m[c].size = b[c].size
    BY <2>3 DEF WithPrev
  <2>6. ArenaIn(m) = ArenaIn(b)
    <3> DEFINE f == TileOf(m)
               h == TileOf(b)
    <3>1. \A c \in DOMAIN m : f[c] = Hdr + m[c].size
      BY DEF TileOf
    <3>2. \A c \in DOMAIN b : h[c] = Hdr + b[c].size /\ h[c] \in Int
      BY <2>1, HeapConstants DEF TileOf
    <3>3. Summable(f, DOMAIN m)
      <4>1. IsFiniteSet(DOMAIN b)
        BY BlocksSummable DEF WF, Summable
      <4>2. IsFiniteSet(DOMAIN m)
        BY <2>4, <4>1, FS_Subset, SMTT(60)
      <4>3. \A c \in DOMAIN m : f[c] \in Int
        BY <2>1, <2>2, <2>4, <2>5, <3>1, HeapConstants, SMTT(60)
      <4> QED
        BY <4>2, <4>3 DEF Summable
    <3>4. h[a] \in Int /\ h[n] \in Int /\ h[a] + h[n] = f[a]
      BY <2>1, <2>2, <2>4, <3>1, <3>2, HeapConstants, SMTT(90)
    <3>5. \A c \in DOMAIN m \ {a} : h[c] = f[c]
      BY <2>4, <2>5, <3>1, <3>2, SMTT(60)
    <3> HIDE DEF f, h
    <3>6. n \notin DOMAIN m /\ DOMAIN m \cup {n} = DOMAIN b
      BY <2>2, <2>4
    <3>7. Total(h, DOMAIN m \cup {n}) = Total(f, DOMAIN m)
      <4>1. Cuts(f, h, DOMAIN m, a, n)
        BY <2>4, <3>3, <3>4, <3>5, <3>6, SMTT(60) DEF Cuts
      <4>2. CutKeeps(f, h, DOMAIN m, n)
        BY <4>1, TotalCut, SMTT(60)
      <4> QED
        BY <4>2, SMTT(60) DEF CutKeeps
    <3> QED
      BY <3>6, <3>7 DEF ArenaIn, f, h
  <2>7. ASSUME Aligned(b) PROVE Aligned(m)
    <3>1. Multiple(Hdr) /\ Multiple(b[a].size) /\ Multiple(b[n].size)
      BY <2>2, <2>7, HeapConstants, HeapAlignment DEF Aligned, Multiple
    <3>2. Multiple(b[a].size + Hdr) /\ Multiple(b[a].size - Hdr)
      BY <3>1, AddMultiple, Zenon
    <3>3. Multiple(b[a].size + Hdr + b[n].size) /\ Multiple(b[a].size + Hdr - b[n].size)
      BY <3>1, <3>2, AddMultiple, Zenon
    <3> QED
      BY <2>4, <2>5, <2>7, <3>3, SMTT(60) DEF Aligned
  <2> QED
    BY <2>6, <2>7 DEF Kept, m
<1> QED
  BY <1>1, <1>2, SMTT(60)

\* Marking a block free or used moves no byte.
LEMMA MarkedKeeps ==
  ASSUME NEW b, WF(b), NEW a \in DOMAIN b, NEW f \in BOOLEAN
  PROVE  Kept(b, Marked(b, a, f))
<1> DEFINE m == Marked(b, a, f)
<1>1. DOMAIN m = DOMAIN b /\ \A c \in DOMAIN b : m[c].size = b[c].size
  BY DEF Marked
<1> HIDE DEF m
<1>2. TileOf(m) = TileOf(b)
  BY <1>1 DEF TileOf
<1> QED
  BY <1>1, <1>2, SMTT(60) DEF Kept, ArenaIn, Aligned, m


\* kmalloc's split and mark move no byte.
LEMMA TakenKeeps ==
  ASSUME NEW b, WF(b), NEW a \in DOMAIN b, NEW size \in Nat, size <= b[a].size,
         Multiple(size)
  PROVE  Kept(b, Taken(b, a, size))
<1> DEFINE s == split_block(b, a, size)
<1>1. WF(s) /\ Kept(b, s)
  BY SplitWF, SplitKeeps, SMTT(60)
<1>2. a \in DOMAIN s
  BY DEF split_block
<1> HIDE DEF s
<1>3. Kept(s, Marked(s, a, FALSE))
  BY <1>1, <1>2, MarkedKeeps, Zenon
<1> QED
  BY <1>1, <1>3, Zenon DEF Kept, Taken, s

\* kfree's mark and both merges move no byte.
LEMMA FreedKeeps ==
  ASSUME NEW b, WF(b), NEW a \in DOMAIN b
  PROVE  Kept(b, Freed(b, a))
<1> DEFINE m0 == Marked(b, a, TRUE)
           m1 == merge_next(m0, a)
           p  == m1[a].prev
<1>1. WF(m0) /\ Kept(b, m0) /\ DOMAIN m0 = DOMAIN b
  <2>1. WF(m0) /\ DOMAIN m0 = DOMAIN b
    BY MarkedWF, ZenonT(60)
  <2> QED
    BY <2>1, MarkedKeeps, Zenon
<1>2. Freed(b, a) = IF p # Null /\ m1[p].free THEN merge_next(m1, p) ELSE m1
  BY DEF Freed, coalesce
<1> HIDE DEF m0
<1>3. WF(m1) /\ Kept(m0, m1) /\ a \in DOMAIN m1
  <2>1. Kept(m0, m1)
    BY <1>1, MergeKeeps, SMTT(30)
  <2>2. CASE m0[a].next # Null /\ m0[m0[a].next].free
    BY <1>1, <2>1, <2>2, MergeWF, Zenon
  <2>3. CASE ~(m0[a].next # Null /\ m0[m0[a].next].free)
    <3>1. m1 = m0
      BY <2>3, SMTT(60) DEF merge_next
    <3> QED
      BY <1>1, <2>1, <3>1, SMTT(60)
  <2> QED
    BY <2>2, <2>3
<1> HIDE DEF m1
<1>4. CASE p # Null /\ m1[p].free
  <2>1. p \in DOMAIN m1
    BY <1>3, <1>4, SMTT(60) DEF WF, Backward
  <2>2. Kept(m1, merge_next(m1, p))
    BY <1>3, <2>1, MergeKeeps, SMTT(60)
  <2> QED
    BY <1>1, <1>2, <1>3, <1>4, <2>2, SMTT(60) DEF Kept
<1>5. CASE ~(p # Null /\ m1[p].free)
  BY <1>1, <1>2, <1>3, <1>5, SMTT(90) DEF Kept
<1> QED
  BY <1>4, <1>5

-----------------------------------------------------------------------------
(* The counters and the grants.                                            *)

\* The bytes of the live payloads.
HeldIn(b) == Total(PayloadOf(b), LiveIn(b))

\* kmalloc adds the block's size to the live payload.
LEMMA TakenHeld ==
  ASSUME NEW b, WF(b), NoFreePair(b), NEW a \in DOMAIN b, b[a].free,
         NEW size \in Nat, size <= b[a].size
  PROVE  HeldIn(b) \in Int /\ HeldIn(Taken(b, a, size)) = Taken(b, a, size)[a].size + HeldIn(b)
<1> DEFINE t == Taken(b, a, size)
           f == PayloadOf(b)
           h == PayloadOf(t)
<1>1. /\ WF(t) /\ LiveIn(t) = LiveIn(b) \cup {a}
      /\ \A c \in LiveIn(b) : t[c].size = b[c].size
  BY TakenWF
<1> HIDE DEF t
<1>2. a \notin LiveIn(b) /\ a \in DOMAIN t /\ LiveIn(b) \subseteq DOMAIN t
  BY <1>1, SMTT(30) DEF LiveIn
<1>3. Summable(f, LiveIn(b))
  BY BlocksSummable, SMTT(60) DEF WF, LiveIn
<1>4. h[a] = t[a].size /\ t[a].size \in Int
  BY <1>1, <1>2, Fields, SMTT(60) DEF WF, PayloadOf
<1>5. \A c \in LiveIn(b) : h[c] = f[c]
  BY <1>1, <1>2, SMTT(60) DEF PayloadOf, LiveIn
<1> HIDE DEF f, h
<1>6. Total(h, LiveIn(b) \cup {a}) = h[a] + Total(f, LiveIn(b))
  <2>1. Adds(f, h, LiveIn(b), a)
    BY <1>2, <1>3, <1>4, <1>5, SMTT(60) DEF Adds
  <2>2. Grown(f, h, LiveIn(b), a)
    BY <2>1, TotalAdd
  <2> QED
    BY <2>2, SMTT(60) DEF Grown
<1>7. Total(f, LiveIn(b)) \in Int
  BY <1>3, TotalType, SMTT(90)
<1> QED
  BY <1>1, <1>4, <1>6, <1>7, SMTT(90) DEF HeldIn, f, h, t

\* kfree takes the block's size from the live payload.
LEMMA FreedHeld ==
  ASSUME NEW b, WF(b), NoFreePair(b), NEW a \in DOMAIN b, ~b[a].free
  PROVE  HeldIn(b) \in Int /\ HeldIn(Freed(b, a)) = HeldIn(b) - b[a].size
<1> DEFINE t == Freed(b, a)
           f == PayloadOf(b)
           h == PayloadOf(t)
<1>1. /\ WF(t) /\ LiveIn(t) = LiveIn(b) \ {a}
      /\ \A c \in LiveIn(b) \ {a} : t[c].size = b[c].size
  BY FreedWF, SMTT(60)
<1> HIDE DEF t
<1>2. a \in LiveIn(b) /\ b[a].size \in Int /\ f[a] = b[a].size
  BY Fields DEF LiveIn, WF, PayloadOf
<1>3. Summable(f, LiveIn(b))
  BY BlocksSummable DEF WF, LiveIn
<1>4. \A c \in LiveIn(t) : h[c] = f[c]
  BY <1>1 DEF PayloadOf, LiveIn
<1>5. Summable(h, LiveIn(t))
  BY <1>1, BlocksSummable, SMTT(60) DEF WF, LiveIn
<1> HIDE DEF f, h
<1>6. Total(f, LiveIn(b)) = f[a] + Total(f, LiveIn(b) \ {a})
  BY <1>2, <1>3, TotalRemove
<1>7. Total(h, LiveIn(t)) = Total(f, LiveIn(t)) /\ Total(h, LiveIn(t)) \in Int
  BY <1>4, <1>5, TotalSame, TotalType
<1>8. Total(f, LiveIn(b)) \in Int
  BY <1>3, TotalType
<1> QED
  BY <1>1, <1>2, <1>6, <1>7, <1>8, SMTT(60) DEF HeldIn, f, h, t

\* heap_bytes_used is the payload of the live blocks; the tiles fill the arena;
\* boundaries are aligned; every owner has what it asked for.
LedgerInv ==
    /\ used_size = HeldIn(blocks)
    /\ ArenaIn(blocks) = ArenaSize
    /\ Aligned(blocks)
    /\ \A a \in LiveIn(blocks) :
          requested[a] <= UIntMod - Align => requested[a] <= blocks[a].size

\* The inductive invariant implies HeapExact.
LEMMA LedgerGivesExact == BlocksInv /\ LedgerInv => HeapExact
<1> SUFFICES ASSUME BlocksInv, LedgerInv PROVE HeapExact
  OBVIOUS
<1>1. Typed(blocks) /\ Live = LiveIn(blocks)
  BY DEF BlocksInv, WF, Live, LiveIn
<1>2. MapThenSumSet(LAMBDA a : blocks[a].size, Live) = Total(PayloadOf(blocks), Live)
  BY <1>1, PayloadSum, Zenon DEF LiveIn
<1>3. MapThenSumSet(LAMBDA a : Hdr + blocks[a].size, DOMAIN blocks)
        = Total(TileOf(blocks), DOMAIN blocks)
  BY <1>1, TileSum
<1>4. Accounting
  BY <1>1, <1>2, <1>3 DEF Accounting, LedgerInv, ArenaIn, HeldIn
<1>5. GrantCoversRequest
  <2> SUFFICES ASSUME NEW a \in Live PROVE (a + Hdr) % Align = 0
    BY <1>1 DEF GrantCoversRequest, LedgerInv
  <2>1. Multiple(a) /\ Multiple(Hdr)
    BY HeapConstants, HeapAlignment DEF LedgerInv, Aligned, Live, Multiple
  <2>2. Multiple(a + Hdr) /\ Multiple(a - Hdr)
    BY <2>1, AddMultiple, Zenon
  <2> QED
    BY <2>2 DEF Multiple
<1> QED
  BY <1>4, <1>5 DEF HeapExact

\* heap_init establishes it.
LEMMA LedgerInit == HeapInit => LedgerInv
<1> SUFFICES ASSUME HeapInit PROVE LedgerInv
  OBVIOUS
<1>1. Typed(blocks)
  BY BlocksInvInit DEF BlocksInv, WF
<1>2. DOMAIN blocks = {0} /\ LiveIn(blocks) = {} /\ blocks[0].size = ArenaSize - Hdr /\ used_size = 0
  BY DEF HeapInit, LiveIn
<1>3. used_size = HeldIn(blocks)
  BY <1>2, TotalEmpty DEF HeldIn
<1>4. ArenaIn(blocks) = ArenaSize
  <2> DEFINE f == TileOf(blocks)
  <2>1. f[0] = Hdr + (ArenaSize - Hdr)
    BY <1>2 DEF TileOf
  <2>2. Summable(f, {0})
    BY <1>1, <1>2, BlocksSummable
  <2> HIDE DEF f
  <2>3. Total(f, {0}) = f[0] + Total(f, {0} \ {0})
    BY <2>2, TotalRemove
  <2>4. {0} \ {0} = {} /\ Total(f, {}) = 0
    BY TotalEmpty
  <2>5. ArenaIn(blocks) = Total(f, {0})
    BY <1>2 DEF ArenaIn, f
  <2> QED
    BY <2>1, <2>3, <2>4, <2>5, HeapConstants
<1>5. Aligned(blocks)
  <2>1. Multiple(0) /\ Multiple(ArenaSize) /\ Multiple(Hdr)
    BY HeapConstants, HeapAlignment DEF Multiple
  <2>2. Multiple(ArenaSize + Hdr) /\ Multiple(ArenaSize - Hdr)
    BY <2>1, AddMultiple, ZenonT(60)
  <2> QED
    BY <1>2, <2>1, <2>2 DEF Aligned
<1> QED
  BY <1>2, <1>3, <1>4, <1>5 DEF LedgerInv

\* The invariant over the next block list t.
LedgerFor(t, u, r) ==
    /\ u = HeldIn(t) /\ ArenaIn(t) = ArenaSize /\ Aligned(t)
    /\ \A c \in LiveIn(t) : r[c] <= UIntMod - Align => r[c] <= t[c].size

\* The invariant of the next state, over its variables' values.
LEMMA LedgerIs ==
  /\ LedgerInv <=> LedgerFor(blocks, used_size, requested)
  /\ LedgerInv' <=> LedgerFor(blocks', used_size', requested')
  BY DEF LedgerInv, LedgerFor, HeldIn, ArenaIn, Aligned, TileOf, PayloadOf, LiveIn

\* kmalloc keeps it.
LEMMA KmallocLedger ==
  ASSUME BlocksInv, LedgerInv, NEW n \in Nat, kmalloc(n)
  PROVE  LedgerInv'
<1>1. CASE UNCHANGED heapVars
  BY <1>1, LedgerIs, SMTT(60) DEF heapVars
<1>2. ASSUME NEW a \in DOMAIN blocks,
             FirstFit(blocks, a, align_size(n)),
             blocks' = Taken(blocks, a, align_size(n)),
             used_size' = used_size + blocks'[a].size,
             requested' = [c \in DOMAIN requested \cup {a} |->
                               IF c = a THEN n ELSE requested[c]]
      PROVE  LedgerInv'
  <2> DEFINE size == align_size(n)
             t == Taken(blocks, a, size)
  <2>1. /\ size \in Nat /\ Multiple(size) /\ (n <= UIntMod - Align => n <= size)
        /\ blocks' = t /\ used_size' = used_size + t[a].size
    BY <1>2, AlignNat, AlignedSize, SMTT(90)
  <2>2. size <= blocks[a].size /\ blocks[a].free
    BY <1>2, <2>1, Fields, SMTT(90) DEF BlocksInv, FirstFit, WF
  <2> HIDE DEF size
  <2>3. /\ WF(t) /\ LiveIn(t) = LiveIn(blocks) \cup {a}
        /\ \A c \in LiveIn(blocks) : t[c].size = blocks[c].size
        /\ size <= t[a].size
    BY <2>1, <2>2, TakenWF, SMTT(60) DEF BlocksInv
  <2>4. Kept(blocks, t) /\ HeldIn(blocks) \in Int /\ HeldIn(t) = t[a].size + HeldIn(blocks)
    BY <2>1, <2>2, TakenKeeps, TakenHeld, SMTT(60) DEF BlocksInv
  <2> HIDE DEF t
  <2>5. a \in DOMAIN t /\ t[a].size \in Int
    BY <2>3, Fields, SMTT(60) DEF LiveIn, WF
  <2>6. \A c \in LiveIn(t) : requested'[c] <= UIntMod - Align => requested'[c] <= t[c].size
    <3> SUFFICES ASSUME NEW c \in LiveIn(t), requested'[c] <= UIntMod - Align
                 PROVE  requested'[c] <= t[c].size
      BY SMTT(60)
    <3>1. CASE c = a
      BY <1>2, <2>1, <2>3, <2>5, <3>1, SMTT(90)
    <3>2. CASE c # a
      BY <1>2, <2>3, <3>2, SMTT(90) DEF BlocksInv, LedgerInv
    <3> QED
      BY <3>1, <3>2, SMTT(60)
  <2>7. used_size' = HeldIn(t) /\ ArenaIn(t) = ArenaSize /\ Aligned(t)
    BY <2>1, <2>4, <2>5, SMTT(90) DEF Kept, LedgerInv
  <2> QED
    BY <2>1, <2>6, <2>7, LedgerIs, SMTT(90) DEF LedgerFor
<1> QED
  BY <1>1, <1>2, Zenon DEF kmalloc

\* kfree keeps it.
LEMMA ReleaseLedger ==
  ASSUME BlocksInv, LedgerInv, NEW a \in Live, Release(a)
  PROVE  LedgerInv'
<1> DEFINE t == Freed(blocks, a)
<1>1. a \in DOMAIN blocks /\ ~blocks[a].free /\ blocks' = t
  BY DEF Live, Release
<1>2. /\ LiveIn(t) = LiveIn(blocks) \ {a}
      /\ \A c \in LiveIn(blocks) \ {a} : t[c].size = blocks[c].size
  BY <1>1, FreedWF DEF BlocksInv
<1>3. Kept(blocks, t) /\ HeldIn(t) = HeldIn(blocks) - blocks[a].size
  BY <1>1, FreedKeeps, FreedHeld, SMTT(60) DEF BlocksInv
<1> HIDE DEF t
<1>4. \A c \in LiveIn(t) : requested'[c] <= UIntMod - Align => requested'[c] <= t[c].size
  BY <1>2, SMTT(60) DEF BlocksInv, LedgerInv, Release
<1>5. used_size' = HeldIn(t) /\ ArenaIn(t) = ArenaSize /\ Aligned(t)
  BY <1>3, SMTT(60) DEF Kept, LedgerInv, Release
<1> QED
  BY <1>1, <1>4, <1>5, LedgerIs, SMTT(60) DEF LedgerFor

\* The growing path of krealloc keeps it.
LEMMA RelocateLedger ==
  ASSUME BlocksInv, LedgerInv, NEW a \in Live, NEW n \in Nat, Relocate(a, n)
  PROVE  LedgerInv'
<1> DEFINE size == align_size(n)
<1>1. size \in Nat /\ Multiple(size) /\ (n <= UIntMod - Align => n <= size)
  BY AlignNat, AlignedSize, SMTT(90)
<1>2. PICK c \in DOMAIN blocks :
        /\ FirstFit(blocks, c, size)
        /\ blocks' = Freed(Taken(blocks, c, size), a)
        /\ used_size' = used_size + Taken(blocks, c, size)[c].size
                        - Taken(blocks, c, size)[a].size
        /\ requested' = [x \in (DOMAIN requested \ {a}) \cup {c} |->
                           IF x = c THEN n ELSE requested[x]]
  BY SMTT(60) DEF Relocate
<1>3. size <= blocks[c].size /\ blocks[c].free
  BY <1>1, <1>2, Fields, SMTT(60) DEF BlocksInv, FirstFit, WF
<1> DEFINE t == Taken(blocks, c, size)
           u == Freed(t, a)
<1> HIDE DEF size
<1>4. a \in LiveIn(blocks) /\ a # c /\ c \notin LiveIn(blocks) /\ Live = LiveIn(blocks)
  BY <1>3, SMTT(60) DEF Live, LiveIn
<1>5. /\ WF(t) /\ NoFreePair(t) /\ LiveIn(t) = LiveIn(blocks) \cup {c}
      /\ \A x \in LiveIn(blocks) : t[x].size = blocks[x].size
      /\ size <= t[c].size
  BY <1>1, <1>3, TakenWF, SMTT(60) DEF BlocksInv
<1>6. Kept(blocks, t) /\ HeldIn(blocks) \in Int /\ HeldIn(t) = t[c].size + HeldIn(blocks)
  BY <1>1, <1>3, TakenKeeps, TakenHeld, SMTT(90) DEF BlocksInv
<1>7. blocks' = u /\ used_size' = used_size + t[c].size - t[a].size
  BY <1>2, SMTT(60)
<1> HIDE DEF t
<1>8. a \in DOMAIN t /\ ~t[a].free /\ c \in DOMAIN t
  BY <1>4, <1>5, SMTT(90) DEF LiveIn
<1>9. t[a].size \in Int /\ t[c].size \in Int
  BY <1>5, <1>8, Fields, SMTT(90) DEF WF
<1>10. /\ LiveIn(u) = LiveIn(t) \ {a}
       /\ \A x \in LiveIn(t) \ {a} : u[x].size = t[x].size
  BY <1>5, <1>8, FreedWF, SMTT(90)
<1>11. Kept(t, u) /\ HeldIn(u) = HeldIn(t) - t[a].size
  BY <1>5, <1>8, FreedKeeps, FreedHeld, SMTT(60)
<1> HIDE DEF u
<1>12. \A x \in LiveIn(u) : requested'[x] <= UIntMod - Align => requested'[x] <= u[x].size
  <2> SUFFICES ASSUME NEW x \in LiveIn(u), requested'[x] <= UIntMod - Align
               PROVE  requested'[x] <= u[x].size
    BY SMTT(90)
  <2>1. CASE x = c
    BY <1>1, <1>2, <1>4, <1>5, <1>9, <1>10, <2>1, SMTT(90)
  <2>2. CASE x # c
    BY <1>2, <1>4, <1>5, <1>10, <2>2, SMTT(90) DEF BlocksInv, LedgerInv
  <2> QED
    BY <2>1, <2>2, SMTT(60)
<1>13. used_size' = HeldIn(u) /\ ArenaIn(u) = ArenaSize /\ Aligned(u)
  BY <1>6, <1>7, <1>9, <1>11, SMTT(90) DEF Kept, LedgerInv
<1> QED
  BY <1>7, <1>12, <1>13, LedgerIs, SMTT(60) DEF LedgerFor

\* Every call that writes only within the block it was granted keeps the invariant.
LEMMA LedgerStep ==
  BlocksInv /\ LedgerInv /\ [HeapNext]_heapVars /\ ~overrun' => LedgerInv'
<1> SUFFICES ASSUME BlocksInv, LedgerInv, [HeapNext]_heapVars, ~overrun' PROVE LedgerInv'
  OBVIOUS
<1>1. CASE UNCHANGED heapVars
  BY <1>1, LedgerIs DEF heapVars
<1>2. ASSUME NEW n \in Nat, kmalloc(n) PROVE LedgerInv'
  BY <1>2, KmallocLedger
<1>3. ASSUME NEW c \in Requests, NEW n \in Requests, kcalloc(c, n) PROVE LedgerInv'
  <2>1. c * n \in Nat
    BY HeapConstants
  <2> QED
    BY <1>1, <1>2, <1>3, <2>1 DEF kcalloc, ClearPast
<1>4. ASSUME NEW a, kfree(a) PROVE LedgerInv'
  BY <1>1, <1>4, ReleaseLedger, SMTT(90) DEF kfree
<1>5. ASSUME NEW a, NEW n \in Requests, krealloc(a, n) PROVE LedgerInv'
  <2>1. n \in Nat
    BY HeapConstants
  <2>2. CASE a = Null /\ kmalloc(n)
    BY <1>2, <2>1, <2>2, SMTT(60)
  <2>3. CASE a \in Live /\ Relocate(a, n)
    BY <2>1, <2>3, RelocateLedger
  <2>4. CASE /\ a \in Live /\ blocks[a].size >= n
             /\ requested' = [requested EXCEPT ![a] = n]
             /\ UNCHANGED <<blocks, used_size, overrun>>
    <3>1. blocks' = blocks /\ used_size' = used_size
      BY <2>4
    <3>2. \A c \in LiveIn(blocks) : requested'[c] <= UIntMod - Align => requested'[c] <= blocks[c].size
      BY <2>1, <2>4, Fields, SMTT(90) DEF LedgerInv, BlocksInv, WF, LiveIn, Live
    <3> QED
      BY <3>1, <3>2, LedgerIs DEF LedgerFor
  <2>5. ~ CopyPast(a, n)
    BY DEF CopyPast
  <2> QED
    BY <1>1, <1>4, <1>5, <2>2, <2>3, <2>4, <2>5, Zenon DEF krealloc
<1> QED
  BY <1>1, <1>2, <1>3, <1>4, <1>5, HeapConstants, SMTT(60) DEF HeapNext

\* heap_bytes_used is exactly the payload of the live blocks, headers and payloads
\* add up to the arena, every pointer handed out is aligned, and every owner has
\* what it asked for below 2^32 - 15, for any arena and any requests, until a call
\* writes past the block it was granted (kmalloc, kcalloc, krealloc, kfree,
\* align_size).
THEOREM HeapBooksBalance == HeapSpec => []HeapExact
<1>1. (~overrun => BlocksInv) /\ (~overrun => LedgerInv) /\ [HeapNext]_heapVars
        => (~overrun => LedgerInv)'
  BY LedgerStep, OverrunStays
<1>2. (~overrun => BlocksInv) /\ (~overrun => LedgerInv) => HeapExact
  BY LedgerGivesExact DEF HeapExact
<1> QED
  BY <1>1, <1>2, LedgerInit, BlocksInvariant, PTL DEF HeapSpec

-----------------------------------------------------------------------------
(* What the heap itself writes.                                            *)

\* The block a request is given has the size asked for, below 2^32 - 15, and its
\* header was not live before.
LEMMA TakenCovers ==
  ASSUME BlocksInv, NEW n \in Nat, NEW c \in DOMAIN blocks, FirstFit(blocks, c, align_size(n))
  PROVE  /\ c \notin DOMAIN requested
         /\ Taken(blocks, c, align_size(n))[c].size \in Int
         /\ n <= UIntMod - Align => n <= Taken(blocks, c, align_size(n))[c].size
         /\ \A x \in LiveIn(blocks) : Taken(blocks, c, align_size(n))[x].size = blocks[x].size
<1> DEFINE size == align_size(n)
           t == Taken(blocks, c, size)
<1>1. size \in Nat /\ (n <= UIntMod - Align => n <= size)
  BY AlignNat, AlignedSize, SMTT(90)
<1>2. size <= blocks[c].size /\ blocks[c].free
  BY <1>1, Fields, SMTT(60) DEF BlocksInv, FirstFit, WF
<1> HIDE DEF size
<1>3. /\ WF(t) /\ LiveIn(t) = LiveIn(blocks) \cup {c} /\ size <= t[c].size
      /\ \A x \in LiveIn(blocks) : t[x].size = blocks[x].size
  BY <1>1, <1>2, TakenWF, SMTT(60) DEF BlocksInv
<1> HIDE DEF t
<1>4. t[c].size \in Int
  BY <1>3, Fields, SMTT(60) DEF LiveIn, WF
<1>5. c \notin DOMAIN requested
  BY <1>2 DEF BlocksInv, LiveIn
<1>6. n <= UIntMod - Align => n <= t[c].size
  BY <1>1, <1>3, <1>4, HeapConstants
<1> QED
  BY <1>3, <1>4, <1>5, <1>6 DEF t, size

\* What WritesFit says of a step.
FitStep ==
    overrun' => \E c \in DOMAIN requested' \ DOMAIN requested : requested'[c] > UIntMod - Align

\* kcalloc: the block is as large as what is cleared.
LEMMA ClearFits ==
  ASSUME BlocksInv, NEW n \in Nat, ClearPast(n)
  PROVE  FitStep /\ n > UIntMod - Align
<1>1. PICK a \in DOMAIN blocks :
        /\ FirstFit(blocks, a, align_size(n)) /\ n > Taken(blocks, a, align_size(n))[a].size
        /\ requested' = [c \in DOMAIN requested \cup {a} |-> IF c = a THEN n ELSE requested[c]]
  BY DEF ClearPast
<1>2. /\ a \notin DOMAIN requested
      /\ Taken(blocks, a, align_size(n))[a].size \in Int
      /\ n <= UIntMod - Align => n <= Taken(blocks, a, align_size(n))[a].size
  BY <1>1, TakenCovers
<1>3. n > UIntMod - Align
  BY <1>1, <1>2, HeapConstants
<1> QED
  BY <1>1, <1>2, <1>3 DEF FitStep

\* krealloc: the old block was too small for the request, the new one is not.
LEMMA CopyFits ==
  ASSUME BlocksInv, NEW a \in Live, NEW n \in Nat, blocks[a].size < n, CopyPast(a, n)
  PROVE  FitStep /\ n > UIntMod - Align
<1>1. PICK c \in DOMAIN blocks :
        /\ FirstFit(blocks, c, align_size(n))
        /\ Taken(blocks, c, align_size(n))[a].size > Taken(blocks, c, align_size(n))[c].size
        /\ requested' = [x \in DOMAIN requested \cup {c} |-> IF x = c THEN n ELSE requested[x]]
  BY DEF CopyPast
<1>2. /\ c \notin DOMAIN requested
      /\ Taken(blocks, c, align_size(n))[c].size \in Int
      /\ n <= UIntMod - Align => n <= Taken(blocks, c, align_size(n))[c].size
      /\ \A x \in LiveIn(blocks) : Taken(blocks, c, align_size(n))[x].size = blocks[x].size
  BY <1>1, TakenCovers
<1>3. blocks[a].size \in Int /\ Taken(blocks, c, align_size(n))[a].size = blocks[a].size
  BY <1>2, Fields DEF Live, LiveIn, BlocksInv, WF
<1>4. n > UIntMod - Align
  BY <1>1, <1>2, <1>3, HeapConstants
<1> QED
  BY <1>1, <1>2, <1>4 DEF FitStep

\* No other call writes past a block.
LEMMA FitsEveryStep == BlocksInv /\ ~overrun /\ HeapNext => FitStep
<1> SUFFICES ASSUME BlocksInv, ~overrun, HeapNext PROVE FitStep
  OBVIOUS
<1>1. CASE UNCHANGED overrun
  BY <1>1 DEF FitStep
<1>2. ASSUME NEW n, kmalloc(n) PROVE FitStep
  BY <1>1, <1>2 DEF kmalloc, heapVars
<1>3. ASSUME NEW c \in Requests, NEW n \in Requests, kcalloc(c, n) PROVE FitStep
  <2>1. c * n \in Nat
    BY HeapConstants
  <2> QED
    BY <1>1, <1>2, <1>3, <2>1, ClearFits DEF kcalloc, heapVars
<1>4. ASSUME NEW a, kfree(a) PROVE FitStep
  BY <1>1, <1>4 DEF kfree, Release, heapVars
<1>5. ASSUME NEW a, NEW n \in Requests, krealloc(a, n) PROVE FitStep
  <2>1. n \in Nat
    BY HeapConstants
  <2>2. CASE Relocate(a, n)
    BY <1>1, <2>2 DEF Relocate
  <2>3. CASE a \in Live /\ blocks[a].size < n /\ CopyPast(a, n)
    BY <2>1, <2>3, CopyFits
  <2> QED
    BY <1>1, <1>2, <1>4, <1>5, <2>2, <2>3 DEF krealloc, heapVars
<1> QED
  BY <1>2, <1>3, <1>4, <1>5 DEF HeapNext

\* kcalloc clears and krealloc copies within the block just granted, unless more
\* than 2^32 - 16 bytes were asked for (kcalloc, krealloc).
THEOREM HeapWritesFit == HeapSpec => WritesFit
<1>1. (~overrun => BlocksInv) /\ [HeapNext]_heapVars
        => [overrun' => \E c \in DOMAIN requested' \ DOMAIN requested :
                          requested'[c] > UIntMod - Align]_heapVars
  BY FitsEveryStep DEF HeapNext, FitStep
<1> QED
  BY <1>1, BlocksInvariant, PTL DEF HeapSpec, WritesFit

\* A heap whose callers never ask for more than 2^32 - 16 bytes keeps the whole
\* promise: it never writes past a block, and every step is one of the abstract
\* allocator (kmalloc, kcalloc, krealloc, kfree).
THEOREM HeapKeepsPromise ==
  ASSUME \A c, n \in Requests : c <= UIntMod - Align /\ c * n <= UIntMod - Align
  PROVE  HeapSpec => [](~overrun) /\ HeapPromise!AllocatorSpec
<1>1. BlocksInv /\ ~overrun /\ [HeapNext]_heapVars => ~overrun'
  <2> SUFFICES ASSUME BlocksInv, ~overrun, [HeapNext]_heapVars PROVE ~overrun'
    OBVIOUS
  <2>1. CASE UNCHANGED overrun
    BY <2>1
  <2>2. ASSUME NEW n, kmalloc(n) PROVE ~overrun'
    BY <2>1, <2>2 DEF kmalloc, heapVars
  <2>3. ASSUME NEW c \in Requests, NEW n \in Requests, kcalloc(c, n) PROVE ~overrun'
    <3>1. c * n \in Nat /\ c * n <= UIntMod - Align
      BY HeapConstants
    <3>2. ~ ClearPast(c * n)
      <4> SUFFICES ASSUME ClearPast(c * n) PROVE FALSE
        OBVIOUS
      <4>1. c * n > UIntMod - Align
        BY <3>1, ClearFits
      <4> QED
        BY <3>1, <4>1, HeapConstants
    <3> QED
      BY <2>1, <2>2, <2>3, <3>2 DEF kcalloc, heapVars
  <2>4. ASSUME NEW a, kfree(a) PROVE ~overrun'
    BY <2>1, <2>4 DEF kfree, Release, heapVars
  <2>5. ASSUME NEW a, NEW n \in Requests, krealloc(a, n) PROVE ~overrun'
    <3>1. n \in Nat /\ n <= UIntMod - Align
      BY HeapConstants
    <3>2. ASSUME a \in Live, blocks[a].size < n, CopyPast(a, n) PROVE FALSE
      <4>1. n > UIntMod - Align
        BY <3>1, <3>2, CopyFits
      <4> QED
        BY <3>1, <4>1, HeapConstants
    <3>3. CASE Relocate(a, n)
      BY <2>1, <3>3 DEF Relocate
    <3> QED
      BY <2>1, <2>2, <2>4, <2>5, <3>2, <3>3 DEF krealloc, heapVars
  <2> QED
    BY <2>1, <2>2, <2>3, <2>4, <2>5 DEF HeapNext, heapVars
<1>2. HeapInit => ~overrun
  BY DEF HeapInit
<1>3. HeapInit => HeapPromise!AllocatorInit
  BY DEF HeapInit, HeapPromise!AllocatorInit, LiveMap
<1> QED
  BY <1>1, <1>2, <1>3, BlocksInvariant, HeapStepRefines, PTL DEF HeapSpec, HeapPromise!AllocatorSpec
=============================================================================
