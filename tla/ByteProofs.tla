------------------------------ MODULE ByteProofs -------------------------------
EXTENDS ByteBuffers, SequenceTheorems, WellFoundedInduction, TLAPS

\* The slot of the i-th byte from slot h on in a ring of c slots, and the n bytes
\* from slot h on.
Slot(h, i, c) == IF h + i - 1 < c THEN h + i - 1 ELSE h + i - 1 - c

BytesFrom(b, h, n, c) == [i \in 1 .. n |-> b[Slot(h, i, c)]]

-------------------------------------------------------------------------------
(***************************************************************************)
(* The pipe and the byte ring, for every capacity and every sequence of    *)
(* calls of any lengths.  A copying loop is a function on its turns; its   *)
(* value after k turns is given in closed form and shown to be the loop's  *)
(* by induction on k.                                                      *)
(***************************************************************************)

\* Two loops that begin alike and take the same turns end alike.
LEMMA SameLoop ==
  ASSUME NEW n \in Nat, NEW f, NEW g, f[0] = g[0],
         \A k \in 1 .. n : f[k - 1] = g[k - 1] => f[k] = g[k]
  PROVE  f[n] = g[n]
<1> SUFFICES ASSUME f[n] # g[n] PROVE FALSE
  OBVIOUS
<1> DEFINE T == {k \in Nat : k <= n /\ f[k] # g[k]}
           R == {ss \in Nat \X Nat : ss[1] < ss[2]}
<1>1. IsWellFoundedOn(R, Nat)
  BY NatLessThanWellFounded DEF OpToRel
<1>2. T \in SUBSET Nat /\ T # {}
  OBVIOUS
<1>3. PICK m \in T : \A k \in T : ~ (<<k, m>> \in R)
  <2> HIDE DEF R, T
  <2> QED
    BY <1>1, <1>2, WFMin, Zenon
<1>4. \A k \in T : ~ (k < m)
  BY <1>3, Zenon
<1>5. m \in 1 .. n /\ m - 1 \notin T
  BY <1>4
<1> QED
  BY <1>5

\* x % c for an x less than two rounds from the start.
LEMMA Rounds ==
  ASSUME NEW c \in Nat \ {0}, NEW x \in 0 .. 2 * c - 1
  PROVE  x % c = IF x < c THEN x ELSE x - c
  OBVIOUS

LEMMA NextSlot ==
  ASSUME NEW c \in Nat \ {0}, NEW h \in 0 .. c - 1, NEW i \in 1 .. c
  PROVE  Slot(h, i, c) \in 0 .. c - 1 /\ (Slot(h, i, c) + 1) % c = Slot(h, i + 1, c)
<1>1. Slot(h, i, c) \in 0 .. c - 1
  BY DEF Slot
<1> DEFINE p == Slot(h, i, c)
<1>2. p + 1 \in 0 .. 2 * c - 1 /\ (p + 1 < c \/ p + 1 = c)
  BY <1>1
<1>3. (p + 1) % c = IF p + 1 < c THEN p + 1 ELSE (p + 1) - c
  BY <1>2, Rounds
<1> QED
  BY <1>1, <1>3 DEF Slot

LEMMA IsSeq ==
  ASSUME NEW V, NEW n \in Nat, NEW s \in [1 .. n -> V]
  PROVE  s \in Seq(V) /\ Len(s) = n
<1>1. s \in Seq(V) /\ DOMAIN s = 1 .. n
  BY SeqDef
<1> QED
  BY <1>1, LenProperties

\* One item more.
LEMMA AppendNext ==
  ASSUME NEW f, NEW k \in Nat \ {0}
  PROVE  Append([i \in 1 .. k - 1 |-> f[i]], f[k]) = [i \in 1 .. k |-> f[i]]
<1> DEFINE V == {f[i] : i \in 1 .. k}
           s == [i \in 1 .. k - 1 |-> f[i]]
           t == [i \in 1 .. k |-> f[i]]
<1>1. s \in [1 .. k - 1 -> V] /\ t \in [1 .. k -> V] /\ f[k] \in V
  OBVIOUS
<1>2. s \in Seq(V) /\ t \in Seq(V) /\ Len(s) = k - 1 /\ Len(t) = k
  <2>1. k - 1 \in Nat
    OBVIOUS
  <2> HIDE DEF V, s, t
  <2> QED
    BY <1>1, <2>1, IsSeq
<1>3. \A i \in 1 .. k : t[i] = IF i <= k - 1 THEN s[i] ELSE f[k]
  OBVIOUS
<1> HIDE DEF V, s, t
<1>4. Append(s, f[k]) \in Seq(V) /\ Len(Append(s, f[k])) = k
  BY <1>1, <1>2, AppendProperties
<1>5. \A i \in 1 .. k : Append(s, f[k])[i] = t[i]
  BY <1>1, <1>2, <1>3, AppendProperties
<1>6. Append(s, f[k]) = t
  BY <1>2, <1>4, <1>5, SeqEqual
<1> QED
  BY <1>6 DEF s, t

\* What a loop leaves in the slots of a ring: m bytes of data from slot w on.
Laid(b, w, c, data, m) ==
    [j \in 0 .. c - 1 |-> LET o == IF j >= w THEN j - w ELSE j - w + c
                          IN  IF o < m THEN data[o + 1] ELSE b[j]]

Store(b, j, value) == [b EXCEPT ![j] = value]

LEMMA LaysNext ==
  ASSUME NEW c \in Nat \ {0}, NEW b, NEW w \in 0 .. c - 1, NEW data, NEW k \in 1 .. c
  PROVE  Store(Laid(b, w, c, data, k - 1), Slot(w, k, c), data[k]) = Laid(b, w, c, data, k)
<1>1. Slot(w, k, c) \in 0 .. c - 1
  BY NextSlot
<1> DEFINE o(j) == IF j >= w THEN j - w ELSE j - w + c
<1>2. ASSUME NEW j \in 0 .. c - 1
      PROVE  /\ o(j) \in 0 .. c - 1 /\ (j = Slot(w, k, c) <=> o(j) = k - 1)
             /\ (o(j) < k <=> o(j) < k - 1 \/ o(j) = k - 1)
             /\ (o(j) = k - 1 => o(j) + 1 = k)
  BY DEF Slot
<1> DEFINE before == Laid(b, w, c, data, k - 1)
<1>3. before = [j \in 0 .. c - 1 |-> IF o(j) < k - 1 THEN data[o(j) + 1] ELSE b[j]]
  BY DEF Laid
<1>4. Laid(b, w, c, data, k) = [j \in 0 .. c - 1 |-> IF o(j) < k THEN data[o(j) + 1] ELSE b[j]]
  BY DEF Laid
<1> HIDE DEF before, o
<1>5. [before EXCEPT ![Slot(w, k, c)] = data[k]] =
        [j \in 0 .. c - 1 |-> IF j = Slot(w, k, c) THEN data[k] ELSE before[j]]
  BY <1>1, <1>3, Zenon
<1>6. ASSUME NEW j \in 0 .. c - 1
      PROVE  (IF j = Slot(w, k, c) THEN data[k] ELSE before[j])
             = IF o(j) < k THEN data[o(j) + 1] ELSE b[j]
  BY <1>2, <1>3, Zenon
<1> QED
  BY <1>4, <1>5, <1>6 DEF before, Store

LEMMA NothingLaid ==
  ASSUME NEW c \in Nat \ {0}, NEW V, NEW b \in [0 .. c - 1 -> V],
         NEW w \in 0 .. c - 1, NEW data
  PROVE  Laid(b, w, c, data, 0) = b
<1>1. \A j \in 0 .. c - 1 : ~((IF j >= w THEN j - w ELSE j - w + c) < 0)
  OBVIOUS
<1> QED
  BY <1>1 DEF Laid

-----------------------------------------------------------------------------
\* A pipe of c bytes in the array b.
PipeOf(b, c, r, w, n, rc, wc) ==
    [buffer |-> b, capacity |-> c, read_index |-> r, write_index |-> w, size |-> n,
     reader_closed |-> rc, writer_closed |-> wc]

Least2(x, y) == IF x < y THEN x ELSE y

\* The loop of pipe_read copies the oldest bytes, as many as there are.
ReadCopies(b, c, r, w, n, rc, wc, total) ==
    LET m == Least2(total, n)
    IN  ReadLoop(PipeOf(b, c, r, w, n, rc, wc), total) =
          [p |-> PipeOf(b, c, Slot(r, m + 1, c), w, n - m, rc, wc),
           copied |-> [i \in 1 .. m |-> b[Slot(r, i, c)]]]

LEMMA ReadLoopCopies ==
  ASSUME NEW c \in Nat \ {0}, NEW b, NEW r \in 0 .. c - 1, NEW w, NEW n \in 0 .. c, NEW rc, NEW wc,
         NEW total \in Nat
  PROVE  ReadCopies(b, c, r, w, n, rc, wc, total)
<1> USE DEF ReadCopies
<1> DEFINE p == PipeOf(b, c, r, w, n, rc, wc)
           After(m) == [p |-> PipeOf(b, c, Slot(r, m + 1, c), w, n - m, rc, wc),
                        copied |-> [i \in 1 .. m |-> b[Slot(r, i, c)]]]
           f == [k \in 0 .. total |-> After(Least2(k, n))]
           Turns(t) == t = [k \in 0 .. total |-> IF k = 0 THEN [p |-> p, copied |-> << >>]
                                                 ELSE ReadByte(t[k - 1])]
<1>1. After(0) = [p |-> p, copied |-> << >>]
  BY DEF PipeOf, Slot
<1>2. ASSUME NEW m \in 0 .. n
      PROVE  ReadByte(After(m)) = After(Least2(m + 1, n))
  <2>1. CASE m = n
    <3>1. n - m = 0 /\ Least2(m + 1, n) = m
      BY <2>1 DEF Least2
    <3> QED
      BY <3>1, Zenon DEF ReadByte, PipeOf
  <2>2. CASE m # n
    <3>1. m + 1 \in 1 .. c /\ Least2(m + 1, n) = m + 1 /\ n - m # 0 /\ n - m - 1 = n - (m + 1)
      BY <2>2 DEF Least2
    <3>2. (Slot(r, m + 1, c) + 1) % c = Slot(r, (m + 1) + 1, c)
      BY <3>1, NextSlot
    <3> DEFINE g == [i \in 1 .. m + 1 |-> b[Slot(r, i, c)]]
    <3>3. Append([i \in 1 .. m |-> b[Slot(r, i, c)]], b[Slot(r, m + 1, c)]) =
            [i \in 1 .. m + 1 |-> b[Slot(r, i, c)]]
      <4>1. m + 1 \in Nat \ {0} /\ (m + 1) - 1 = m
        OBVIOUS
      <4>2. Append([i \in 1 .. (m + 1) - 1 |-> g[i]], g[m + 1]) = [i \in 1 .. m + 1 |-> g[i]]
        <5> HIDE DEF g
        <5> QED
          BY <4>1, AppendNext
      <4>3. /\ g[m + 1] = b[Slot(r, m + 1, c)]
            /\ [i \in 1 .. m |-> g[i]] = [i \in 1 .. m |-> b[Slot(r, i, c)]]
            /\ [i \in 1 .. m + 1 |-> g[i]] = [i \in 1 .. m + 1 |-> b[Slot(r, i, c)]]
        OBVIOUS
      <4> HIDE DEF g
      <4> QED
        BY <4>1, <4>2, <4>3
    <3> QED
      BY <3>1, <3>2, <3>3, Zenon DEF ReadByte, PipeOf
  <2> QED
    BY <2>1, <2>2
<1>3. ASSUME NEW k \in 1 .. total
      PROVE  f[k] = ReadByte(f[k - 1])
  <2> DEFINE m == Least2(k - 1, n)
  <2>1. m \in 0 .. n /\ Least2(m + 1, n) = Least2(k, n) /\ k \in 0 .. total /\ k - 1 \in 0 .. total
    BY DEF Least2
  <2>2. f[k] = After(Least2(k, n)) /\ f[k - 1] = After(m)
    <3> HIDE DEF After, m
    <3> QED
      BY <2>1 DEF m
  <2> HIDE DEF f, After, m
  <2> QED
    BY <1>2, <2>1, <2>2
<1>4. f[0] = [p |-> p, copied |-> << >>] /\ DOMAIN f = 0 .. total
  <2>1. Least2(0, n) = 0 /\ 0 \in 0 .. total
    BY DEF Least2
  <2> HIDE DEF After
  <2> QED
    BY <1>1, <2>1
<1>5. Turns(f)
  <2>1. f = [k \in 0 .. total |-> f[k]]
    OBVIOUS
  <2>2. \A k \in 0 .. total : f[k] = IF k = 0 THEN [p |-> p, copied |-> << >>] ELSE ReadByte(f[k - 1])
    <3> HIDE DEF f, After
    <3> QED
      BY <1>3, <1>4
  <2> HIDE DEF f, After
  <2> QED
    BY <2>1, <2>2, SMTT(90)
<1> DEFINE t == CHOOSE x : Turns(x)
<1>6. ReadLoop(p, total) = t[total]
  BY DEF ReadLoop
<1>7. Turns(t)
  <2> HIDE DEF Turns
  <2> QED
    BY <1>5
<1>8. t[0] = f[0] /\ \A k \in 1 .. total : t[k] = ReadByte(t[k - 1])
  <2> HIDE DEF t, f
  <2> QED
    BY <1>4, <1>7
<1>9. t[total] = f[total]
  <2> HIDE DEF t, f
  <2> QED
    BY <1>3, <1>8, SameLoop
<1>10. f[total] = After(Least2(total, n))
  OBVIOUS
<1> HIDE DEF f, t, Turns
<1> QED
  BY <1>6, <1>9, <1>10

LEMMA WriteOne ==
  ASSUME NEW b, NEW c \in Nat, NEW r, NEW w, NEW n \in Nat, NEW rc, NEW wc, n < c, NEW byte
  PROVE  WriteByte(PipeOf(b, c, r, w, n, rc, wc), byte) =
           PipeOf(Store(b, w, byte), c, r, (w + 1) % c, n + 1, rc, wc)
<1> DEFINE p == PipeOf(b, c, r, w, n, rc, wc)
<1>1. p.size = n /\ p.capacity = c /\ p.write_index = w /\ p.buffer = b
  BY DEF PipeOf
<1>2. WriteByte(p, byte) =
        IF p.size >= p.capacity THEN p
        ELSE [p EXCEPT !.buffer = Store(p.buffer, p.write_index, byte),
                       !.write_index = (p.write_index + 1) % p.capacity, !.size = p.size + 1]
  <2> HIDE DEF p
  <2> QED
    BY DEF WriteByte, Store
<1>3. WriteByte(p, byte) = [p EXCEPT !.buffer = Store(b, w, byte), !.write_index = (w + 1) % c, !.size = n + 1]
  <2> HIDE DEF p
  <2> QED
    BY <1>1, <1>2
<1> QED
  BY <1>3, Zenon DEF PipeOf

\* The loop of pipe_write stores the first bytes it is given, as many as there is
\* room for.
WriteCopies(b, c, r, w, n, rc, wc, data) ==
    LET m == Least2(Len(data), c - n)
    IN  WriteLoop(PipeOf(b, c, r, w, n, rc, wc), data) =
          PipeOf(Laid(b, w, c, data, m), c, r, Slot(w, m + 1, c), n + m, rc, wc)

LEMMA WriteLoopCopies ==
  ASSUME NEW c \in Nat \ {0}, NEW V, NEW b \in [0 .. c - 1 -> V],
         NEW r \in 0 .. c - 1, NEW w \in 0 .. c - 1, NEW n \in 0 .. c, NEW rc, NEW wc, NEW data, Len(data) \in Nat
  PROVE  WriteCopies(b, c, r, w, n, rc, wc, data)
<1> USE DEF WriteCopies
<1> DEFINE total == Len(data)
           p == PipeOf(b, c, r, w, n, rc, wc)
           After(m) == PipeOf(Laid(b, w, c, data, m), c, r, Slot(w, m + 1, c), n + m, rc, wc)
           f == [k \in 0 .. total |-> After(Least2(k, c - n))]
           Turns(t) == t = [k \in 0 .. total |-> IF k = 0 THEN p ELSE WriteByte(t[k - 1], data[k])]
<1>1. After(0) = p
  <2>1. Laid(b, w, c, data, 0) = b
    BY NothingLaid, Zenon
  <2>2. Slot(w, 0 + 1, c) = w /\ n + 0 = n
    BY DEF Slot
  <2> QED
    BY <2>1, <2>2 DEF PipeOf
<1>2. ASSUME NEW k \in 1 .. total
      PROVE  WriteByte(After(Least2(k - 1, c - n)), data[k]) = After(Least2(k, c - n))
  <2>1. CASE k - 1 >= c - n
    <3>1. Least2(k - 1, c - n) = c - n /\ Least2(k, c - n) = c - n /\ n + (c - n) = c
      BY <2>1 DEF Least2
    <3> QED
      BY <3>1 DEF WriteByte, PipeOf
  <2>2. CASE k - 1 < c - n
    <3>1. /\ k \in 1 .. c /\ Least2(k - 1, c - n) = k - 1 /\ Least2(k, c - n) = k /\ (k - 1) + 1 = k
          /\ n + (k - 1) < c /\ n + (k - 1) + 1 = n + k
      BY <2>2 DEF Least2
    <3>2. (Slot(w, k, c) + 1) % c = Slot(w, k + 1, c)
      BY <3>1, NextSlot
    <3>3. Store(Laid(b, w, c, data, k - 1), Slot(w, k, c), data[k]) = Laid(b, w, c, data, k)
      BY <3>1, LaysNext
    <3>4. After(k - 1) = PipeOf(Laid(b, w, c, data, k - 1), c, r, Slot(w, k, c), n + (k - 1), rc, wc)
      BY <3>1 DEF PipeOf
    <3>5. WriteByte(After(k - 1), data[k]) =
            PipeOf(Store(Laid(b, w, c, data, k - 1), Slot(w, k, c), data[k]),
                   c, r, (Slot(w, k, c) + 1) % c, n + (k - 1) + 1, rc, wc)
      BY <3>1, <3>4, WriteOne
    <3> QED
      BY <3>1, <3>2, <3>3, <3>5
  <2> QED
    BY <2>1, <2>2
<1>3. ASSUME NEW k \in 1 .. total
      PROVE  f[k] = WriteByte(f[k - 1], data[k])
  <2>1. k \in 0 .. total /\ k - 1 \in 0 .. total
    OBVIOUS
  <2> HIDE DEF After
  <2> QED
    BY <1>2, <2>1
<1>4. f[0] = p /\ DOMAIN f = 0 .. total
  <2>1. Least2(0, c - n) = 0 /\ 0 \in 0 .. total
    BY DEF Least2
  <2> HIDE DEF After
  <2> QED
    BY <1>1, <2>1
<1>5. Turns(f)
  <2>1. f = [k \in 0 .. total |-> f[k]]
    OBVIOUS
  <2>2. \A k \in 0 .. total : f[k] = IF k = 0 THEN p ELSE WriteByte(f[k - 1], data[k])
    <3> HIDE DEF f, After
    <3> QED
      BY <1>3, <1>4
  <2> HIDE DEF f, After
  <2> QED
    BY <2>1, <2>2, Zenon
<1> DEFINE t == CHOOSE x : Turns(x)
<1>6. WriteLoop(p, data) = t[total]
  BY DEF WriteLoop
<1>7. Turns(t)
  <2> HIDE DEF Turns
  <2> QED
    BY <1>5
<1>8. t[0] = f[0] /\ \A k \in 1 .. total : t[k] = WriteByte(t[k - 1], data[k])
  <2> HIDE DEF t, f
  <2> QED
    BY <1>4, <1>7, SMTT(60)
<1>9. t[total] = f[total]
  <2>1. \A k \in 1 .. total : t[k - 1] = f[k - 1] => t[k] = f[k]
    <3> HIDE DEF t, f
    <3> QED
      BY <1>3, <1>8
  <2> HIDE DEF t, f
  <2> QED
    BY <1>8, <2>1, SameLoop
<1>10. f[total] = After(Least2(total, c - n))
  OBVIOUS
<1> HIDE DEF f, t, Turns
<1> QED
  BY <1>6, <1>9, <1>10

-----------------------------------------------------------------------------
\* A ring of c bytes in the array b.
RingOf(b, c, h, t, n) == [data |-> b, capacity |-> c, head |-> h, tail |-> t, count |-> n]

LEMMA Stored ==
  ASSUME NEW c \in Nat \ {0}, NEW b, NEW w, NEW data, NEW m
  PROVE  Laid(b, w, c, data, m) # << >>
<1>1. 0 \in DOMAIN Laid(b, w, c, data, m)
  BY DEF Laid
<1>2. DOMAIN << >> = {}
  OBVIOUS
<1> QED
  BY <1>1, <1>2

LEMMA PushOne ==
  ASSUME NEW b, NEW c, NEW h, NEW t, NEW n, NEW value
  PROVE  Pushed(RingOf(b, c, h, t, n), value) = RingOf(Store(b, h, value), c, (h + 1) % c, t, n + 1)
<1> DEFINE r == RingOf(b, c, h, t, n)
<1>1. r.count = n /\ r.capacity = c /\ r.head = h /\ r.data = b
  BY DEF RingOf
<1>2. Pushed(r, value) = [r EXCEPT !.data = Store(r.data, r.head, value),
                                   !.head = (r.head + 1) % r.capacity, !.count = r.count + 1]
  <2> HIDE DEF r
  <2> QED
    BY DEF Pushed, Store
<1>3. Pushed(r, value) = [r EXCEPT !.data = Store(b, h, value), !.head = (h + 1) % c, !.count = n + 1]
  <2> HIDE DEF r
  <2> QED
    BY <1>1, <1>2
<1> QED
  BY <1>3, Zenon DEF RingOf

\* The loop of ring_buf_write stores the first bytes it is given, as many as there
\* is room for.
PushCopies(b, c, w, r, n, data) ==
    LET m == Least2(Len(data), c - n)
    IN  PushLoop(RingOf(b, c, w, r, n), data) =
          RingOf(Laid(b, w, c, data, m), c, Slot(w, m + 1, c), r, n + m)

LEMMA PushLoopCopies ==
  ASSUME NEW c \in Nat \ {0}, NEW V, NEW b \in [0 .. c - 1 -> V],
         NEW r \in 0 .. c - 1, NEW w \in 0 .. c - 1, NEW n \in 0 .. c, NEW data, Len(data) \in Nat
  PROVE  PushCopies(b, c, w, r, n, data)
<1> USE DEF PushCopies
<1> DEFINE total == Len(data)
           p == RingOf(b, c, w, r, n)
           After(m) == RingOf(Laid(b, w, c, data, m), c, Slot(w, m + 1, c), r, n + m)
           f == [k \in 0 .. total |-> After(Least2(k, c - n))]
           Turns(t) == t = [k \in 0 .. total |-> IF k = 0 THEN p ELSE PushOnto(t[k - 1], data[k])]
<1>1. After(0) = p
  <2>1. Laid(b, w, c, data, 0) = b
    BY NothingLaid, Zenon
  <2>2. Slot(w, 0 + 1, c) = w /\ n + 0 = n
    BY DEF Slot
  <2> QED
    BY <2>1, <2>2 DEF RingOf
<1>2. ASSUME NEW k \in 1 .. total
      PROVE  PushOnto(After(Least2(k - 1, c - n)), data[k]) = After(Least2(k, c - n))
  <2>1. CASE k - 1 >= c - n
    <3>1. Least2(k - 1, c - n) = c - n /\ Least2(k, c - n) = c - n /\ n + (c - n) = c
      BY <2>1 DEF Least2
    <3> QED
      <4>1. ~CanPush(After(c - n))
        BY <3>1 DEF CanPush, ring_buf_full, RingOf
      <4> HIDE DEF After
      <4> QED
        BY <3>1, <4>1 DEF PushOnto
  <2>2. CASE k - 1 < c - n
    <3>1. /\ k \in 1 .. c /\ Least2(k - 1, c - n) = k - 1 /\ Least2(k, c - n) = k /\ (k - 1) + 1 = k
          /\ n + (k - 1) < c /\ n + (k - 1) + 1 = n + k
      BY <2>2 DEF Least2
    <3>2. (Slot(w, k, c) + 1) % c = Slot(w, k + 1, c)
      BY <3>1, NextSlot
    <3>3. Store(Laid(b, w, c, data, k - 1), Slot(w, k, c), data[k]) = Laid(b, w, c, data, k)
      BY <3>1, LaysNext
    <3>4. After(k - 1) = RingOf(Laid(b, w, c, data, k - 1), c, Slot(w, k, c), r, n + (k - 1))
      BY <3>1 DEF RingOf
    <3>5. PushOnto(After(k - 1), data[k]) =
            RingOf(Store(Laid(b, w, c, data, k - 1), Slot(w, k, c), data[k]),
                   c, (Slot(w, k, c) + 1) % c, r, n + (k - 1) + 1)
      <4>1. Laid(b, w, c, data, k - 1) # << >>
        BY Stored
      <4> HIDE DEF After
      <4>2. CanPush(After(k - 1))
        BY <3>1, <3>4, <4>1 DEF CanPush, ring_buf_full, RingOf
      <4> QED
        BY <3>4, <4>2, PushOne DEF PushOnto
    <3> QED
      BY <3>1, <3>2, <3>3, <3>5, SMTT(60)
  <2> QED
    BY <2>1, <2>2
<1>3. ASSUME NEW k \in 1 .. total
      PROVE  f[k] = PushOnto(f[k - 1], data[k])
  <2>1. k \in 0 .. total /\ k - 1 \in 0 .. total
    OBVIOUS
  <2> HIDE DEF After
  <2> QED
    BY <1>2, <2>1
<1>4. f[0] = p /\ DOMAIN f = 0 .. total
  <2>1. Least2(0, c - n) = 0 /\ 0 \in 0 .. total
    BY DEF Least2
  <2> HIDE DEF After
  <2> QED
    BY <1>1, <2>1
<1>5. Turns(f)
  <2>1. f = [k \in 0 .. total |-> f[k]]
    OBVIOUS
  <2>2. \A k \in 0 .. total : f[k] = IF k = 0 THEN p ELSE PushOnto(f[k - 1], data[k])
    <3> HIDE DEF f, After
    <3> QED
      BY <1>3, <1>4
  <2> HIDE DEF f, After
  <2> QED
    BY <2>1, <2>2, Zenon
<1> DEFINE t == CHOOSE x : Turns(x)
<1>6. PushLoop(p, data) = t[total]
  BY DEF PushLoop
<1>7. Turns(t)
  <2> HIDE DEF Turns
  <2> QED
    BY <1>5
<1>8. t[0] = f[0] /\ \A k \in 1 .. total : t[k] = PushOnto(t[k - 1], data[k])
  <2> HIDE DEF t, f
  <2> QED
    BY <1>4, <1>7, SMTT(60)
<1>9. t[total] = f[total]
  <2>1. \A k \in 1 .. total : t[k - 1] = f[k - 1] => t[k] = f[k]
    <3> HIDE DEF t, f
    <3> QED
      BY <1>3, <1>8
  <2> HIDE DEF t, f
  <2> QED
    BY <1>8, <2>1, SameLoop
<1>10. f[total] = After(Least2(total, c - n))
  OBVIOUS
<1> HIDE DEF f, t, Turns
<1> QED
  BY <1>6, <1>9, <1>10

\* The loop of ring_buf_read hands out the oldest bytes, as many as there are.
PopCopies(b, c, w, r, n, total) ==
    LET m == Least2(total, n)
    IN  PopLoop(RingOf(b, c, w, r, n), total) =
          [r |-> RingOf(b, c, w, Slot(r, m + 1, c), n - m),
           got |-> [i \in 1 .. m |-> b[Slot(r, i, c)]]]

LEMMA PopLoopCopies ==
  ASSUME NEW c \in Nat \ {0}, NEW b, b # << >>, NEW r \in 0 .. c - 1, NEW w, NEW n \in 0 .. c,
         NEW total \in Nat
  PROVE  PopCopies(b, c, w, r, n, total)
<1> USE DEF PopCopies
<1> DEFINE p == RingOf(b, c, w, r, n)
           After(m) == [r |-> RingOf(b, c, w, Slot(r, m + 1, c), n - m),
                        got |-> [i \in 1 .. m |-> b[Slot(r, i, c)]]]
           f == [k \in 0 .. total |-> After(Least2(k, n))]
           Turns(t) == t = [k \in 0 .. total |-> IF k = 0 THEN [r |-> p, got |-> << >>]
                                                 ELSE PopOnto(t[k - 1])]
<1>1. After(0) = [r |-> p, got |-> << >>]
  BY DEF RingOf, Slot
<1>2. ASSUME NEW m \in 0 .. n
      PROVE  PopOnto(After(m)) = After(Least2(m + 1, n))
  <2>1. CASE m = n
    <3>1. n - m = 0 /\ Least2(m + 1, n) = m
      BY <2>1 DEF Least2
    <3> QED
      BY <3>1, Zenon DEF PopOnto, CanPop, Popped, ring_buf_empty, RingOf
  <2>2. CASE m # n
    <3>1. m + 1 \in 1 .. c /\ Least2(m + 1, n) = m + 1 /\ n - m # 0 /\ n - m - 1 = n - (m + 1)
      BY <2>2 DEF Least2
    <3>2. (Slot(r, m + 1, c) + 1) % c = Slot(r, (m + 1) + 1, c)
      BY <3>1, NextSlot
    <3> DEFINE g == [i \in 1 .. m + 1 |-> b[Slot(r, i, c)]]
    <3>3. Append([i \in 1 .. m |-> b[Slot(r, i, c)]], b[Slot(r, m + 1, c)]) =
            [i \in 1 .. m + 1 |-> b[Slot(r, i, c)]]
      <4>1. m + 1 \in Nat \ {0} /\ (m + 1) - 1 = m
        OBVIOUS
      <4>2. Append([i \in 1 .. (m + 1) - 1 |-> g[i]], g[m + 1]) = [i \in 1 .. m + 1 |-> g[i]]
        <5> HIDE DEF g
        <5> QED
          BY <4>1, AppendNext
      <4>3. /\ g[m + 1] = b[Slot(r, m + 1, c)]
            /\ [i \in 1 .. m |-> g[i]] = [i \in 1 .. m |-> b[Slot(r, i, c)]]
            /\ [i \in 1 .. m + 1 |-> g[i]] = [i \in 1 .. m + 1 |-> b[Slot(r, i, c)]]
        OBVIOUS
      <4> HIDE DEF g
      <4> QED
        BY <4>1, <4>2, <4>3
    <3> QED
      BY <3>1, <3>2, <3>3, Zenon DEF PopOnto, CanPop, Popped, ring_buf_empty, RingOf
  <2> QED
    BY <2>1, <2>2
<1>3. ASSUME NEW k \in 1 .. total
      PROVE  f[k] = PopOnto(f[k - 1])
  <2> DEFINE m == Least2(k - 1, n)
  <2>1. m \in 0 .. n /\ Least2(m + 1, n) = Least2(k, n) /\ k \in 0 .. total /\ k - 1 \in 0 .. total
    BY DEF Least2
  <2>2. f[k] = After(Least2(k, n)) /\ f[k - 1] = After(m)
    <3> HIDE DEF After, m
    <3> QED
      BY <2>1 DEF m
  <2> HIDE DEF f, After, m
  <2> QED
    BY <1>2, <2>1, <2>2
<1>4. f[0] = [r |-> p, got |-> << >>] /\ DOMAIN f = 0 .. total
  <2>1. Least2(0, n) = 0 /\ 0 \in 0 .. total
    BY DEF Least2
  <2> HIDE DEF After
  <2> QED
    BY <1>1, <2>1
<1>5. Turns(f)
  <2>1. f = [k \in 0 .. total |-> f[k]]
    OBVIOUS
  <2>2. \A k \in 0 .. total : f[k] = IF k = 0 THEN [r |-> p, got |-> << >>] ELSE PopOnto(f[k - 1])
    <3> HIDE DEF f, After
    <3> QED
      BY <1>3, <1>4
  <2> HIDE DEF f, After
  <2> QED
    BY <2>1, <2>2, SMTT(60)
<1> DEFINE t == CHOOSE x : Turns(x)
<1>6. PopLoop(p, total) = t[total]
  BY DEF PopLoop
<1>7. Turns(t)
  <2> HIDE DEF Turns
  <2> QED
    BY <1>5
<1>8. t[0] = f[0] /\ \A k \in 1 .. total : t[k] = PopOnto(t[k - 1])
  <2> HIDE DEF t, f
  <2> QED
    BY <1>4, <1>7
<1>9. t[total] = f[total]
  <2> HIDE DEF t, f
  <2> QED
    BY <1>3, <1>8, SameLoop
<1>10. f[total] = After(Least2(total, n))
  OBVIOUS
<1> HIDE DEF f, t, Turns
<1> QED
  BY <1>6, <1>9, <1>10

-----------------------------------------------------------------------------
(* With nothing to read or no room to write a loop changes nothing.           *)

LEMMA ReadsNothing ==
  ASSUME NEW p, NEW length, length \in Nat, p.size = 0
  PROVE  ReadLoop(p, length) = [p |-> p, copied |-> << >>]
<1> DEFINE total == length
           first == [p |-> p, copied |-> << >>]
           f == [k \in 0 .. total |-> first]
           Turns(t) == t = [k \in 0 .. total |-> IF k = 0 THEN first ELSE ReadByte(t[k - 1])]
<1>1. \A k \in 1 .. total : ReadByte(first) = first
  BY DEF ReadByte
<1>2. Turns(f)
  <2>1. \A k \in 0 .. total : k # 0 => k \in 1 .. total /\ f[k - 1] = first
    OBVIOUS
  <2> HIDE DEF first
  <2> QED
    BY <1>1, <2>1
<1> DEFINE t == CHOOSE x : Turns(x)
<1>3. ReadLoop(p, length) = t[total]
  BY DEF ReadLoop
<1>4. Turns(t)
  <2> HIDE DEF Turns
  <2> QED
    BY <1>2
<1>5. t[0] = first /\ \A k \in 1 .. total : t[k] = ReadByte(t[k - 1])
  <2> HIDE DEF t, f, first
  <2> QED
    BY <1>4
<1>6. t[total] = f[total]
  <2>1. t[0] = f[0] /\ \A k \in 1 .. total : t[k - 1] = f[k - 1] => t[k] = f[k]
    <3>1. \A k \in 0 .. total : f[k] = first
      OBVIOUS
    <3>2. \A k \in 1 .. total : k \in 0 .. total /\ k - 1 \in 0 .. total
      OBVIOUS
    <3> HIDE DEF t, f, first
    <3> QED
      BY <1>1, <1>5, <3>1, <3>2
  <2> HIDE DEF t, f
  <2> QED
    BY <2>1, SameLoop
<1> HIDE DEF t, Turns, first
<1> QED
  BY <1>3, <1>6 DEF first

LEMMA WritesNothing ==
  ASSUME NEW p, NEW data, Len(data) \in Nat, p.size >= p.capacity
  PROVE  WriteLoop(p, data) = p
<1> DEFINE total == Len(data)
           first == p
           f == [k \in 0 .. total |-> first]
           Turns(t) == t = [k \in 0 .. total |-> IF k = 0 THEN first ELSE WriteByte(t[k - 1], data[k])]
<1>1. \A k \in 1 .. total : WriteByte(first, data[k]) = first
  BY DEF WriteByte
<1>2. Turns(f)
  <2>1. \A k \in 0 .. total : k # 0 => k \in 1 .. total /\ f[k - 1] = first
    OBVIOUS
  <2> HIDE DEF first
  <2> QED
    BY <1>1, <2>1
<1> DEFINE t == CHOOSE x : Turns(x)
<1>3. WriteLoop(p, data) = t[total]
  BY DEF WriteLoop
<1>4. Turns(t)
  <2> HIDE DEF Turns
  <2> QED
    BY <1>2
<1>5. t[0] = first /\ \A k \in 1 .. total : t[k] = WriteByte(t[k - 1], data[k])
  <2> HIDE DEF t, f, first
  <2> QED
    BY <1>4
<1>6. t[total] = f[total]
  <2>1. t[0] = f[0] /\ \A k \in 1 .. total : t[k - 1] = f[k - 1] => t[k] = f[k]
    <3>1. \A k \in 0 .. total : f[k] = first
      OBVIOUS
    <3>2. \A k \in 1 .. total : k \in 0 .. total /\ k - 1 \in 0 .. total
      OBVIOUS
    <3> HIDE DEF t, f, first
    <3> QED
      BY <1>1, <1>5, <3>1, <3>2
  <2> HIDE DEF t, f
  <2> QED
    BY <2>1, SameLoop
<1> HIDE DEF t, Turns, first
<1> QED
  BY <1>3, <1>6 DEF first

LEMMA PopsNothing ==
  ASSUME NEW p, NEW length, length \in Nat, p.data = << >>
  PROVE  PopLoop(p, length) = [r |-> p, got |-> << >>]
<1> DEFINE total == length
           first == [r |-> p, got |-> << >>]
           f == [k \in 0 .. total |-> first]
           Turns(t) == t = [k \in 0 .. total |-> IF k = 0 THEN first ELSE PopOnto(t[k - 1])]
<1>1. \A k \in 1 .. total : PopOnto(first) = first
  BY DEF PopOnto, CanPop
<1>2. Turns(f)
  <2>1. \A k \in 0 .. total : k # 0 => k \in 1 .. total /\ f[k - 1] = first
    OBVIOUS
  <2> HIDE DEF first
  <2> QED
    BY <1>1, <2>1
<1> DEFINE t == CHOOSE x : Turns(x)
<1>3. PopLoop(p, length) = t[total]
  BY DEF PopLoop
<1>4. Turns(t)
  <2> HIDE DEF Turns
  <2> QED
    BY <1>2
<1>5. t[0] = first /\ \A k \in 1 .. total : t[k] = PopOnto(t[k - 1])
  <2> HIDE DEF t, f, first
  <2> QED
    BY <1>4
<1>6. t[total] = f[total]
  <2>1. t[0] = f[0] /\ \A k \in 1 .. total : t[k - 1] = f[k - 1] => t[k] = f[k]
    <3>1. \A k \in 0 .. total : f[k] = first
      OBVIOUS
    <3>2. \A k \in 1 .. total : k \in 0 .. total /\ k - 1 \in 0 .. total
      OBVIOUS
    <3> HIDE DEF t, f, first
    <3> QED
      BY <1>1, <1>5, <3>1, <3>2, SMTT(90)
  <2> HIDE DEF t, f
  <2> QED
    BY <2>1, SameLoop
<1> HIDE DEF t, Turns, first
<1> QED
  BY <1>3, <1>6 DEF first

LEMMA PushesNothing ==
  ASSUME NEW p, NEW data, Len(data) \in Nat, p.data = << >>
  PROVE  PushLoop(p, data) = p
<1> DEFINE total == Len(data)
           first == p
           f == [k \in 0 .. total |-> first]
           Turns(t) == t = [k \in 0 .. total |-> IF k = 0 THEN first ELSE PushOnto(t[k - 1], data[k])]
<1>1. \A k \in 1 .. total : PushOnto(first, data[k]) = first
  BY DEF PushOnto, CanPush
<1>2. Turns(f)
  <2>1. \A k \in 0 .. total : k # 0 => k \in 1 .. total /\ f[k - 1] = first
    OBVIOUS
  <2> HIDE DEF first
  <2> QED
    BY <1>1, <2>1
<1> DEFINE t == CHOOSE x : Turns(x)
<1>3. PushLoop(p, data) = t[total]
  BY DEF PushLoop
<1>4. Turns(t)
  <2> HIDE DEF Turns
  <2> QED
    BY <1>2
<1>5. t[0] = first /\ \A k \in 1 .. total : t[k] = PushOnto(t[k - 1], data[k])
  <2> HIDE DEF t, f, first
  <2> QED
    BY <1>4
<1>6. t[total] = f[total]
  <2>1. t[0] = f[0] /\ \A k \in 1 .. total : t[k - 1] = f[k - 1] => t[k] = f[k]
    <3>1. \A k \in 0 .. total : f[k] = first
      OBVIOUS
    <3>2. \A k \in 1 .. total : k \in 0 .. total /\ k - 1 \in 0 .. total
      OBVIOUS
    <3> HIDE DEF t, f, first
    <3> QED
      BY <1>1, <1>5, <3>1, <3>2
  <2> HIDE DEF t, f
  <2> QED
    BY <2>1, SameLoop
<1> HIDE DEF t, Turns, first
<1> QED
  BY <1>3, <1>6 DEF first

-----------------------------------------------------------------------------
(* What is held in a ring before and after.                                   *)

LEMMA SubSeqFrom ==
  ASSUME NEW V, NEW q \in Seq(V), NEW m \in Nat, NEW n \in Nat, m <= n, n <= Len(q)
  PROVE  /\ SubSeq(q, m + 1, n) \in Seq(V) /\ Len(SubSeq(q, m + 1, n)) = n - m
         /\ \A i \in 1 .. n - m : SubSeq(q, m + 1, n)[i] = q[i + m]
<1>1. \A i \in m + 1 .. n : q[i] \in V
  BY LenProperties, ElementOfSeq
<1>2. /\ SubSeq(q, m + 1, n) \in Seq(V)
      /\ Len(SubSeq(q, m + 1, n)) = IF m + 1 <= n THEN n - (m + 1) + 1 ELSE 0
      /\ \A i \in 1 .. n - (m + 1) + 1 : SubSeq(q, m + 1, n)[i] = q[(m + 1) + i - 1]
  <2>1. m + 1 \in Int /\ n \in Int
    OBVIOUS
  <2> DEFINE m1 == m + 1
  <2> HIDE DEF m1
  <2>2. m1 \in Int /\ \A i \in m1 .. n : q[i] \in V
    BY <1>1, <2>1 DEF m1
  <2>3. /\ SubSeq(q, m1, n) \in Seq(V)
        /\ Len(SubSeq(q, m1, n)) = IF m1 <= n THEN n - m1 + 1 ELSE 0
        /\ \A i \in 1 .. n - m1 + 1 : SubSeq(q, m1, n)[i] = q[m1 + i - 1]
    BY <2>1, <2>2, SubSeqProperties
  <2> QED
    BY <2>3 DEF m1
<1>3. n - (m + 1) + 1 = n - m /\ (~(m + 1 <= n) => n - m = 0) /\ \A i \in Nat : (m + 1) + i - 1 = i + m
  OBVIOUS
<1> QED
  BY <1>2, <1>3

LEMMA RingSeq ==
  ASSUME NEW V, NEW c \in Nat \ {0}, NEW b, NEW r \in 0 .. c - 1, NEW n \in 0 .. c,
         BytesFrom(b, r, n, c) \in Seq(V)
  PROVE  /\ Len(BytesFrom(b, r, n, c)) = n
         /\ \A i \in 1 .. n : BytesFrom(b, r, n, c)[i] = b[Slot(r, i, c)] /\ b[Slot(r, i, c)] \in V
<1> DEFINE q == BytesFrom(b, r, n, c)
<1>1. DOMAIN q = 1 .. n /\ n \in Nat /\ \A i \in 1 .. n : q[i] = b[Slot(r, i, c)]
  BY DEF BytesFrom
<1> HIDE DEF q
<1>2. Len(q) = n
  BY <1>1, LenProperties DEF q
<1>3. \A i \in 1 .. n : q[i] \in V
  BY <1>2, ElementOfSeq DEF q
<1> QED
  BY <1>1, <1>2, <1>3 DEF q

\* After m bytes were taken the ring holds the others, and the m are the oldest.
DrainsTo(V, b, c, r, n, m) ==
    /\ Slot(r, m + 1, c) \in 0 .. c - 1
    /\ BytesFrom(b, Slot(r, m + 1, c), n - m, c) = SubSeq(BytesFrom(b, r, n, c), m + 1, n)
    /\ BytesFrom(b, Slot(r, m + 1, c), n - m, c) \in Seq(V)
    /\ [i \in 1 .. m |-> b[Slot(r, i, c)]] = SubSeq(BytesFrom(b, r, n, c), 1, m)
    /\ [i \in 1 .. m |-> b[Slot(r, i, c)]] \in Seq(V)

LEMMA Drained ==
  ASSUME NEW V, NEW c \in Nat \ {0}, NEW b, NEW r \in 0 .. c - 1, NEW n \in 0 .. c, NEW m \in 0 .. n,
         BytesFrom(b, r, n, c) \in Seq(V)
  PROVE  DrainsTo(V, b, c, r, n, m)
<1> USE DEF DrainsTo
<1> DEFINE q == BytesFrom(b, r, n, c)
           u == BytesFrom(b, Slot(r, m + 1, c), n - m, c)
           o == [i \in 1 .. m |-> b[Slot(r, i, c)]]
<1>1. Slot(r, m + 1, c) \in 0 .. c - 1
  BY DEF Slot
<1>2. Len(q) = n /\ \A i \in 1 .. n : q[i] = b[Slot(r, i, c)] /\ b[Slot(r, i, c)] \in V
  BY RingSeq, Zenon
<1>3. \A i \in 1 .. n - m : i + m \in 1 .. n /\ Slot(Slot(r, m + 1, c), i, c) = Slot(r, i + m, c)
  BY DEF Slot
<1>4. u \in [1 .. n - m -> V] /\ \A i \in 1 .. n - m : u[i] = q[i + m]
  BY <1>2, <1>3 DEF BytesFrom
<1>5. o \in [1 .. m -> V] /\ \A i \in 1 .. m : o[i] = q[i]
  BY <1>2
<1> HIDE DEF q, u, o
<1>6. u \in Seq(V) /\ Len(u) = n - m /\ o \in Seq(V) /\ Len(o) = m
  <2>1. n - m \in Nat /\ m \in Nat
    OBVIOUS
  <2> QED
    BY <1>4, <1>5, <2>1, IsSeq, Zenon
<1>7. \A i \in 1 .. n : q[i] \in V
  BY <1>2
<1>8. u = SubSeq(q, m + 1, n)
  <2>1. /\ SubSeq(q, m + 1, n) \in Seq(V) /\ Len(SubSeq(q, m + 1, n)) = n - m
        /\ \A i \in 1 .. n - m : SubSeq(q, m + 1, n)[i] = q[i + m]
    BY <1>2, SubSeqFrom DEF q
  <2> DEFINE e == SubSeq(q, m + 1, n)
  <2> HIDE DEF e
  <2>2. u \in Seq(V) /\ e \in Seq(V) /\ Len(u) = Len(e) /\ \A i \in 1 .. Len(u) : u[i] = e[i]
    BY <1>4, <1>6, <2>1 DEF e
  <2>3. u = e
    BY ONLY <2>2, SeqEqual, Zenon
  <2> QED
    BY <2>3 DEF e
<1>9. o = SubSeq(q, 1, m)
  <2>1. /\ SubSeq(q, 1, m) \in Seq(V) /\ Len(SubSeq(q, 1, m)) = m
        /\ \A i \in 1 .. m : SubSeq(q, 1, m)[i] = q[i]
    <3>1. q \in Seq(V) /\ 0 \in Nat /\ m \in Nat /\ 0 <= m /\ m <= Len(q)
      BY <1>2 DEF q
    <3>2. /\ SubSeq(q, 0 + 1, m) \in Seq(V) /\ Len(SubSeq(q, 0 + 1, m)) = m - 0
          /\ \A i \in 1 .. m - 0 : SubSeq(q, 0 + 1, m)[i] = q[i + 0]
      BY ONLY <3>1, SubSeqFrom
    <3> QED
      BY <3>1, <3>2
  <2> DEFINE e == SubSeq(q, 1, m)
  <2> HIDE DEF e
  <2>2. o \in Seq(V) /\ e \in Seq(V) /\ Len(o) = Len(e) /\ \A i \in 1 .. Len(o) : o[i] = e[i]
    BY <1>5, <1>6, <2>1, SMTT(60) DEF e
  <2>3. o = e
    BY ONLY <2>2, SeqEqual, Zenon
  <2> QED
    BY <2>3 DEF e
<1> QED
  BY <1>1, <1>6, <1>8, <1>9, SMTT(60) DEF q, u, o

\* After m bytes were stored behind them the ring holds what it held, and the m.
TopsUpTo(V, b, c, r, n, m, data) ==
    LET u == BytesFrom(Laid(b, Slot(r, n + 1, c), c, data, m), r, n + m, c)
    IN  u \in Seq(V) /\ u = BytesFrom(b, r, n, c) \o SubSeq(data, 1, m)

LEMMA ToppedUp ==
  ASSUME NEW V, NEW c \in Nat \ {0}, NEW b, NEW r \in 0 .. c - 1, NEW n \in 0 .. c, NEW m \in 0 .. c - n,
         BytesFrom(b, r, n, c) \in Seq(V), NEW data \in Seq(V), m <= Len(data)
  PROVE  TopsUpTo(V, b, c, r, n, m, data)
<1> USE DEF TopsUpTo
<1> DEFINE w == Slot(r, n + 1, c)
           l == Laid(b, w, c, data, m)
           q == BytesFrom(b, r, n, c)
           u == BytesFrom(l, r, n + m, c)
           d == SubSeq(data, 1, m)
<1>1. Len(q) = n /\ \A i \in 1 .. n : q[i] = b[Slot(r, i, c)] /\ b[Slot(r, i, c)] \in V
  BY RingSeq, Zenon
<1>2. \A i \in 1 .. Len(data) : data[i] \in V
  BY ElementOfSeq
<1>3. d \in Seq(V) /\ Len(d) = m /\ \A i \in 1 .. m : d[i] = data[i]
  <2>1. 0 \in Nat /\ m \in Nat /\ 0 <= m /\ m <= Len(data)
    OBVIOUS
  <2>2. /\ SubSeq(data, 0 + 1, m) \in Seq(V) /\ Len(SubSeq(data, 0 + 1, m)) = m - 0
        /\ \A i \in 1 .. m - 0 : SubSeq(data, 0 + 1, m)[i] = data[i + 0]
    BY <2>1, SubSeqFrom, SMTT(60)
  <2> QED
    BY <2>1, <2>2
<1>4. ASSUME NEW i \in 1 .. n + m
      PROVE  u[i] = IF i <= n THEN q[i] ELSE d[i - n]
  <2> DEFINE j == Slot(r, i, c)
             o == IF j >= w THEN j - w ELSE j - w + c
  <2>1. j \in 0 .. c - 1 /\ w \in 0 .. c - 1 /\ (i <= n => o >= m) /\ (i > n => o = i - n - 1 /\ o < m)
    BY DEF Slot
  <2>2. u[i] = l[j]
    BY SMTT(60) DEF BytesFrom
  <2>3. l[j] = IF o < m THEN data[o + 1] ELSE b[j]
    BY <2>1 DEF Laid
  <2>4. CASE i <= n
    <3>1. i \in 1 .. n /\ ~(o < m)
      BY <2>1, <2>4, SMTT(60)
    <3> HIDE DEF u, l, o, q, d
    <3> QED
      BY <1>1, <2>2, <2>3, <2>4, <3>1, SMTT(60)
  <2>5. CASE ~(i <= n)
    <3>1. i - n \in 1 .. m /\ o < m /\ o + 1 = i - n
      BY <2>1, <2>5, SMTT(90)
    <3> HIDE DEF u, l, o, q, d
    <3> QED
      BY <1>3, <2>2, <2>3, <2>5, <3>1, SMTT(90)
  <2> QED
    BY <2>4, <2>5, SMTT(30)
<1>5. u \in [1 .. n + m -> V]
  <2>1. DOMAIN u = 1 .. n + m /\ u = [i \in 1 .. n + m |-> u[i]]
    BY DEF BytesFrom
  <2>2. \A i \in 1 .. n + m : u[i] \in V
    <3> SUFFICES ASSUME NEW i \in 1 .. n + m PROVE u[i] \in V
      OBVIOUS
    <3>1. i <= n => i \in 1 .. n
      OBVIOUS
    <3>2. ~(i <= n) => i - n \in 1 .. m /\ i - n \in 1 .. Len(data)
      BY LenProperties
    <3> HIDE DEF u, q, d
    <3> QED
      BY <1>1, <1>2, <1>3, <1>4, <3>1, <3>2, ZenonT(60)
  <2> HIDE DEF u
  <2> QED
    BY <2>1, <2>2
<1> HIDE DEF q, u, d, l, w
<1>6. u \in Seq(V) /\ Len(u) = n + m
  <2>1. n + m \in Nat
    OBVIOUS
  <2> QED
    BY <1>5, <2>1, IsSeq
<1>7. /\ q \o d \in Seq(V) /\ Len(q \o d) = n + m
      /\ \A i \in 1 .. n + m : (q \o d)[i] = IF i <= n THEN q[i] ELSE d[i - n]
  <2>1. q \in Seq(V)
    BY DEF q
  <2>2. /\ q \o d \in Seq(V) /\ Len(q \o d) = Len(q) + Len(d)
        /\ \A i \in 1 .. Len(q) + Len(d) : (q \o d)[i] = IF i <= Len(q) THEN q[i] ELSE d[i - Len(q)]
    BY <1>3, <2>1, ConcatProperties, ZenonT(60)
  <2> QED
    BY <1>1, <1>3, <2>2
<1>8. u = q \o d
  BY <1>4, <1>6, <1>7, SeqEqual, Zenon
<1> QED
  BY <1>6, <1>8 DEF q, u, d, l, w

-----------------------------------------------------------------------------
(* The pipe.                                                                  *)

PipeHeld(p) == IF p.capacity = 0 THEN << >> ELSE BytesFrom(p.buffer, p.read_index, p.size, p.capacity)

PipeGood(p) ==
    /\ p = PipeOf(p.buffer, p.capacity, p.read_index, p.write_index, p.size, p.reader_closed, p.writer_closed)
    /\ p.capacity \in Nat /\ p.size \in 0 .. p.capacity
    /\ p.capacity # 0 =>
          /\ p.buffer \in [0 .. p.capacity - 1 -> PipeBytes \cup {PipeGarbage}]
          /\ p.read_index \in 0 .. p.capacity - 1
          /\ p.write_index = Slot(p.read_index, p.size + 1, p.capacity)
    /\ PipeHeld(p) \in Seq(PipeBytes)

PipeInv == PipeGood(pipe) /\ pipe_out \in Seq(PipeBytes)

\* The fields of a good pipe, by name.
LEMMA PipeParts ==
  ASSUME NEW p, PipeGood(p)
  PROVE  \E b, c, r, w, n, rc, wc :
            /\ p = PipeOf(b, c, r, w, n, rc, wc)
            /\ p.buffer = b /\ p.capacity = c /\ p.read_index = r /\ p.write_index = w
            /\ p.size = n /\ p.reader_closed = rc /\ p.writer_closed = wc
  BY DEF PipeGood

LEMMA SlotRounds ==
  ASSUME NEW c \in Nat \ {0}, NEW r \in 0 .. c - 1, NEW i \in 1 .. c + 1
  PROVE  (r + i - 1) % c = Slot(r, i, c)
<1> DEFINE x == r + i - 1
<1>1. x \in 0 .. 2 * c - 1
  OBVIOUS
<1>2. Slot(r, i, c) = IF x < c THEN x ELSE x - c
  BY DEF Slot
<1> HIDE DEF x
<1>3. x % c = IF x < c THEN x ELSE x - c
  BY <1>1, Rounds, Zenon
<1> QED
  BY <1>2, <1>3 DEF x

\* The contents as the model states them, with %, are what the pipe holds.
LEMMA PipeContentsHeld ==
  ASSUME NEW p, PipeGood(p)
  PROVE  /\ [i \in 1 .. p.size |-> p.buffer[(p.read_index + i - 1) % p.capacity]] = PipeHeld(p)
         /\ Len(PipeHeld(p)) = p.size
         /\ p.capacity # 0 => p.write_index = (p.read_index + p.size) % p.capacity
<1>0. PICK b, c, r, w, n, rc, wc :
            /\ p = PipeOf(b, c, r, w, n, rc, wc)
            /\ p.buffer = b /\ p.capacity = c /\ p.read_index = r /\ p.write_index = w
            /\ p.size = n /\ p.reader_closed = rc /\ p.writer_closed = wc
  BY PipeParts, Zenon
<1> SUFFICES /\ [i \in 1 .. n |-> b[(r + i - 1) % c]] = PipeHeld(p)
             /\ Len(PipeHeld(p)) = n
             /\ c # 0 => w = (r + n) % c
  BY <1>0, Zenon
<1>1. CASE c = 0
  <2>1. n = 0
    BY <1>0, <1>1, SMTT(60) DEF PipeGood
  <2>2. [i \in 1 .. n |-> b[(r + i - 1) % c]] = << >>
    BY <2>1
  <2> QED
    BY <1>0, <1>1, <2>1, <2>2, SMTT(30) DEF PipeHeld
<1>2. CASE c # 0
  <2>1. c \in Nat \ {0} /\ r \in 0 .. c - 1 /\ n \in 0 .. c /\ w = Slot(r, n + 1, c)
        /\ PipeHeld(p) = BytesFrom(b, r, n, c) /\ BytesFrom(b, r, n, c) \in Seq(PipeBytes)
    BY <1>0, <1>2 DEF PipeGood, PipeHeld
  <2>2. \A i \in 1 .. n : (r + i - 1) % c = Slot(r, i, c)
    BY <2>1, SlotRounds
  <2>3. (r + n) % c = Slot(r, n + 1, c)
    <3>1. n + 1 \in 1 .. c + 1 /\ r + (n + 1) - 1 = r + n
      BY <2>1
    <3> QED
      BY <2>1, <3>1, SlotRounds, SMTT(60)
  <2>4. [i \in 1 .. n |-> b[(r + i - 1) % c]] = BytesFrom(b, r, n, c)
    BY <2>2 DEF BytesFrom
  <2>5. Len(BytesFrom(b, r, n, c)) = n
    <3>1. c \in Nat \ {0} /\ r \in 0 .. c - 1 /\ n \in 0 .. c /\ BytesFrom(b, r, n, c) \in Seq(PipeBytes)
      BY <2>1
    <3>2. /\ Len(BytesFrom(b, r, n, c)) = n
          /\ \A i \in 1 .. n : BytesFrom(b, r, n, c)[i] = b[Slot(r, i, c)] /\ b[Slot(r, i, c)] \in PipeBytes
      BY ONLY <3>1, RingSeq, Zenon
    <3> QED
      BY <3>2
  <2> QED
    BY <2>1, <2>3, <2>4, <2>5, SMTT(30)
<1> QED
  BY <1>1, <1>2

\* A read takes the oldest bytes, as many as it asks for or there are.
LEMMA PipeReads ==
  ASSUME NEW p, PipeGood(p), NEW length \in Nat
  PROVE  LET m == Least2(length, p.size)
             x == ReadLoop(p, length)
         IN  /\ PipeGood(x.p) /\ m \in 0 .. p.size
             /\ x.p.capacity = p.capacity /\ x.p.size = p.size - m /\ x.p.reader_closed = p.reader_closed
             /\ PipeHeld(x.p) = SubSeq(PipeHeld(p), m + 1, p.size)
             /\ x.copied = SubSeq(PipeHeld(p), 1, m) /\ x.copied \in Seq(PipeBytes)
<1>0. PICK b, c, r, w, n, rc, wc :
            /\ p = PipeOf(b, c, r, w, n, rc, wc)
            /\ p.buffer = b /\ p.capacity = c /\ p.read_index = r /\ p.write_index = w
            /\ p.size = n /\ p.reader_closed = rc /\ p.writer_closed = wc
  BY PipeParts, Zenon
<1> DEFINE m == Least2(length, n)
           x == ReadLoop(p, length)
           Goal == /\ PipeGood(x.p) /\ m \in 0 .. n
                   /\ x.p.capacity = c /\ x.p.size = n - m /\ x.p.reader_closed = rc
                   /\ PipeHeld(x.p) = SubSeq(PipeHeld(p), m + 1, n)
                   /\ x.copied = SubSeq(PipeHeld(p), 1, m) /\ x.copied \in Seq(PipeBytes)
<1> SUFFICES Goal
  BY <1>0, Zenon
<1>1. c \in Nat /\ n \in 0 .. c /\ m \in 0 .. n
  BY <1>0 DEF PipeGood, Least2
<1>2. CASE c = 0
  <2>1. n = 0 /\ m = 0 /\ PipeHeld(p) = << >>
    <3> HIDE DEF m
    <3> QED
      BY <1>0, <1>1, <1>2, SMTT(60) DEF PipeHeld
  <2>2. x = [p |-> p, copied |-> << >>]
    BY <1>0, <2>1, ReadsNothing
  <2>3. << >> = SubSeq(<< >>, 0 + 1, 0) /\ << >> = SubSeq(<< >>, 1, 0) /\ << >> \in Seq(PipeBytes)
    OBVIOUS
  <2> HIDE DEF x, m
  <2>4. x.p = p /\ x.copied = << >>
    BY <2>2
  <2>5. m \in 0 .. n /\ n - m = 0 /\ p.capacity = c /\ p.size = 0 /\ p.reader_closed = rc
    BY <1>0, <1>1, <2>1, SMTT(60)
  <2> QED
    BY <2>1, <2>3, <2>4, <2>5, Zenon
<1>3. CASE c # 0
  <2> DEFINE y == PipeOf(b, c, Slot(r, m + 1, c), w, n - m, rc, wc)
             o == [i \in 1 .. m |-> b[Slot(r, i, c)]]
  <2>1. /\ c \in Nat \ {0} /\ r \in 0 .. c - 1 /\ n \in 0 .. c /\ w = Slot(r, n + 1, c)
        /\ b \in [0 .. c - 1 -> PipeBytes \cup {PipeGarbage}]
        /\ PipeHeld(p) = BytesFrom(b, r, n, c) /\ BytesFrom(b, r, n, c) \in Seq(PipeBytes)
    BY <1>0, <1>3 DEF PipeGood, PipeHeld
  <2>2. x = [p |-> y, copied |-> o]
    <3>1. c \in Nat \ {0} /\ r \in 0 .. c - 1 /\ n \in 0 .. c /\ length \in Nat
      BY <2>1
    <3>2. ReadCopies(b, c, r, w, n, rc, wc, length)
      BY ONLY <3>1, ReadLoopCopies, Zenon
    <3> QED
      BY <1>0, <3>2, Zenon DEF ReadCopies
  <2>3. /\ Slot(r, m + 1, c) \in 0 .. c - 1
        /\ BytesFrom(b, Slot(r, m + 1, c), n - m, c) = SubSeq(BytesFrom(b, r, n, c), m + 1, n)
        /\ BytesFrom(b, Slot(r, m + 1, c), n - m, c) \in Seq(PipeBytes)
        /\ o = SubSeq(BytesFrom(b, r, n, c), 1, m) /\ o \in Seq(PipeBytes)
    <3> HIDE DEF m
    <3>1. /\ c \in Nat \ {0} /\ r \in 0 .. c - 1 /\ n \in 0 .. c /\ m \in 0 .. n
          /\ BytesFrom(b, r, n, c) \in Seq(PipeBytes)
      BY <1>1, <2>1
    <3>2. DrainsTo(PipeBytes, b, c, r, n, m)
      BY ONLY <3>1, Drained, ZenonT(60)
    <3> QED
      BY <3>2, Zenon DEF DrainsTo
  <2>4. /\ y.buffer = b /\ y.capacity = c /\ y.read_index = Slot(r, m + 1, c)
        /\ y.write_index = w /\ y.size = n - m
        /\ y.reader_closed = rc /\ y.writer_closed = wc
    BY DEF PipeOf
  <2>5. Slot(Slot(r, m + 1, c), (n - m) + 1, c) = Slot(r, n + 1, c) /\ n - m \in 0 .. c
    <3> HIDE DEF m
    <3> QED
      BY <1>1, <2>1, SMTT(60) DEF Slot
  <2>6. PipeHeld(y) = BytesFrom(b, Slot(r, m + 1, c), n - m, c)
    <3> HIDE DEF y
    <3> QED
      BY <2>1, <2>4, SMTT(90) DEF PipeHeld
  <2>7. PipeGood(y)
    <3>1. y = PipeOf(y.buffer, y.capacity, y.read_index, y.write_index, y.size, y.reader_closed, y.writer_closed)
      BY DEF PipeOf
    <3> HIDE DEF y, m
    <3> QED
      BY <2>1, <2>3, <2>4, <2>5, <2>6, <3>1, SMTT(90) DEF PipeGood
  <2>8. x.p = y /\ x.copied = o
    <3> HIDE DEF y, o, x
    <3> QED
      BY <2>2, SMTT(60)
  <2> HIDE DEF x, y, o, m
  <2> QED
    BY <1>1, <2>1, <2>3, <2>4, <2>6, <2>7, <2>8, SMTT(90)
<1> QED
  BY <1>2, <1>3

\* A write puts the first of its bytes behind those the pipe holds, as many as
\* there is room for.
LEMMA PipeWrites ==
  ASSUME NEW p, PipeGood(p), NEW data \in Seq(PipeBytes)
  PROVE  LET m == Least2(Len(data), p.capacity - p.size)
             x == WriteLoop(p, data)
         IN  /\ PipeGood(x) /\ m \in 0 .. p.capacity - p.size
             /\ x.capacity = p.capacity /\ x.size = p.size + m /\ x.reader_closed = p.reader_closed
             /\ PipeHeld(x) = PipeHeld(p) \o SubSeq(data, 1, m)
<1>0. PICK b, c, r, w, n, rc, wc :
            /\ p = PipeOf(b, c, r, w, n, rc, wc)
            /\ p.buffer = b /\ p.capacity = c /\ p.read_index = r /\ p.write_index = w
            /\ p.size = n /\ p.reader_closed = rc /\ p.writer_closed = wc
  BY PipeParts, Zenon
<1> DEFINE m == Least2(Len(data), c - n)
           x == WriteLoop(p, data)
           Goal == /\ PipeGood(x) /\ m \in 0 .. c - n
                   /\ x.capacity = c /\ x.size = n + m /\ x.reader_closed = rc
                   /\ PipeHeld(x) = PipeHeld(p) \o SubSeq(data, 1, m)
<1> SUFFICES Goal
  BY <1>0, Zenon
<1>1. c \in Nat /\ n \in 0 .. c /\ Len(data) \in Nat /\ m \in 0 .. c - n /\ m <= Len(data)
  BY <1>0, LenProperties DEF PipeGood, Least2
<1>2. CASE c = 0
  <2>1. n = 0 /\ p.size >= p.capacity /\ m = 0 /\ PipeHeld(p) = << >>
    <3> HIDE DEF m
    <3> QED
      BY <1>0, <1>1, <1>2 DEF PipeHeld
  <2>2. x = p
    BY <1>1, <2>1, WritesNothing, Zenon
  <2>3. SubSeq(data, 1, 0) = << >> /\ << >> \o << >> = << >>
    OBVIOUS
  <2> HIDE DEF x, m
  <2>4. m \in 0 .. c - n /\ n + m = 0 /\ p.capacity = c /\ p.size = 0 /\ p.reader_closed = rc
    BY <1>0, <1>1, <2>1, SMTT(60)
  <2> QED
    BY <2>1, <2>2, <2>3, <2>4, Zenon
<1>3. CASE c # 0
  <2> DEFINE V == PipeBytes \cup {PipeGarbage}
             l == Laid(b, w, c, data, m)
             y == PipeOf(l, c, r, Slot(w, m + 1, c), n + m, rc, wc)
  <2>1. /\ c \in Nat \ {0} /\ r \in 0 .. c - 1 /\ n \in 0 .. c /\ w = Slot(r, n + 1, c)
        /\ b \in [0 .. c - 1 -> V]
        /\ PipeHeld(p) = BytesFrom(b, r, n, c) /\ BytesFrom(b, r, n, c) \in Seq(PipeBytes)
    BY <1>0, <1>3 DEF PipeGood, PipeHeld
  <2>2. w \in 0 .. c - 1
    BY <2>1 DEF Slot
  <2>3. x = y
    <3> HIDE DEF V
    <3>1. /\ c \in Nat \ {0} /\ b \in [0 .. c - 1 -> V] /\ r \in 0 .. c - 1 /\ w \in 0 .. c - 1
          /\ n \in 0 .. c /\ Len(data) \in Nat
      BY <1>1, <2>1, <2>2
    <3>2. WriteCopies(b, c, r, w, n, rc, wc, data)
      BY ONLY <3>1, WriteLoopCopies, Zenon
    <3> QED
      BY <1>0, <3>2, Zenon DEF WriteCopies
  <2>4. /\ BytesFrom(l, r, n + m, c) \in Seq(PipeBytes)
        /\ BytesFrom(l, r, n + m, c) = BytesFrom(b, r, n, c) \o SubSeq(data, 1, m)
    <3> HIDE DEF m
    <3>1. /\ c \in Nat \ {0} /\ r \in 0 .. c - 1 /\ n \in 0 .. c /\ m \in 0 .. c - n
          /\ BytesFrom(b, r, n, c) \in Seq(PipeBytes) /\ data \in Seq(PipeBytes) /\ m <= Len(data)
      BY <1>1, <2>1
    <3>2. TopsUpTo(PipeBytes, b, c, r, n, m, data)
      BY ONLY <3>1, ToppedUp, Zenon
    <3>3. w = Slot(r, n + 1, c)
      BY <2>1
    <3> QED
      BY ONLY <3>2, <3>3, Zenon DEF TopsUpTo, l
  <2>5. l \in [0 .. c - 1 -> V]
    <3>1. \A i \in 1 .. Len(data) : data[i] \in V
      BY ElementOfSeq
    <3>2. m <= Len(data) /\ Len(data) \in Nat /\ m \in Nat
      BY <1>1, SMTT(90)
    <3> HIDE DEF m, V
    <3> QED
      BY <2>1, <2>2, <3>1, <3>2, SMTT(90) DEF Laid
  <2>6. /\ y.buffer = l /\ y.capacity = c /\ y.read_index = r /\ y.write_index = Slot(w, m + 1, c)
        /\ y.size = n + m /\ y.reader_closed = rc /\ y.writer_closed = wc
    BY DEF PipeOf
  <2>7. Slot(w, m + 1, c) = Slot(r, (n + m) + 1, c) /\ n + m \in 0 .. c
    <3> HIDE DEF m
    <3> QED
      BY <1>1, <2>1, SMTT(60) DEF Slot
  <2>8. PipeHeld(y) = BytesFrom(l, r, n + m, c)
    <3> HIDE DEF y, l, m
    <3> QED
      BY <2>1, <2>6, SMTT(90) DEF PipeHeld
  <2>9. PipeGood(y)
    <3>1. y = PipeOf(y.buffer, y.capacity, y.read_index, y.write_index, y.size, y.reader_closed, y.writer_closed)
      BY DEF PipeOf
    <3> HIDE DEF y, m, l
    <3> QED
      BY <2>1, <2>4, <2>5, <2>6, <2>7, <2>8, <3>1, SMTT(90) DEF PipeGood
  <2> HIDE DEF x, y, m, l
  <2> QED
    BY <1>1, <2>1, <2>3, <2>4, <2>6, <2>8, <2>9, SMTT(90)
<1> QED
  BY <1>2, <1>3, SMTT(30)

\* Setting the pipe up, tearing it down and closing an end.
LEMMA PipeFresh ==
  ASSUME NEW c \in Nat \ {0}
  PROVE  LET x == PipeOf([i \in 0 .. c - 1 |-> PipeGarbage], c, 0, 0, 0, FALSE, FALSE)
         IN  PipeGood(x) /\ PipeHeld(x) = << >>
<1> DEFINE b == [i \in 0 .. c - 1 |-> PipeGarbage]
           x == PipeOf(b, c, 0, 0, 0, FALSE, FALSE)
<1>1. /\ x.buffer = b /\ x.capacity = c /\ x.read_index = 0 /\ x.write_index = 0 /\ x.size = 0
      /\ x.reader_closed = FALSE /\ x.writer_closed = FALSE
  BY DEF PipeOf
<1>2. b \in [0 .. c - 1 -> PipeBytes \cup {PipeGarbage}] /\ Slot(0, 0 + 1, c) = 0
  BY DEF Slot
<1>3. x = PipeOf(x.buffer, x.capacity, x.read_index, x.write_index, x.size, x.reader_closed, x.writer_closed)
  BY DEF PipeOf
<1> HIDE DEF x, b
<1>4. PipeHeld(x) = << >>
  BY <1>1 DEF PipeHeld, BytesFrom
<1>5. << >> \in Seq(PipeBytes)
  OBVIOUS
<1>6. PipeGood(x)
  BY <1>1, <1>2, <1>3, <1>4, <1>5, SMTT(60) DEF PipeGood
<1> QED
  BY <1>4, <1>6, Zenon DEF x, b

LEMMA PipeGone ==
  ASSUME NEW r, NEW w, NEW rc, NEW wc
  PROVE  LET x == PipeOf(<< >>, 0, r, w, 0, rc, wc)
         IN  PipeGood(x) /\ PipeHeld(x) = << >> /\ x.capacity = 0 /\ x.size = 0
<1> DEFINE x == PipeOf(<< >>, 0, r, w, 0, rc, wc)
<1>1. x.capacity = 0 /\ x.size = 0
  BY DEF PipeOf
<1>2. x = PipeOf(x.buffer, x.capacity, x.read_index, x.write_index, x.size, x.reader_closed, x.writer_closed)
  BY DEF PipeOf
<1> HIDE DEF x
<1>3. PipeHeld(x) = << >> /\ << >> \in Seq(PipeBytes)
  BY <1>1, SMTT(60) DEF PipeHeld
<1>4. PipeGood(x)
  BY <1>1, <1>2, <1>3, SMTT(60) DEF PipeGood
<1> QED
  BY <1>1, <1>3, <1>4 DEF x

LEMMA PipeFlags ==
  ASSUME NEW p, PipeGood(p), NEW rc, NEW wc
  PROVE  LET x == PipeOf(p.buffer, p.capacity, p.read_index, p.write_index, p.size, rc, wc)
         IN  PipeGood(x) /\ PipeHeld(x) = PipeHeld(p) /\ x.capacity = p.capacity /\ x.size = p.size
<1> DEFINE x == PipeOf(p.buffer, p.capacity, p.read_index, p.write_index, p.size, rc, wc)
<1>1. /\ x.buffer = p.buffer /\ x.capacity = p.capacity /\ x.read_index = p.read_index
      /\ x.write_index = p.write_index /\ x.size = p.size
  BY DEF PipeOf
<1>2. x = PipeOf(x.buffer, x.capacity, x.read_index, x.write_index, x.size, x.reader_closed, x.writer_closed)
  BY DEF PipeOf
<1> HIDE DEF x
<1>3. PipeHeld(x) = PipeHeld(p)
  BY <1>1, SMTT(60) DEF PipeHeld
<1>4. PipeGood(x)
  BY <1>1, <1>2, <1>3 DEF PipeGood
<1> QED
  BY <1>1, <1>3, <1>4, SMTT(60) DEF x

\* What one call does to the bytes a buffer holds and hands out: they are
\* dropped, some are put behind them, or the oldest are taken.
Handles(held, room, out, heldNew, roomNew, outNew) ==
    \/ heldNew = << >> /\ outNew = out
    \/ /\ roomNew = room /\ outNew = out
       /\ \E V, d : /\ held \in Seq(V) /\ d \in Seq(V) /\ heldNew = held \o d
                    /\ Len(held) + Len(d) <= room
    \/ /\ roomNew = room
       /\ \E V : held \in Seq(V) /\ \E m \in 0 .. Len(held) : /\ heldNew = SubSeq(held, m + 1, Len(held))
                                                              /\ outNew = SubSeq(held, 1, m)

\* One step of the pipe keeps the invariant, hands the bytes on in order, and
\* puts none in once the reader has closed.
PipeMoves ==
    /\ Handles(PipeHeld(pipe), pipe.capacity, pipe_out, PipeHeld(pipe'), pipe'.capacity, pipe_out')
    /\ pipe.reader_closed /\ pipe'.reader_closed => pipe'.size <= pipe.size

LEMMA PipeStarts == PipeInit => PipeInv /\ PipeHeld(pipe) = << >> /\ pipe.capacity = 0 /\ pipe_out = << >>
<1> SUFFICES ASSUME PipeInit PROVE PipeInv /\ PipeHeld(pipe) = << >> /\ pipe.capacity = 0 /\ pipe_out = << >>
  OBVIOUS
<1>1. pipe = PipeOf(<< >>, 0, 0, 0, 0, FALSE, FALSE) /\ pipe_out = << >>
  BY DEF PipeInit, PipeOf
<1>2. << >> \in Seq(PipeBytes)
  OBVIOUS
<1>3. PipeGood(pipe) /\ PipeHeld(pipe) = << >> /\ pipe.capacity = 0
  <2> DEFINE x == PipeOf(<< >>, 0, 0, 0, 0, FALSE, FALSE)
  <2>1. PipeGood(x) /\ PipeHeld(x) = << >> /\ x.capacity = 0 /\ x.size = 0
    BY ONLY PipeGone, ZenonT(60)
  <2> QED
    BY ONLY <1>1, <2>1, Zenon
<1> QED
  BY <1>1, <1>2, <1>3, Zenon DEF PipeInv

LEMMA PipeSteps ==
  ASSUME PipeInv, PipeNext
  PROVE  PipeInv' /\ PipeMoves
<1>0. PipeGood(pipe) /\ pipe_out \in Seq(PipeBytes)
  BY DEF PipeInv
<1>h. /\ PipeHeld(pipe) \in Seq(PipeBytes) /\ Len(PipeHeld(pipe)) = pipe.size
      /\ pipe.capacity \in Nat /\ pipe.size \in 0 .. pipe.capacity
  <2>1. Len(PipeHeld(pipe)) = pipe.size
    BY <1>0, PipeContentsHeld
  <2>2. PipeHeld(pipe) \in Seq(PipeBytes) /\ pipe.capacity \in Nat /\ pipe.size \in 0 .. pipe.capacity
    BY <1>0 DEF PipeGood
  <2> QED
    BY <2>1, <2>2, Zenon
<1>1. CASE \E n \in PipeCapacities : pipe_init(n)
  <2>1. PICK c \in Nat \ {0} : pipe' = PipeOf([i \in 0 .. c - 1 |-> PipeGarbage], c, 0, 0, 0, FALSE, FALSE)
                               /\ pipe_out' = pipe_out
    BY <1>1, PipeConstants, Zenon DEF pipe_init, PipeOf
  <2>2. PipeGood(pipe') /\ PipeHeld(pipe') = << >> /\ pipe'.reader_closed = FALSE
    BY <2>1, PipeFresh DEF PipeOf
  <2> QED
    BY <1>0, <2>1, <2>2 DEF PipeInv, PipeMoves, Handles
<1>2. CASE pipe_destroy
  <2>1. PICK r, w, rc, wc : pipe' = PipeOf(<< >>, 0, r, w, 0, rc, wc) /\ pipe_out' = pipe_out
    <3>1. PICK b, c, r, w, n, rc, wc : pipe = PipeOf(b, c, r, w, n, rc, wc)
      BY <1>0, Zenon DEF PipeGood
    <3>3. pipe' = [pipe EXCEPT !.buffer = << >>, !.capacity = 0, !.size = 0] /\ pipe_out' = pipe_out
      BY <1>2 DEF pipe_destroy
    <3>4. pipe' = [[[pipe EXCEPT !.buffer = << >>] EXCEPT !.capacity = 0] EXCEPT !.size = 0]
      BY ONLY <3>3, SMT
    <3> DEFINE p1 == PipeOf(<< >>, c, r, w, n, rc, wc)
               p2 == PipeOf(<< >>, 0, r, w, n, rc, wc)
               p3 == PipeOf(<< >>, 0, r, w, 0, rc, wc)
    <3>5. [pipe EXCEPT !.buffer = << >>] = p1
      BY ONLY <3>1, SMT DEF PipeOf
    <3>6. [p1 EXCEPT !.capacity = 0] = p2
      BY ONLY SMT DEF PipeOf
    <3>7. [p2 EXCEPT !.size = 0] = p3
      BY ONLY SMT DEF PipeOf
    <3>8. pipe' = p3
      <4> HIDE DEF p1, p2, p3
      <4> QED
        BY ONLY <3>4, <3>5, <3>6, <3>7, ZenonT(60)
    <3> QED
      BY <3>3, <3>8, Zenon
  <2>2. PipeGood(pipe') /\ PipeHeld(pipe') = << >> /\ pipe'.size = 0
    BY <2>1, PipeGone
  <2>3. 0 <= pipe.size
    BY <1>h, SMTT(60)
  <2> QED
    BY <1>0, <2>1, <2>2, <2>3 DEF PipeInv, PipeMoves, Handles
<1>3. CASE \E length \in 1 .. MaxCount : pipe_read(length)
  <2>1. PICK length \in Nat : pipe_read(length)
    BY <1>3, PipeConstants
  <2> DEFINE m == Least2(length, pipe.size)
             x == ReadLoop(pipe, length)
  <2>2. pipe' = x.p /\ pipe_out' = x.copied
    BY <2>1 DEF pipe_read
  <2>3. /\ PipeGood(x.p) /\ m \in 0 .. pipe.size
        /\ x.p.capacity = pipe.capacity /\ x.p.size = pipe.size - m /\ x.p.reader_closed = pipe.reader_closed
        /\ PipeHeld(x.p) = SubSeq(PipeHeld(pipe), m + 1, pipe.size)
        /\ x.copied = SubSeq(PipeHeld(pipe), 1, m) /\ x.copied \in Seq(PipeBytes)
    BY <1>0, PipeReads, Zenon
  <2> HIDE DEF x, m
  <2>4. Handles(PipeHeld(pipe), pipe.capacity, pipe_out, PipeHeld(pipe'), pipe'.capacity, pipe_out')
    BY <1>h, <2>2, <2>3, ZenonT(60) DEF Handles
  <2>5. pipe'.size <= pipe.size
    BY <1>h, <2>2, <2>3, SMTT(60)
  <2> QED
    BY <2>2, <2>3, <2>4, <2>5, SMTT(60) DEF PipeInv, PipeMoves
<1>4. CASE \E data \in PipeData : pipe_write(data)
  <2>1. PICK data \in PipeData : pipe_write(data)
    BY <1>4, SMTT(60)
  <2>2. data \in Seq(PipeBytes) /\ Len(data) \in Nat
    BY LenProperties DEF PipeData
  <2> DEFINE m == Least2(Len(data), pipe.capacity - pipe.size)
             x == WriteLoop(pipe, data)
  <2>3. pipe' = x /\ pipe_out' = pipe_out /\ ~ pipe.reader_closed
    BY <2>1 DEF pipe_write
  <2>4. /\ PipeGood(x) /\ m \in 0 .. pipe.capacity - pipe.size
        /\ x.capacity = pipe.capacity /\ x.size = pipe.size + m /\ x.reader_closed = pipe.reader_closed
        /\ PipeHeld(x) = PipeHeld(pipe) \o SubSeq(data, 1, m)
    BY <1>0, <2>2, PipeWrites, Zenon
  <2>5. m \in Nat /\ m <= Len(data)
    BY <1>h, <2>2 DEF Least2
  <2> HIDE DEF x, m
  <2>6. SubSeq(data, 1, m) \in Seq(PipeBytes) /\ Len(SubSeq(data, 1, m)) = m
    BY <2>2, <2>5
  <2>7. Len(PipeHeld(pipe)) + Len(SubSeq(data, 1, m)) <= pipe.capacity
    BY <1>h, <2>4, <2>6
  <2>8. Handles(PipeHeld(pipe), pipe.capacity, pipe_out, PipeHeld(pipe'), pipe'.capacity, pipe_out')
    BY <1>h, <2>3, <2>4, <2>6, <2>7, ZenonT(60) DEF Handles
  <2> QED
    BY <1>0, <2>3, <2>4, <2>8, SMTT(60) DEF PipeInv, PipeMoves
<1>5. CASE pipe_close_reader \/ pipe_close_writer
  <2>1. PICK rc, wc : /\ pipe' = PipeOf(pipe.buffer, pipe.capacity, pipe.read_index, pipe.write_index, pipe.size, rc, wc)
                      /\ pipe_out' = pipe_out
    BY <1>0, <1>5, PipeParts, SMTT(60) DEF pipe_close_reader, pipe_close_writer, PipeOf
  <2>2. /\ PipeGood(pipe') /\ PipeHeld(pipe') = PipeHeld(pipe)
        /\ pipe'.capacity = pipe.capacity /\ pipe'.size = pipe.size
    BY <1>0, <2>1, PipeFlags, SMTT(60)
  <2> DEFINE h == PipeHeld(pipe)
  <2>3. h \in Seq(PipeBytes) /\ << >> \in Seq(PipeBytes) /\ h = h \o << >> /\ Len(h) + Len(<< >>) <= pipe.capacity
    <3>1. h \in Seq(PipeBytes) /\ Len(h) <= pipe.capacity
      BY <1>h
    <3> HIDE DEF h
    <3> QED
      BY <3>1, <1>h
  <2>4. pipe'.size <= pipe.size
    BY <1>h, <2>2
  <2>5. Handles(PipeHeld(pipe), pipe.capacity, pipe_out, PipeHeld(pipe'), pipe'.capacity, pipe_out')
    BY <2>1, <2>2, <2>3, ZenonT(60) DEF Handles
  <2> QED
    BY <1>0, <2>1, <2>2, <2>4, <2>5, SMTT(60) DEF PipeInv, PipeMoves
<1> QED
  BY <1>1, <1>2, <1>3, <1>4, <1>5 DEF PipeNext

-----------------------------------------------------------------------------
(* The ring buffer.                                                           *)

RingHeld(p) == IF p.capacity = 0 THEN << >> ELSE BytesFrom(p.data, p.tail, p.count, p.capacity)

RingGood(p) ==
    /\ p = RingOf(p.data, p.capacity, p.head, p.tail, p.count)
    /\ p.capacity \in Nat /\ p.count \in 0 .. p.capacity
    /\ p.capacity = 0 => p.data = << >>
    /\ p.capacity # 0 =>
          /\ p.data \in [0 .. p.capacity - 1 -> RingBytes \cup {RingGarbage}]
          /\ p.tail \in 0 .. p.capacity - 1
          /\ p.head = Slot(p.tail, p.count + 1, p.capacity)
    /\ RingHeld(p) \in Seq(RingBytes)

\* What makes a ring with storage good, over the values of its fields.
RingFits(b, c, w, r, n) ==
    /\ c \in Nat \ {0} /\ n \in 0 .. c /\ r \in 0 .. c - 1 /\ w = Slot(r, n + 1, c)
    /\ b \in [0 .. c - 1 -> RingBytes \cup {RingGarbage}]
    /\ BytesFrom(b, r, n, c) \in Seq(RingBytes)

RingInv == RingGood(ring) /\ ring_out \in Seq(RingBytes)

\* The fields of a good ring, by name.
LEMMA RingParts ==
  ASSUME NEW p, RingGood(p)
  PROVE  \E b, c, w, r, n :
            /\ p = RingOf(b, c, w, r, n)
            /\ p.data = b /\ p.capacity = c /\ p.head = w /\ p.tail = r /\ p.count = n
  BY DEF RingGood

LEMMA RingFitting ==
  ASSUME NEW b, NEW c, NEW w, NEW r, NEW n, c # 0
  PROVE  /\ RingGood(RingOf(b, c, w, r, n)) <=> RingFits(b, c, w, r, n)
         /\ RingHeld(RingOf(b, c, w, r, n)) = BytesFrom(b, r, n, c)
<1> DEFINE p == RingOf(b, c, w, r, n)
<1>1. p.data = b /\ p.capacity = c /\ p.head = w /\ p.tail = r /\ p.count = n
  BY DEF RingOf
<1>2. p = RingOf(b, c, w, r, n)
  OBVIOUS
<1> HIDE DEF p
<1>3. p = RingOf(p.data, p.capacity, p.head, p.tail, p.count)
  BY <1>1, <1>2, Zenon
<1>4. RingHeld(p) = BytesFrom(b, r, n, c)
  <2>1. p.capacity # 0
    BY <1>1, Zenon
  <2>2. RingHeld(p) = BytesFrom(p.data, p.tail, p.count, p.capacity)
    BY <2>1, Zenon DEF RingHeld
  <2> QED
    BY <1>1, <2>2, Zenon
<1>5. RingGood(p) <=> /\ c \in Nat /\ n \in 0 .. c
                      /\ b \in [0 .. c - 1 -> RingBytes \cup {RingGarbage}]
                      /\ r \in 0 .. c - 1 /\ w = Slot(r, n + 1, c)
                      /\ BytesFrom(b, r, n, c) \in Seq(RingBytes)
  BY <1>1, <1>3, <1>4, ZenonT(60) DEF RingGood
<1>6. c \in Nat <=> c \in Nat \ {0}
  BY Zenon
<1>7. RingGood(p) <=> RingFits(b, c, w, r, n)
  BY <1>5, <1>6, Zenon DEF RingFits
<1> QED
  BY <1>4, <1>7, Zenon DEF p

\* The contents as the model states them, with %, are what the ring holds.
LEMMA RingContentsHeld ==
  ASSUME NEW p, RingGood(p)
  PROVE  /\ [i \in 1 .. p.count |-> p.data[(p.tail + i - 1) % p.capacity]] = RingHeld(p)
         /\ Len(RingHeld(p)) = p.count
         /\ p.capacity # 0 => p.head = (p.tail + p.count) % p.capacity
<1>0. PICK b, c, w, r, n :
            /\ p = RingOf(b, c, w, r, n)
            /\ p.data = b /\ p.capacity = c /\ p.head = w /\ p.tail = r /\ p.count = n
  BY RingParts, Zenon
<1> SUFFICES /\ [i \in 1 .. n |-> b[(r + i - 1) % c]] = RingHeld(p)
             /\ Len(RingHeld(p)) = n
             /\ c # 0 => w = (r + n) % c
  BY <1>0, Zenon
<1>1. CASE c = 0
  <2>1. n = 0
    BY <1>0, <1>1, SMTT(30) DEF RingGood
  <2>2. [i \in 1 .. n |-> b[(r + i - 1) % c]] = << >>
    BY <2>1
  <2> QED
    BY <1>0, <1>1, <2>1, <2>2 DEF RingHeld
<1>2. CASE c # 0
  <2>1. c \in Nat \ {0} /\ r \in 0 .. c - 1 /\ n \in 0 .. c /\ w = Slot(r, n + 1, c)
        /\ RingHeld(p) = BytesFrom(b, r, n, c) /\ BytesFrom(b, r, n, c) \in Seq(RingBytes)
    BY <1>0, <1>2 DEF RingGood, RingHeld
  <2>2. \A i \in 1 .. n : (r + i - 1) % c = Slot(r, i, c)
    BY <2>1, SlotRounds
  <2>3. (r + n) % c = Slot(r, n + 1, c)
    <3>1. n + 1 \in 1 .. c + 1 /\ r + (n + 1) - 1 = r + n
      BY <2>1
    <3> QED
      BY <2>1, <3>1, SlotRounds, SMTT(30)
  <2>4. [i \in 1 .. n |-> b[(r + i - 1) % c]] = BytesFrom(b, r, n, c)
    BY <2>2 DEF BytesFrom
  <2>5. Len(BytesFrom(b, r, n, c)) = n
    <3>1. c \in Nat \ {0} /\ r \in 0 .. c - 1 /\ n \in 0 .. c /\ BytesFrom(b, r, n, c) \in Seq(RingBytes)
      BY <2>1
    <3>2. /\ Len(BytesFrom(b, r, n, c)) = n
          /\ \A i \in 1 .. n : BytesFrom(b, r, n, c)[i] = b[Slot(r, i, c)] /\ b[Slot(r, i, c)] \in RingBytes
      BY ONLY <3>1, RingSeq, Zenon
    <3> QED
      BY <3>2
  <2> QED
    BY <2>1, <2>3, <2>4, <2>5
<1> QED
  BY <1>1, <1>2

\* A ring with storage from which m bytes were taken.
RingTakes(b, c, w, r, n, m) ==
    LET p == RingOf(b, c, w, r, n)
        y == RingOf(b, c, w, Slot(r, m + 1, c), n - m)
        o == [i \in 1 .. m |-> b[Slot(r, i, c)]]
    IN  /\ RingGood(y) /\ y.capacity = c
        /\ RingHeld(y) = SubSeq(RingHeld(p), m + 1, n)
        /\ o = SubSeq(RingHeld(p), 1, m) /\ o \in Seq(RingBytes)

LEMMA RingTaken ==
  ASSUME NEW b, NEW c, NEW w, NEW r, NEW n, RingGood(RingOf(b, c, w, r, n)), c # 0, NEW m \in 0 .. n
  PROVE  RingTakes(b, c, w, r, n, m)
<1> DEFINE p == RingOf(b, c, w, r, n)
           t == Slot(r, m + 1, c)
           y == RingOf(b, c, w, t, n - m)
           o == [i \in 1 .. m |-> b[Slot(r, i, c)]]
<1>1. RingFits(b, c, w, r, n) /\ RingHeld(p) = BytesFrom(b, r, n, c)
  BY RingFitting, Zenon
<1>2. DrainsTo(RingBytes, b, c, r, n, m)
  <2>1. /\ c \in Nat \ {0} /\ r \in 0 .. c - 1 /\ n \in 0 .. c /\ m \in 0 .. n
        /\ BytesFrom(b, r, n, c) \in Seq(RingBytes)
    BY <1>1, Zenon DEF RingFits
  <2> QED
    BY ONLY <2>1, Drained, Zenon
<1>3. /\ t \in 0 .. c - 1 /\ BytesFrom(b, t, n - m, c) \in Seq(RingBytes)
      /\ o = SubSeq(BytesFrom(b, r, n, c), 1, m) /\ o \in Seq(RingBytes)
      /\ BytesFrom(b, t, n - m, c) = SubSeq(BytesFrom(b, r, n, c), m + 1, n)
  BY <1>2, Zenon DEF DrainsTo
<1>4. Slot(t, (n - m) + 1, c) = Slot(r, n + 1, c) /\ n - m \in 0 .. c
  <2>1. c \in Nat \ {0} /\ r \in 0 .. c - 1 /\ n \in 0 .. c
    BY <1>1, Zenon DEF RingFits
  <2> QED
    BY <2>1, SMTT(90) DEF Slot
<1> HIDE DEF t, o
<1>5. RingFits(b, c, w, t, n - m)
  BY <1>1, <1>3, <1>4, Zenon DEF RingFits
<1>6. RingGood(y) /\ RingHeld(y) = BytesFrom(b, t, n - m, c)
  BY <1>5, RingFitting, Zenon
<1>7. y.capacity = c
  BY DEF RingOf
<1> HIDE DEF y, p
<1>8. /\ RingGood(y) /\ y.capacity = c
      /\ RingHeld(y) = SubSeq(RingHeld(p), m + 1, n)
      /\ o = SubSeq(RingHeld(p), 1, m) /\ o \in Seq(RingBytes)
  BY <1>1, <1>3, <1>6, <1>7, Zenon
<1> QED
  BY <1>8, Zenon DEF o, y, p, t, RingTakes

\* A ring with storage into which the first m bytes of data were put.
RingPuts(b, c, w, r, n, data, m) ==
    LET p == RingOf(b, c, w, r, n)
        y == RingOf(Laid(b, w, c, data, m), c, Slot(w, m + 1, c), r, n + m)
    IN  RingGood(y) /\ y.capacity = c /\ RingHeld(y) = RingHeld(p) \o SubSeq(data, 1, m)

LEMMA RingPut ==
  ASSUME NEW b, NEW c, NEW w, NEW r, NEW n, RingGood(RingOf(b, c, w, r, n)), c # 0,
         NEW data \in Seq(RingBytes), NEW m \in 0 .. c - n, m <= Len(data)
  PROVE  RingPuts(b, c, w, r, n, data, m)
<1> DEFINE V == RingBytes \cup {RingGarbage}
           p == RingOf(b, c, w, r, n)
           l == Laid(b, w, c, data, m)
           h == Slot(w, m + 1, c)
           y == RingOf(l, c, h, r, n + m)
<1>0. RingFits(b, c, w, r, n) /\ RingHeld(p) = BytesFrom(b, r, n, c)
  BY RingFitting, Zenon
<1>1. /\ c \in Nat \ {0} /\ r \in 0 .. c - 1 /\ n \in 0 .. c /\ w = Slot(r, n + 1, c)
      /\ b \in [0 .. c - 1 -> V] /\ BytesFrom(b, r, n, c) \in Seq(RingBytes)
  BY <1>0, Zenon DEF RingFits
<1>2. w \in 0 .. c - 1
  BY <1>1 DEF Slot
<1>3. TopsUpTo(RingBytes, b, c, r, n, m, data)
  <2>1. /\ c \in Nat \ {0} /\ r \in 0 .. c - 1 /\ n \in 0 .. c /\ m \in 0 .. c - n
        /\ BytesFrom(b, r, n, c) \in Seq(RingBytes) /\ data \in Seq(RingBytes) /\ m <= Len(data)
    BY <1>1, Zenon
  <2> QED
    BY ONLY <2>1, ToppedUp, Zenon
<1>4. /\ BytesFrom(l, r, n + m, c) \in Seq(RingBytes)
      /\ BytesFrom(l, r, n + m, c) = BytesFrom(b, r, n, c) \o SubSeq(data, 1, m)
  <2>1. w = Slot(r, n + 1, c)
    BY <1>1, Zenon
  <2> QED
    BY ONLY <1>3, <2>1, Zenon DEF TopsUpTo, l
<1>5. l \in [0 .. c - 1 -> V]
  <2>1. \A i \in 1 .. Len(data) : data[i] \in V
    BY ElementOfSeq
  <2>2. Len(data) \in Nat /\ m \in Nat
    BY <1>1, LenProperties
  <2> HIDE DEF V
  <2> QED
    BY <1>1, <1>2, <2>1, <2>2, SMTT(90) DEF Laid
<1>6. h = Slot(r, (n + m) + 1, c) /\ n + m \in 0 .. c
  BY <1>1 DEF Slot
<1> HIDE DEF l, h
<1>7. RingFits(l, c, h, r, n + m)
  BY <1>1, <1>4, <1>5, <1>6, Zenon DEF RingFits
<1>8. RingGood(y) /\ RingHeld(y) = BytesFrom(l, r, n + m, c)
  BY <1>7, RingFitting, Zenon
<1>9. y.capacity = c
  BY DEF RingOf
<1> HIDE DEF y, p
<1>10. RingGood(y) /\ y.capacity = c /\ RingHeld(y) = RingHeld(p) \o SubSeq(data, 1, m)
  BY <1>0, <1>4, <1>8, <1>9, Zenon
<1> QED
  BY <1>10, Zenon DEF y, p, l, h, RingPuts

\* A fresh ring, and one that was reset.
LEMMA RingEmptied ==
  ASSUME NEW b, NEW c, c \in Nat, c = 0 => b = << >>, c # 0 => b \in [0 .. c - 1 -> RingBytes \cup {RingGarbage}]
  PROVE  RingGood(RingOf(b, c, 0, 0, 0)) /\ RingHeld(RingOf(b, c, 0, 0, 0)) = << >>
<1> DEFINE y == RingOf(b, c, 0, 0, 0)
<1>1. y.data = b /\ y.capacity = c /\ y.head = 0 /\ y.tail = 0 /\ y.count = 0
  BY DEF RingOf
<1>2. y = RingOf(y.data, y.capacity, y.head, y.tail, y.count)
  BY DEF RingOf
<1> HIDE DEF y
<1>3. RingHeld(y) = << >> /\ << >> \in Seq(RingBytes)
  BY <1>1 DEF RingHeld, BytesFrom
<1>4. c # 0 => Slot(0, 0 + 1, c) = 0 /\ 0 \in 0 .. c - 1
  BY DEF Slot
<1>5. RingGood(y)
  BY <1>1, <1>2, <1>3, <1>4 DEF RingGood
<1> QED
  BY <1>3, <1>5 DEF y

\* A byte array of at least one byte is not the missing storage.
LEMMA HasStorage ==
  ASSUME NEW V, NEW c \in Nat \ {0}, NEW b \in [0 .. c - 1 -> V]
  PROVE  b # << >>
<1>1. 0 \in DOMAIN b
  OBVIOUS
<1>2. DOMAIN << >> = {}
  OBVIOUS
<1> QED
  BY <1>1, <1>2

RingMoves == Handles(RingHeld(ring), ring.capacity, ring_out, RingHeld(ring'), ring'.capacity, ring_out')

LEMMA RingStarts == RingInit => RingInv /\ RingHeld(ring) = << >> /\ ring.capacity = 0 /\ ring_out = << >>
<1> SUFFICES ASSUME RingInit PROVE RingInv /\ RingHeld(ring) = << >> /\ ring.capacity = 0 /\ ring_out = << >>
  OBVIOUS
<1>1. ring = RingOf(<< >>, 0, 0, 0, 0) /\ ring_out = << >> /\ ring.capacity = 0
  BY DEF RingInit, NoStorage, RingOf
<1>2. << >> \in Seq(RingBytes) /\ 0 \in Nat
  OBVIOUS
<1>3. RingGood(RingOf(<< >>, 0, 0, 0, 0)) /\ RingHeld(RingOf(<< >>, 0, 0, 0, 0)) = << >>
  BY <1>2, RingEmptied, Zenon
<1> QED
  BY <1>1, <1>2, <1>3, ZenonT(60) DEF RingInv

LEMMA RingSteps ==
  ASSUME RingInv, RingNext
  PROVE  RingInv' /\ RingMoves
<1>0. RingGood(ring) /\ ring_out \in Seq(RingBytes)
  BY DEF RingInv
<1>p. PICK b, c, w, r, n :
            /\ ring = RingOf(b, c, w, r, n)
            /\ ring.data = b /\ ring.capacity = c /\ ring.head = w /\ ring.tail = r /\ ring.count = n
  BY <1>0, RingParts, Zenon
<1>q. /\ c \in Nat /\ n \in 0 .. c /\ (c = 0 => b = << >>)
      /\ c # 0 => /\ b \in [0 .. c - 1 -> RingBytes \cup {RingGarbage}] /\ r \in 0 .. c - 1
                  /\ w = Slot(r, n + 1, c) /\ w \in 0 .. c - 1 /\ b # << >>
  <2>1. /\ c \in Nat /\ n \in 0 .. c /\ (c = 0 => b = << >>)
        /\ c # 0 => /\ b \in [0 .. c - 1 -> RingBytes \cup {RingGarbage}] /\ r \in 0 .. c - 1
                    /\ w = Slot(r, n + 1, c)
    BY <1>0, <1>p DEF RingGood
  <2>2. c # 0 => w \in 0 .. c - 1
    BY <2>1 DEF Slot
  <2>3. c # 0 => b # << >>
    BY <2>1, HasStorage
  <2> QED
    BY <2>1, <2>2, <2>3, SMTT(90)
<1>h. RingHeld(ring) \in Seq(RingBytes) /\ Len(RingHeld(ring)) = n
  <2>1. Len(RingHeld(ring)) = ring.count
    BY <1>0, RingContentsHeld, SMTT(60)
  <2>2. RingHeld(ring) \in Seq(RingBytes)
    BY <1>0 DEF RingGood
  <2> QED
    BY <1>p, <2>1, <2>2, ZenonT(60)
<1>g. RingGood(RingOf(b, c, w, r, n))
  BY <1>0, <1>p, Zenon
\* A call that takes nothing and puts nothing.
<1>i. ASSUME ring' = ring, ring_out' = ring_out
      PROVE  RingInv' /\ RingMoves
  <2> DEFINE d == RingHeld(ring)
  <2>1. d \in Seq(RingBytes) /\ << >> \in Seq(RingBytes) /\ d = d \o << >> /\ Len(d) + Len(<< >>) <= ring.capacity
    <3>1. d \in Seq(RingBytes) /\ Len(d) = n /\ ring.capacity = c /\ n \in 0 .. c /\ c \in Nat
      BY <1>h, <1>p, <1>q, SMTT(60)
    <3> HIDE DEF d
    <3> QED
      BY <3>1, SMTT(60)
  <2>2. RingHeld(ring') = RingHeld(ring) /\ ring'.capacity = ring.capacity
    BY <1>i
  <2>3. RingMoves
    BY <1>i, <2>1, <2>2, Zenon DEF Handles, RingMoves
  <2> QED
    BY <1>0, <1>i, <2>3, SMTT(60) DEF RingInv
\* m bytes are taken, or put.
<1>t. ASSUME NEW m \in 0 .. n, c # 0, ring' = RingOf(b, c, w, Slot(r, m + 1, c), n - m),
             ring_out' = [i \in 1 .. m |-> b[Slot(r, i, c)]]
      PROVE  RingInv' /\ RingMoves
  <2> DEFINE y == RingOf(b, c, w, Slot(r, m + 1, c), n - m)
             o == [i \in 1 .. m |-> b[Slot(r, i, c)]]
             p == RingOf(b, c, w, r, n)
  <2>1. /\ RingGood(y) /\ y.capacity = c
        /\ RingHeld(y) = SubSeq(RingHeld(p), m + 1, n)
        /\ o = SubSeq(RingHeld(p), 1, m) /\ o \in Seq(RingBytes)
    <3>1. RingTakes(b, c, w, r, n, m)
      BY ONLY <1>g, <1>t, RingTaken, ZenonT(60)
    <3> QED
      BY <3>1, Zenon DEF RingTakes
  <2>2. ring' = y /\ ring_out' = o /\ ring = p /\ ring.capacity = c
    BY <1>t, <1>p, ZenonT(60)
  <2> HIDE DEF y, o, p
  <2>3. /\ RingHeld(ring') = SubSeq(RingHeld(ring), m + 1, Len(RingHeld(ring))) /\ ring'.capacity = ring.capacity
        /\ ring_out' = SubSeq(RingHeld(ring), 1, m) /\ RingHeld(ring) \in Seq(RingBytes)
        /\ m \in 0 .. Len(RingHeld(ring))
    BY <1>h, <2>1, <2>2, SMTT(60)
  <2>4. RingMoves
    BY <2>3, Zenon DEF Handles, RingMoves
  <2> QED
    BY <2>1, <2>2, <2>4, Zenon DEF RingInv
<1>u. ASSUME NEW data \in Seq(RingBytes), NEW m \in 0 .. c - n, m <= Len(data), c # 0,
             ring' = RingOf(Laid(b, w, c, data, m), c, Slot(w, m + 1, c), r, n + m), ring_out' = ring_out
      PROVE  RingInv' /\ RingMoves
  <2> DEFINE y == RingOf(Laid(b, w, c, data, m), c, Slot(w, m + 1, c), r, n + m)
             p == RingOf(b, c, w, r, n)
             d == SubSeq(data, 1, m)
  <2>1. RingGood(y) /\ y.capacity = c /\ RingHeld(y) = RingHeld(p) \o d
    <3>1. RingPuts(b, c, w, r, n, data, m)
      BY ONLY <1>g, <1>u, RingPut, Zenon
    <3> QED
      BY <3>1, Zenon DEF RingPuts
  <2>2. ring' = y /\ ring = p /\ ring.capacity = c
    BY <1>u, <1>p, Zenon
  <2>3. d \in Seq(RingBytes) /\ Len(d) = m
    BY <1>q, LenProperties, SMTT(90)
  <2>4. Len(RingHeld(ring)) + Len(d) <= ring.capacity
    <3> HIDE DEF d
    <3> QED
      BY <1>h, <1>q, <2>2, <2>3, SMTT(60)
  <2> HIDE DEF y, d, p
  <2>5. RingHeld(ring') = RingHeld(ring) \o d /\ ring'.capacity = ring.capacity
    BY <2>1, <2>2, Zenon
  <2>6. RingMoves
    BY <1>h, <1>u, <2>3, <2>4, <2>5, ZenonT(60) DEF Handles, RingMoves
  <2> QED
    BY <1>0, <1>u, <2>1, <2>2, <2>6, ZenonT(60) DEF RingInv
<1>1. CASE \E s \in RingCapacities : ring_buf_init(s)
  <2>1. PICK s \in Nat \ {0} : ring' = RingOf([i \in 0 .. s - 1 |-> RingGarbage], s, 0, 0, 0) /\ ring_out' = ring_out
    BY <1>1, RingBufConstants, SMTT(60) DEF ring_buf_init, RingOf
  <2> DEFINE g == [i \in 0 .. s - 1 |-> RingGarbage]
  <2>2. s \in Nat /\ (s = 0 => g = << >>) /\ (s # 0 => g \in [0 .. s - 1 -> RingBytes \cup {RingGarbage}])
    OBVIOUS
  <2> HIDE DEF g
  <2>3. RingGood(RingOf(g, s, 0, 0, 0)) /\ RingHeld(RingOf(g, s, 0, 0, 0)) = << >>
    BY <2>2, RingEmptied, Zenon
  <2>4. RingGood(ring') /\ RingHeld(ring') = << >>
    BY <2>1, <2>3, Zenon DEF g
  <2> QED
    BY <1>0, <2>1, <2>4, ZenonT(60) DEF RingInv, RingMoves, Handles
<1>2. CASE ring_buf_reset
  <2>1. ring' = RingOf(b, c, 0, 0, 0) /\ ring_out' = ring_out
    <3>1. ring' = [[[ring EXCEPT !.head = 0] EXCEPT !.tail = 0] EXCEPT !.count = 0] /\ ring_out' = ring_out
      BY <1>2 DEF ring_buf_reset
    <3> DEFINE p1 == RingOf(b, c, 0, r, n)
               p2 == RingOf(b, c, 0, 0, n)
               p3 == RingOf(b, c, 0, 0, 0)
    <3>2. ring = RingOf(b, c, w, r, n)
      BY <1>p
    <3>3. [ring EXCEPT !.head = 0] = p1
      BY ONLY <3>2, SMT DEF RingOf
    <3>4. [p1 EXCEPT !.tail = 0] = p2
      BY ONLY SMT DEF RingOf
    <3>5. [p2 EXCEPT !.count = 0] = p3
      BY ONLY SMT DEF RingOf
    <3> HIDE DEF p1, p2, p3
    <3>6. ring' = p3 /\ ring_out' = ring_out
      BY ONLY <3>1, <3>3, <3>4, <3>5, ZenonT(60)
    <3> QED
      BY <3>6 DEF p3
  <2>2. RingGood(RingOf(b, c, 0, 0, 0)) /\ RingHeld(RingOf(b, c, 0, 0, 0)) = << >>
    BY <1>q, RingEmptied, SMTT(60)
  <2> QED
    BY <1>0, <2>1, <2>2, ZenonT(60) DEF RingInv, RingMoves, Handles
<1>3. CASE \E value \in RingBytes : ring_buf_push(value)
  <2>1. PICK value \in RingBytes : CanPush(ring) /\ ring' = Pushed(ring, value) /\ ring_out' = ring_out
    BY <1>3, SMTT(90) DEF ring_buf_push
  <2>2. c # 0 /\ n < c /\ c \in Nat \ {0} /\ w \in 0 .. c - 1
    BY <1>p, <1>q, <2>1, SMTT(90) DEF CanPush, ring_buf_full
  <2> DEFINE d == <<value>>
  <2>3. d \in Seq(RingBytes) /\ 1 <= Len(d) /\ d[1] = value /\ 1 \in 0 .. c - n
    BY <1>q, <2>2, SMTT(60)
  <2> HIDE DEF d
  <2>4. Store(b, w, value) = Laid(b, w, c, d, 1)
    <3>1. Laid(b, w, c, d, 0) = b
      BY <1>q, <2>2, NothingLaid, ZenonT(60)
    <3>2. Store(Laid(b, w, c, d, 1 - 1), Slot(w, 1, c), d[1]) = Laid(b, w, c, d, 1)
      BY <2>2, LaysNext, SMTT(60)
    <3>3. 1 - 1 = 0 /\ Slot(w, 1, c) = w
      BY <2>2 DEF Slot
    <3> QED
      BY <2>3, <3>1, <3>2, <3>3, SMTT(90)
  <2>5. (w + 1) % c = Slot(w, 1 + 1, c)
    <3>1. 1 + 1 \in 1 .. c + 1 /\ w + (1 + 1) - 1 = w + 1
      BY <2>2
    <3> QED
      BY <2>2, <3>1, SlotRounds, SMTT(60)
  <2>6. ring' = RingOf(Laid(b, w, c, d, 1), c, Slot(w, 1 + 1, c), r, n + 1)
    <3>1. Pushed(RingOf(b, c, w, r, n), value) = RingOf(Store(b, w, value), c, (w + 1) % c, r, n + 1)
      BY ONLY PushOne, SMTT(60)
    <3>2. ring = RingOf(b, c, w, r, n)
      BY <1>p
    <3> QED
      BY ONLY <2>1, <2>4, <2>5, <3>1, <3>2, ZenonT(60)
  <2> QED
    BY ONLY <1>u, <2>1, <2>2, <2>3, <2>6, SMTT(90)
<1>4. CASE ring_buf_pop
  <2>1. CanPop(ring) /\ ring' = Popped(ring) /\ ring_out' = <<ring.data[ring.tail]>>
    BY <1>4, SMTT(60) DEF ring_buf_pop
  <2>2. c # 0 /\ n # 0 /\ c \in Nat \ {0} /\ r \in 0 .. c - 1 /\ 1 \in 0 .. n
    BY <1>p, <1>q, <2>1, SMTT(90) DEF CanPop, ring_buf_empty
  <2>3. (r + 1) % c = Slot(r, 1 + 1, c) /\ Slot(r, 1, c) = r
    <3>1. 1 + 1 \in 1 .. c + 1 /\ r + (1 + 1) - 1 = r + 1
      BY <2>2
    <3>2. Slot(r, 1, c) = r
      BY <2>2 DEF Slot
    <3> QED
      BY <2>2, <3>1, <3>2, SlotRounds, SMTT(60)
  <2>4. ring' = RingOf(b, c, w, Slot(r, 1 + 1, c), n - 1)
    <3>1. Popped(ring) = [[ring EXCEPT !.tail = (r + 1) % c] EXCEPT !.count = n - 1]
      BY <1>p DEF Popped
    <3> DEFINE p1 == RingOf(b, c, w, (r + 1) % c, n)
               p2 == RingOf(b, c, w, (r + 1) % c, n - 1)
    <3>2. ring = RingOf(b, c, w, r, n)
      BY <1>p
    <3>3. [ring EXCEPT !.tail = (r + 1) % c] = p1
      BY ONLY <3>2, SMT DEF RingOf
    <3>4. [p1 EXCEPT !.count = n - 1] = p2
      BY ONLY SMT DEF RingOf
    <3> HIDE DEF p1, p2
    <3>5. Popped(ring) = p2
      BY ONLY <3>1, <3>3, <3>4, ZenonT(60)
    <3> QED
      BY ONLY <2>1, <2>3, <3>5, ZenonT(60) DEF p2
  <2>5. ring_out' = [i \in 1 .. 1 |-> b[Slot(r, i, c)]]
    <3>1. [i \in 1 .. 1 |-> b[Slot(r, i, c)]] = <<b[Slot(r, 1, c)]>>
      OBVIOUS
    <3> QED
      BY ONLY <1>p, <2>1, <2>3, <3>1, ZenonT(60)
  <2> QED
    BY ONLY <1>t, <2>2, <2>4, <2>5, ZenonT(60)
<1>5. CASE \E data \in RingData : ring_buf_write(data)
  <2>1. PICK data \in RingData : ring' = PushLoop(ring, data) /\ ring_out' = ring_out
    BY <1>5 DEF ring_buf_write
  <2>2. data \in Seq(RingBytes) /\ Len(data) \in Nat
    BY LenProperties DEF RingData
  <2>3. CASE c = 0
    <3>1. ring.data = << >>
      BY <1>p, <1>q, <2>3, SMTT(60)
    <3>2. PushLoop(ring, data) = ring
      BY <2>2, <3>1, PushesNothing, Zenon
    <3> QED
      BY <1>i, <2>1, <3>2, ZenonT(60)
  <2>4. CASE c # 0
    <3> DEFINE m == Least2(Len(data), c - n)
    <3>1. m \in 0 .. c - n /\ m <= Len(data)
      BY <1>q, <2>2, SMTT(60) DEF Least2
    <3>2. /\ c \in Nat \ {0} /\ b \in [0 .. c - 1 -> RingBytes \cup {RingGarbage}]
          /\ r \in 0 .. c - 1 /\ w \in 0 .. c - 1 /\ n \in 0 .. c
      BY <1>q, <2>4
    <3>3. PushCopies(b, c, w, r, n, data)
      BY ONLY <2>2, <3>2, PushLoopCopies, Zenon
    <3>4. ring' = RingOf(Laid(b, w, c, data, m), c, Slot(w, m + 1, c), r, n + m)
      BY ONLY <1>p, <2>1, <3>3, ZenonT(60) DEF PushCopies
    <3> HIDE DEF m
    <3> QED
      BY ONLY <1>u, <2>1, <2>2, <2>4, <3>1, <3>4, ZenonT(60)
  <2> QED
    BY <2>3, <2>4, SMTT(60)
<1>6. CASE \E length \in 0 .. MaxLength : ring_buf_read(length)
  <2>1. PICK length \in Nat : ring' = PopLoop(ring, length).r /\ ring_out' = PopLoop(ring, length).got
    BY <1>6, RingBufConstants DEF ring_buf_read
  <2>2. CASE c = 0
    <3>1. ring.data = << >>
      BY <1>p, <1>q, <2>2, SMTT(60)
    <3>2. PopLoop(ring, length) = [r |-> ring, got |-> << >>]
      BY <3>1, PopsNothing, Zenon
    <3>3. ring' = ring /\ ring_out' = << >>
      BY <2>1, <3>2, SMTT(60)
    <3>4. n = 0 /\ Len(RingHeld(ring)) = 0 /\ RingHeld(ring) = << >> /\ ring.capacity = 0
      BY <1>p, <1>q, <1>h, <2>2, SMTT(60) DEF RingHeld
    <3>5. << >> = SubSeq(<< >>, 0 + 1, 0) /\ << >> = SubSeq(<< >>, 1, 0) /\ << >> \in Seq(RingBytes) /\ 0 \in 0 .. 0
      OBVIOUS
    <3>6. RingMoves
      BY ONLY <3>3, <3>4, <3>5, Zenon DEF RingMoves, Handles
    <3> QED
      BY <1>0, <3>3, <3>5, <3>6, SMTT(60) DEF RingInv
  <2>3. CASE c # 0
    <3> DEFINE m == Least2(length, n)
               y == RingOf(b, c, w, Slot(r, m + 1, c), n - m)
               o == [i \in 1 .. m |-> b[Slot(r, i, c)]]
    <3>1. m \in 0 .. n
      BY <1>q DEF Least2
    <3>2. c \in Nat \ {0} /\ b # << >> /\ r \in 0 .. c - 1 /\ n \in 0 .. c /\ length \in Nat
      BY <1>q, <2>3
    <3>3. PopCopies(b, c, w, r, n, length)
      BY ONLY <3>2, PopLoopCopies, Zenon
    <3>4. PopLoop(ring, length) = [r |-> y, got |-> o]
      BY ONLY <1>p, <3>3, Zenon DEF PopCopies
    <3>5. ring' = y /\ ring_out' = o
      <4> HIDE DEF y, o
      <4> QED
        BY ONLY <2>1, <3>4, SMT
    <3> HIDE DEF m
    <3> QED
      BY ONLY <1>t, <2>3, <3>1, <3>5, ZenonT(60)
  <2> QED
    BY <2>2, <2>3, SMTT(60)
<1> QED
  BY <1>1, <1>2, <1>3, <1>4, <1>5, <1>6, SMTT(90) DEF RingNext

-----------------------------------------------------------------------------
(* Both are the bounded queue Fifo promises.                                  *)

\* Fifo reads what was put, or how many were taken, off the next state.
FifoMove(held, room, out, heldNew, roomNew, outNew) ==
    \/ heldNew = << >> /\ outNew = out
    \/ LET d == SubSeq(heldNew, Len(held) + 1, Len(heldNew))
       IN  /\ Len(heldNew) >= Len(held) /\ Len(held) + Len(d) <= room
           /\ heldNew = held \o d /\ roomNew = room /\ outNew = out
    \/ LET k == Len(held) - Len(heldNew)
       IN  /\ Len(heldNew) <= Len(held) /\ k <= Len(held)
           /\ heldNew = SubSeq(held, k + 1, Len(held)) /\ outNew = SubSeq(held, 1, k) /\ roomNew = room

LEMMA PutBehind ==
  ASSUME NEW V, NEW s \in Seq(V), NEW d \in Seq(V)
  PROVE  Len(s \o d) = Len(s) + Len(d) /\ SubSeq(s \o d, Len(s) + 1, Len(s \o d)) = d
<1> DEFINE u == s \o d
           e == SubSeq(u, Len(s) + 1, Len(u))
<1>1. /\ u \in Seq(V) /\ Len(u) = Len(s) + Len(d) /\ Len(s) \in Nat /\ Len(d) \in Nat
      /\ \A i \in 1 .. Len(u) : u[i] = IF i <= Len(s) THEN s[i] ELSE d[i - Len(s)]
  BY ConcatProperties, LenProperties
<1> HIDE DEF u
<1>2. e \in Seq(V) /\ Len(e) = Len(d) /\ \A i \in 1 .. Len(d) : e[i] = u[Len(s) + i]
  BY <1>1
<1>3. \A i \in 1 .. Len(d) : e[i] = d[i]
  <2> HIDE DEF e
  <2> SUFFICES ASSUME NEW i \in 1 .. Len(d) PROVE e[i] = d[i]
    OBVIOUS
  <2>1. Len(s) + i \in 1 .. Len(u) /\ ~(Len(s) + i <= Len(s)) /\ Len(s) + i - Len(s) = i
    BY <1>1
  <2>2. u[Len(s) + i] = d[Len(s) + i - Len(s)]
    BY <1>1, <2>1, SMTT(60)
  <2> QED
    BY <1>2, <2>1, <2>2, SMTT(60)
<1> HIDE DEF e
<1>4. e = d
  BY <1>2, <1>3, SeqEqual, SMTT(90)
<1> QED
  BY <1>1, <1>4, SMTT(60) DEF u, e

LEMMA HandlesInOrder ==
  ASSUME NEW held, NEW room, NEW out, NEW heldNew, NEW roomNew, NEW outNew,
         Handles(held, room, out, heldNew, roomNew, outNew)
  PROVE  FifoMove(held, room, out, heldNew, roomNew, outNew)
<1>1. CASE heldNew = << >> /\ outNew = out
  BY <1>1 DEF FifoMove
<1>2. ASSUME NEW V, NEW d, held \in Seq(V), d \in Seq(V), heldNew = held \o d, Len(held) + Len(d) <= room,
             roomNew = room, outNew = out
      PROVE  FifoMove(held, room, out, heldNew, roomNew, outNew)
  <2>1. Len(held \o d) = Len(held) + Len(d) /\ SubSeq(held \o d, Len(held) + 1, Len(held \o d)) = d
    BY <1>2, PutBehind, Zenon
  <2>2. Len(held) \in Nat /\ Len(d) \in Nat
    BY <1>2, LenProperties, SMTT(60)
  <2>3. SubSeq(heldNew, Len(held) + 1, Len(heldNew)) = d /\ Len(heldNew) >= Len(held)
    BY <1>2, <2>1, <2>2, SMTT(60)
  <2> QED
    BY <1>2, <2>3, Zenon DEF FifoMove
<1>3. ASSUME NEW V, held \in Seq(V), NEW m \in 0 .. Len(held), heldNew = SubSeq(held, m + 1, Len(held)),
             outNew = SubSeq(held, 1, m), roomNew = room
      PROVE  FifoMove(held, room, out, heldNew, roomNew, outNew)
  <2>1. Len(heldNew) = Len(held) - m /\ Len(held) \in Nat
    BY <1>3, LenProperties, SMTT(60)
  <2> DEFINE k == Len(held) - Len(heldNew)
  <2>2. k = m /\ k <= Len(held) /\ Len(heldNew) <= Len(held)
    BY <2>1
  <2>3. /\ Len(heldNew) <= Len(held) /\ k <= Len(held)
        /\ heldNew = SubSeq(held, k + 1, Len(held)) /\ outNew = SubSeq(held, 1, k) /\ roomNew = room
    <3> HIDE DEF k
    <3> QED
      BY <1>3, <2>2, Zenon
  <2> QED
    BY <2>3, Zenon DEF FifoMove
<1> QED
  BY <1>1, <1>2, <1>3, Zenon DEF Handles

LEMMA PipeIsSound == PipeInv => PipeSound /\ PipeContents = PipeHeld(pipe)
<1> SUFFICES ASSUME PipeInv PROVE PipeSound /\ PipeContents = PipeHeld(pipe)
  OBVIOUS
<1>1. PipeGood(pipe) /\ pipe_out \in Seq(PipeBytes)
  BY DEF PipeInv
<1>2. /\ [i \in 1 .. pipe.size |-> pipe.buffer[(pipe.read_index + i - 1) % pipe.capacity]] = PipeHeld(pipe)
      /\ Len(PipeHeld(pipe)) = pipe.size
      /\ pipe.capacity # 0 => pipe.write_index = (pipe.read_index + pipe.size) % pipe.capacity
  BY <1>1, PipeContentsHeld, Zenon
<1>3. PipeContents = PipeHeld(pipe)
  BY <1>2, ZenonT(60) DEF PipeContents
<1>4. PipeSound
  BY <1>1, <1>2, <1>3, SMTT(60) DEF PipeSound, PipeGood
<1> QED
  BY <1>3, <1>4

LEMMA RingIsSound == RingInv => RingSound /\ RingContents = RingHeld(ring)
<1> SUFFICES ASSUME RingInv PROVE RingSound /\ RingContents = RingHeld(ring)
  OBVIOUS
<1>1. RingGood(ring) /\ ring_out \in Seq(RingBytes)
  BY DEF RingInv
<1>2. /\ [i \in 1 .. ring.count |-> ring.data[(ring.tail + i - 1) % ring.capacity]] = RingHeld(ring)
      /\ Len(RingHeld(ring)) = ring.count
      /\ ring.capacity # 0 => ring.head = (ring.tail + ring.count) % ring.capacity
  BY <1>1, RingContentsHeld, Zenon
<1>3. RingContents = RingHeld(ring)
  BY <1>2, ZenonT(60) DEF RingContents
<1>4. RingSound
  BY <1>1, <1>2, <1>3 DEF RingSound, RingGood, ring_buf_space
<1> QED
  BY <1>3, <1>4

\* The pipe hands its bytes on in the order they were written, stays consistent,
\* and takes none once its reader has closed, whatever the capacity, the bytes and
\* the sizes of the reads and writes (pipe_read, pipe_write).
THEOREM PipeKeepsOrder == PipeSpec => PipeIsFifo
<1>1. PipeInit => PipePromise!FifoInit
  <2> SUFFICES ASSUME PipeInit PROVE PipePromise!FifoInit
    OBVIOUS
  <2>1. PipeInv /\ PipeHeld(pipe) = << >> /\ pipe.capacity = 0 /\ pipe_out = << >>
    BY PipeStarts
  <2> QED
    BY <2>1, PipeIsSound DEF PipePromise!FifoInit
<1>2. PipeInv /\ [PipeNext]_pipeVars => PipeInv'
  <2>1. CASE UNCHANGED pipeVars
    BY <2>1 DEF PipeInv, pipeVars
  <2> QED
    BY <2>1, PipeSteps
<1>3. PipeInv /\ PipeInv' /\ [PipeNext]_pipeVars => [PipePromise!FifoNext]_<<PipeContents, pipe.capacity, pipe_out>>
  <2> SUFFICES ASSUME PipeInv, PipeInv', [PipeNext]_pipeVars
               PROVE  [PipePromise!FifoNext]_<<PipeContents, pipe.capacity, pipe_out>>
    OBVIOUS
  <2>1. CASE UNCHANGED pipeVars
    BY <2>1 DEF pipeVars, PipeContents
  <2>2. CASE PipeNext
    <3>1. FifoMove(PipeHeld(pipe), pipe.capacity, pipe_out, PipeHeld(pipe'), pipe'.capacity, pipe_out')
      BY <2>2, PipeSteps, HandlesInOrder, SMTT(60) DEF PipeMoves
    <3>2. PipeContents = PipeHeld(pipe) /\ PipeContents' = PipeHeld(pipe')
      <4>1. PipeGood(pipe')
        BY SMTT(60) DEF PipeInv
      <4>2. PipeContents' = PipeHeld(pipe')
        BY <4>1, PipeContentsHeld, SMTT(60) DEF PipeContents
      <4> QED
        BY <4>2, PipeIsSound
    <3>3. FifoMove(PipeContents, pipe.capacity, pipe_out, PipeContents', pipe'.capacity, pipe_out')
      BY <3>1, <3>2, SMTT(60)
    <3>4. pipe'.capacity = pipe.capacity /\ pipe_out' = pipe_out => UNCHANGED <<pipe.capacity, pipe_out>>
      OBVIOUS
    <3>5. PipePromise!FifoNext
      BY ONLY <3>3, <3>4, Zenon
         DEF FifoMove, PipePromise!FifoNext, PipePromise!Open, PipePromise!Put, PipePromise!Take
    <3> QED
      BY <3>5
  <2> QED
    BY <2>1, <2>2, SMTT(60)
<1>4. PipeInv /\ [PipeNext]_pipeVars => [pipe.reader_closed /\ pipe'.reader_closed => pipe'.size <= pipe.size]_pipeVars
  BY PipeSteps DEF PipeMoves
<1> QED
  BY <1>1, <1>2, <1>3, <1>4, PipeStarts, PipeIsSound, PTL
     DEF PipeSpec, PipeIsFifo, DrainsAfterClose, PipePromise!FifoSpec

\* The ring buffer hands its bytes on in the order they were put in and stays
\* consistent, for any mix of single and block operations and after a reset
\* (ring_buf_push, ring_buf_pop, ring_buf_write, ring_buf_read, ring_buf_reset).
THEOREM RingKeepsOrder == RingSpec => RingIsFifo
<1>1. RingInit => RingPromise!FifoInit
  <2> SUFFICES ASSUME RingInit PROVE RingPromise!FifoInit
    OBVIOUS
  <2>1. RingInv /\ RingHeld(ring) = << >> /\ ring.capacity = 0 /\ ring_out = << >>
    BY RingStarts
  <2> QED
    BY <2>1, RingIsSound DEF RingPromise!FifoInit
<1>2. RingInv /\ [RingNext]_ringVars => RingInv'
  <2>1. CASE UNCHANGED ringVars
    BY <2>1 DEF RingInv, ringVars
  <2> QED
    BY <2>1, RingSteps
<1>3. RingInv /\ RingInv' /\ [RingNext]_ringVars => [RingPromise!FifoNext]_<<RingContents, ring.capacity, ring_out>>
  <2> SUFFICES ASSUME RingInv, RingInv', [RingNext]_ringVars
               PROVE  [RingPromise!FifoNext]_<<RingContents, ring.capacity, ring_out>>
    OBVIOUS
  <2>1. CASE UNCHANGED ringVars
    BY <2>1, SMTT(60) DEF ringVars, RingContents
  <2>2. CASE RingNext
    <3>1. FifoMove(RingHeld(ring), ring.capacity, ring_out, RingHeld(ring'), ring'.capacity, ring_out')
      BY <2>2, RingSteps, HandlesInOrder, SMTT(60) DEF RingMoves
    <3>2. RingContents = RingHeld(ring) /\ RingContents' = RingHeld(ring')
      <4>1. RingGood(ring')
        BY DEF RingInv
      <4>2. RingContents' = RingHeld(ring')
        BY <4>1, RingContentsHeld, SMTT(60) DEF RingContents
      <4> QED
        BY <4>2, RingIsSound
    <3>3. FifoMove(RingContents, ring.capacity, ring_out, RingContents', ring'.capacity, ring_out')
      BY <3>1, <3>2
    <3>4. ring'.capacity = ring.capacity /\ ring_out' = ring_out => UNCHANGED <<ring.capacity, ring_out>>
      OBVIOUS
    <3>5. RingPromise!FifoNext
      BY ONLY <3>3, <3>4, Zenon
         DEF FifoMove, RingPromise!FifoNext, RingPromise!Open, RingPromise!Put, RingPromise!Take
    <3> QED
      BY <3>5
  <2> QED
    BY <2>1, <2>2
<1> QED
  BY <1>1, <1>2, <1>3, RingStarts, RingIsSound, PTL
     DEF RingSpec, RingIsFifo, RingPromise!FifoSpec

\* The pipe and the ring buffer hand on what was put in, in order (pipe_read,
\* ring_buf_read).
THEOREM BytesKeepOrder == PipeSpec /\ RingSpec => BytesAreFifo
  BY PipeKeepsOrder, RingKeepsOrder DEF BytesAreFifo
================================================================================
