---------------------------- MODULE ConsoleProofs ----------------------------
(* Proofs about console input and the kernel log, for every buffer size, key  *)
(* sequence and interleaving of interrupt handler, reader and writers.        *)
EXTENDS Console, TLAPS

-------------------------------------------------------------------------------
(***************************************************************************)
(* Sequences, item by item.                                                *)
(***************************************************************************)

LEMMA SeqLen ==
  ASSUME NEW V, NEW s \in Seq(V)
  PROVE  Len(s) \in Nat /\ DOMAIN s = 1 .. Len(s) /\ s \in [1 .. Len(s) -> V]
  OBVIOUS

LEMMA SeqItem ==
  ASSUME NEW V, NEW s \in Seq(V), NEW i \in 1 .. Len(s)
  PROVE  s[i] \in V
  OBVIOUS

LEMMA NoItems ==
  ASSUME NEW V
  PROVE  /\ << >> \in Seq(V) /\ Len(<< >>) = 0
         /\ \A s \in Seq(V) : s # << >> => Len(s) \in Nat \ {0}
  OBVIOUS

LEMMA JoinedItems ==
  ASSUME NEW V, NEW s \in Seq(V), NEW t \in Seq(V)
  PROVE  /\ s \o t \in Seq(V) /\ Len(s \o t) = Len(s) + Len(t)
         /\ \A i \in 1 .. Len(s) + Len(t) :
               (s \o t)[i] = IF i <= Len(s) THEN s[i] ELSE t[i - Len(s)]
  OBVIOUS

LEMMA CutItems ==
  ASSUME NEW V, NEW s, NEW a \in Int, NEW b \in Int, \A i \in a .. b : s[i] \in V
  PROVE  /\ SubSeq(s, a, b) \in Seq(V)
         /\ Len(SubSeq(s, a, b)) = IF a <= b THEN b - a + 1 ELSE 0
         /\ \A i \in 1 .. b - a + 1 : SubSeq(s, a, b)[i] = s[a + i - 1]
  OBVIOUS

LEMMA HeadAndTail ==
  ASSUME NEW V, NEW s \in Seq(V), s # << >>
  PROVE  /\ Head(s) \in V /\ Tail(s) \in Seq(V) /\ Len(Tail(s)) = Len(s) - 1
         /\ \A i \in 1 .. Len(Tail(s)) : Tail(s)[i] = s[i + 1]
  OBVIOUS

LEMMA Appended ==
  ASSUME NEW V, NEW l \in Seq(V), NEW c \in V
  PROVE  LET r == Append(l, c)
         IN  /\ r \in Seq(V) /\ Len(r) = Len(l) + 1 /\ Len(l) \in Nat
             /\ \A i \in 1 .. Len(l) : r[i] = l[i]
             /\ r[Len(l) + 1] = c
  OBVIOUS

LEMMA WithoutLast ==
  ASSUME NEW V, NEW l \in Seq(V), Len(l) # 0
  PROVE  LET r == SubSeq(l, 1, Len(l) - 1)
         IN  /\ r \in Seq(V) /\ Len(r) = Len(l) - 1 /\ Len(l) \in Nat
             /\ \A i \in 1 .. Len(l) - 1 : r[i] = l[i]
<1> DEFINE n == Len(l)
           r == SubSeq(l, 1, n - 1)
<1>1. n \in Nat \ {0}
  BY SeqLen
<1>2. n - 1 \in Int /\ \A i \in 1 .. n - 1 : l[i] \in V
  BY <1>1, SeqItem
<1>3. /\ r \in Seq(V) /\ Len(r) = IF 1 <= n - 1 THEN n - 1 - 1 + 1 ELSE 0
      /\ \A i \in 1 .. n - 1 - 1 + 1 : r[i] = l[1 + i - 1]
  BY <1>2, CutItems
<1> HIDE DEF n, r
<1>4. (IF 1 <= n - 1 THEN n - 1 - 1 + 1 ELSE 0) = n - 1
  BY <1>1
<1>5. ASSUME NEW i \in 1 .. n - 1 PROVE r[i] = l[i]
  <2>1. i \in 1 .. n - 1 - 1 + 1 /\ 1 + i - 1 = i
    BY <1>1
  <2> QED
    BY <1>3, <2>1
<1>6. Len(r) = n - 1
  BY <1>3, <1>4, Zenon
<1> QED
  BY <1>1, <1>3, <1>5, <1>6 DEF n, r

LEMMA WithoutFirst ==
  ASSUME NEW V, NEW l \in Seq(V), Len(l) # 0
  PROVE  LET r == Tail(l)
         IN  /\ r \in Seq(V) /\ Len(r) = Len(l) - 1 /\ Len(l) \in Nat
             /\ \A i \in 1 .. Len(l) - 1 : r[i] = l[i + 1]
             /\ Head(l) = l[1]
  BY SeqLen, HeadAndTail, NoItems

-------------------------------------------------------------------------------
(***************************************************************************)
(* Console input.                                                          *)
(***************************************************************************)

Char == [n : Nat, shifted : BOOLEAN, newline : BOOLEAN]

\* Where position k, counted from the start of a ring of c slots, lies.
Slot(k, c) == IF k < c THEN k ELSE k - c

\* From tail t to head h the ring b holds l.
RingHolds(b, h, t, l) ==
    /\ l \in Seq(Char) /\ Len(l) < InputCapacity
    /\ h = Slot(t + Len(l), InputCapacity)
    /\ \A i \in 1 .. Len(l) : b[Slot(t + i - 1, InputCapacity)] = l[i]

Indices == 0 .. InputCapacity - 1

LEMMA SlotRange ==
  ASSUME NEW c \in Nat, NEW t \in 0 .. c - 1, NEW i \in 0 .. c
  PROVE  Slot(t + i, c) \in 0 .. c - 1 /\ (t + i) % c = Slot(t + i, c)
<1>1. CASE t + i < c
  BY <1>1 DEF Slot
<1>2. CASE ~(t + i < c)
  <2>1. (t + i) = 1 * c + (t + i - c) /\ t + i - c \in 0 .. c - 1
    BY <1>2
  <2> QED
    BY <1>2, <2>1 DEF Slot
<1> QED
  BY <1>1, <1>2

\* Two positions less than a round apart are two slots.
LEMMA SlotsDiffer ==
  ASSUME NEW c \in Nat, NEW t \in 0 .. c - 1, NEW i \in 0 .. c - 1, NEW j \in 0 .. c - 1, i # j
  PROVE  Slot(t + i, c) # Slot(t + j, c)
  BY DEF Slot

LEMMA NextIndex ==
  ASSUME NEW t \in Indices
  PROVE  next_index(t) = Slot(t + 1, InputCapacity) /\ next_index(t) \in Indices
  BY SlotRange, ConsoleConstants DEF next_index, Indices

LEMMA RingPutChar ==
  ASSUME NEW b \in [Indices -> Char], NEW h, NEW t \in Indices, NEW l, NEW c \in Char,
         RingHolds(b, h, t, l), next_index(h) # t
  PROVE  RingHolds([b EXCEPT ![h] = c], next_index(h), t, Append(l, c))
<1> DEFINE n == Len(l)
           IC == InputCapacity
           r == Append(l, c)
<1>1. IC \in Nat /\ IC > 1 /\ t \in 0 .. IC - 1
  BY ConsoleConstants DEF Indices
<1>2. l \in Seq(Char) /\ n \in Nat /\ n < IC /\ h = Slot(t + n, IC)
  BY SeqLen DEF RingHolds
<1>3. /\ r \in Seq(Char) /\ Len(r) = n + 1
      /\ \A i \in 1 .. n : r[i] = l[i]
      /\ r[n + 1] = c
  BY <1>2, Appended
<1> HIDE DEF r, n
<1>4. h \in Indices /\ next_index(h) = Slot(h + 1, IC)
  BY <1>1, <1>2, NextIndex, SMTT(60) DEF Slot, Indices
<1>5. n + 1 < IC
  BY <1>1, <1>2, <1>4 DEF Slot
<1>6. next_index(h) = Slot(t + (n + 1), IC)
  BY <1>1, <1>2, <1>4, <1>5 DEF Slot
<1>7. ASSUME NEW i \in 1 .. n + 1
      PROVE  [b EXCEPT ![h] = c][Slot(t + i - 1, IC)] = r[i]
  <2>1. Slot(t + i - 1, IC) \in Indices
    BY <1>1, <1>2, <1>5 DEF Slot, Indices
  <2>2. CASE i = n + 1
    BY <1>2, <1>3, <1>4, <2>2
  <2>3. CASE i # n + 1
    <3>1. i \in 1 .. n /\ Slot(t + i - 1, IC) # h
      BY <1>1, <1>2, <1>5, <2>3 DEF Slot
    <3>2. b[Slot(t + i - 1, IC)] = l[i]
      BY <3>1 DEF RingHolds, n
    <3> QED
      BY <1>3, <2>1, <3>1, <3>2
  <2> QED
    BY <2>2, <2>3
<1> QED
  BY <1>3, <1>5, <1>6, <1>7, Zenon DEF RingHolds, r

LEMMA RingErase ==
  ASSUME NEW b, NEW h, NEW t \in Indices, NEW l, RingHolds(b, h, t, l), h # t
  PROVE  /\ Len(l) \in Nat \ {0}
         /\ RingHolds(b, IF h = 0 THEN InputCapacity - 1 ELSE h - 1, t, SubSeq(l, 1, Len(l) - 1))
<1> DEFINE n == Len(l)
           IC == InputCapacity
           r == SubSeq(l, 1, Len(l) - 1)
<1>1. IC \in Nat /\ IC > 1 /\ t \in 0 .. IC - 1
  BY ConsoleConstants DEF Indices
<1>2. l \in Seq(Char) /\ n \in Nat /\ n < IC /\ h = Slot(t + n, IC)
  BY SeqLen DEF RingHolds
<1>3. n # 0
  BY <1>1, <1>2 DEF Slot
<1>4. r \in Seq(Char) /\ Len(r) = n - 1 /\ \A i \in 1 .. n - 1 : r[i] = l[i]
  BY <1>2, <1>3, WithoutLast, Zenon
<1>5. (IF h = 0 THEN IC - 1 ELSE h - 1) = Slot(t + (n - 1), IC)
  BY <1>1, <1>2, <1>3 DEF Slot
<1>6. \A i \in 1 .. n - 1 : b[Slot(t + i - 1, IC)] = r[i]
  <2> TAKE i \in 1 .. n - 1
  <2>1. i \in 1 .. n
    BY <1>2
  <2>2. b[Slot(t + i - 1, IC)] = l[i]
    BY <2>1 DEF RingHolds
  <2> QED
    BY <1>4, <2>2, Zenon
<1>7. n - 1 < IC
  BY <1>1, <1>2
<1> HIDE DEF r
<1>8. RingHolds(b, IF h = 0 THEN IC - 1 ELSE h - 1, t, r)
  BY <1>4, <1>5, <1>6, <1>7, Zenon DEF RingHolds
<1> QED
  BY <1>2, <1>3, <1>8 DEF r

LEMMA RingTakeChar ==
  ASSUME NEW b, NEW h, NEW t \in Indices, NEW l, RingHolds(b, h, t, l), l # << >>
  PROVE  /\ b[t] = l[1] /\ Len(l) # 0
         /\ RingHolds(b, h, next_index(t), Tail(l))
<1> DEFINE n == Len(l)
           IC == InputCapacity
           r == Tail(l)
<1>1. IC \in Nat /\ IC > 1 /\ t \in 0 .. IC - 1
  BY ConsoleConstants DEF Indices
<1>2. l \in Seq(Char) /\ n \in Nat /\ n < IC /\ h = Slot(t + n, IC)
  BY SeqLen DEF RingHolds
<1>3. n # 0
  BY <1>2, NoItems
<1>4. r \in Seq(Char) /\ Len(r) = n - 1 /\ \A i \in 1 .. n - 1 : r[i] = l[i + 1]
  BY <1>2, <1>3, WithoutFirst, Zenon
<1>5. next_index(t) = Slot(t + 1, IC)
  BY NextIndex
<1>6. h = Slot(next_index(t) + (n - 1), IC)
  BY <1>1, <1>2, <1>3, <1>5 DEF Slot
<1>7. b[t] = l[1]
  <2>1. 1 \in 1 .. n /\ Slot(t + 1 - 1, IC) = t
    BY <1>1, <1>2, <1>3 DEF Slot
  <2>2. b[Slot(t + 1 - 1, IC)] = l[1]
    BY <2>1 DEF RingHolds
  <2> QED
    BY <2>1, <2>2
<1>8. \A i \in 1 .. n - 1 : b[Slot(next_index(t) + i - 1, IC)] = r[i]
  <2> TAKE i \in 1 .. n - 1
  <2>1. i + 1 \in 1 .. n /\ Slot(t + (i + 1) - 1, IC) = Slot(next_index(t) + i - 1, IC)
    BY <1>1, <1>2, <1>5 DEF Slot
  <2>2. b[Slot(t + (i + 1) - 1, IC)] = l[i + 1]
    BY <2>1 DEF RingHolds
  <2> QED
    BY <1>4, <2>1, <2>2
<1>9. n - 1 < IC
  BY <1>1, <1>2
<1> HIDE DEF r
<1>10. RingHolds(b, h, next_index(t), r)
  BY <1>4, <1>6, <1>8, <1>9, Zenon DEF RingHolds
<1> QED
  BY <1>3, <1>7, <1>10 DEF r

LEMMA RingEmpty ==
  ASSUME NEW b, NEW h, NEW t \in Indices, NEW l, RingHolds(b, h, t, l)
  PROVE  t # h => l # << >>
<1>1. InputCapacity \in Nat /\ t \in 0 .. InputCapacity - 1
  BY ConsoleConstants DEF Indices
<1> QED
  BY <1>1 DEF RingHolds, Slot

\* What the ring holds is its contents as console_pending counts them.
LEMMA RingContents ==
  ASSUME input_head \in Indices, input_tail \in Indices, NEW l,
         RingHolds(input_buffer, input_head, input_tail, l)
  PROVE  InputContents = l
<1> DEFINE n == Len(l)
           IC == InputCapacity
<1>1. /\ IC \in Nat /\ IC > 1 /\ input_tail \in 0 .. IC - 1
      /\ l \in Seq(Char) /\ n \in Nat /\ n < IC /\ input_head = Slot(input_tail + n, IC)
  BY ConsoleConstants, SeqLen DEF Indices, RingHolds
<1>2. console_pending = n
  BY <1>1 DEF console_pending, Slot
<1>3. ASSUME NEW i \in 1 .. n
      PROVE  input_buffer[(input_tail + i - 1) % IC] = l[i]
  <2>1. i - 1 \in 0 .. IC /\ (input_tail + i - 1) = input_tail + (i - 1)
    BY <1>1
  <2>2. (input_tail + (i - 1)) % IC = Slot(input_tail + (i - 1), IC)
    BY <1>1, <2>1, SlotRange, Zenon
  <2> QED
    BY <2>1, <2>2 DEF RingHolds
<1>4. InputContents = [i \in 1 .. n |-> l[i]]
  BY <1>2, <1>3, Zenon DEF InputContents
<1>5. l = [i \in 1 .. n |-> l[i]]
  BY <1>1
<1> QED
  BY <1>4, <1>5

\* The characters of l were typed in this order, at or before press m, and none of
\* them is among the handed ones, which were typed by then too.
Apart(l, given, m) ==
    /\ \A i \in 1 .. Len(l) : l[i].n <= m /\ l[i].n \notin given
    /\ \A i, j \in 1 .. Len(l) : i < j => l[i].n < l[j].n
    /\ \A x \in given : x \in Nat /\ x <= m

LEMMA CharNumbers ==
  ASSUME NEW l \in Seq(Char)
  PROVE  Len(l) \in Nat /\ \A i \in 1 .. Len(l) : l[i].n \in Nat
<1>1. Len(l) \in Nat
  BY SeqLen
<1>2. ASSUME NEW i \in 1 .. Len(l) PROVE l[i].n \in Nat
  <2>1. l[i] \in Char
    BY SeqItem, Zenon
  <2> QED
    BY <2>1 DEF Char
<1> QED
  BY <1>1, <1>2

LEMMA ApartLater ==
  ASSUME NEW l \in Seq(Char), NEW given, NEW m \in Int, Apart(l, given, m)
  PROVE  Apart(l, given, m + 1)
<1>1. Len(l) \in Nat /\ \A i \in 1 .. Len(l) : l[i].n \in Nat
  BY CharNumbers
<1> QED
  BY <1>1 DEF Apart

LEMMA ApartPut ==
  ASSUME NEW l \in Seq(Char), NEW given, NEW m \in Int, Apart(l, given, m),
         NEW c \in Char, c.n = m + 1
  PROVE  Apart(Append(l, c), given, m + 1)
<1> DEFINE r == Append(l, c)
           n == Len(l)
<1>1. n \in Nat /\ \A i \in 1 .. n : l[i].n \in Nat
  BY CharNumbers
<1>2. Len(r) = n + 1 /\ (\A i \in 1 .. n : r[i] = l[i]) /\ r[n + 1] = c
  BY Appended
<1> HIDE DEF r
<1>3. \A x \in given : x \in Nat /\ x <= m /\ x <= m + 1
  BY DEF Apart
<1>4. ASSUME NEW i \in 1 .. n + 1 PROVE r[i].n <= m + 1 /\ r[i].n \notin given
  <2>1. CASE i = n + 1
    BY <1>2, <1>3, <2>1
  <2>2. CASE i # n + 1
    <3>1. i \in 1 .. n /\ r[i] = l[i]
      BY <1>1, <1>2, <2>2
    <3>2. l[i].n <= m /\ l[i].n \notin given /\ l[i].n \in Nat
      BY <1>1, <3>1 DEF Apart
    <3> QED
      BY <3>1, <3>2
  <2> QED
    BY <2>1, <2>2
<1>5. ASSUME NEW i \in 1 .. n + 1, NEW j \in 1 .. n + 1, i < j PROVE r[i].n < r[j].n
  <2>1. i \in 1 .. n /\ r[i] = l[i]
    BY <1>1, <1>2, <1>5
  <2>2. CASE j = n + 1
    <3>1. l[i].n <= m /\ l[i].n \in Nat
      BY <1>1, <2>1 DEF Apart
    <3> QED
      BY <1>2, <2>1, <2>2, <3>1
  <2>3. CASE j # n + 1
    <3>1. j \in 1 .. n /\ r[j] = l[j]
      BY <1>1, <1>2, <2>3
    <3> QED
      BY <1>5, <2>1, <3>1 DEF Apart
  <2> QED
    BY <2>2, <2>3
<1>6. Apart(r, given, m + 1)
  BY <1>2, <1>3, <1>4, <1>5 DEF Apart
<1> QED
  BY <1>6 DEF r

LEMMA ApartErase ==
  ASSUME NEW l \in Seq(Char), NEW given, NEW m, Apart(l, given, m), Len(l) # 0
  PROVE  Apart(SubSeq(l, 1, Len(l) - 1), given, m)
<1> DEFINE r == SubSeq(l, 1, Len(l) - 1)
           n == Len(l)
<1>1. n \in Nat /\ Len(r) = n - 1 /\ \A i \in 1 .. n - 1 : r[i] = l[i]
  BY WithoutLast
<1> HIDE DEF r
<1>2. \A i \in 1 .. n - 1 : i \in 1 .. n
  BY <1>1
<1>3. \A i \in 1 .. n - 1 : r[i].n <= m /\ r[i].n \notin given
  BY <1>1, <1>2 DEF Apart
<1>4. \A i, j \in 1 .. n - 1 : i < j => r[i].n < r[j].n
  BY <1>1, <1>2 DEF Apart
<1>5. \A x \in given : x \in Nat /\ x <= m
  BY DEF Apart
<1>6. Apart(r, given, m)
  BY <1>1, <1>3, <1>4, <1>5 DEF Apart
<1> QED
  BY <1>6 DEF r

LEMMA ApartTake ==
  ASSUME NEW l \in Seq(Char), NEW given, NEW m, Apart(l, given, m), Len(l) # 0
  PROVE  l[1].n \notin given /\ Apart(Tail(l), given \cup {l[1].n}, m)
<1> DEFINE r == Tail(l)
           n == Len(l)
<1>1. n \in Nat /\ Len(r) = n - 1 /\ \A i \in 1 .. n - 1 : r[i] = l[i + 1]
  BY WithoutFirst
<1>2. \A i \in 1 .. n : l[i].n \in Nat
  BY CharNumbers
<1> HIDE DEF r
<1>3. 1 \in 1 .. n /\ \A i \in 1 .. n - 1 : i + 1 \in 1 .. n /\ 1 < i + 1
  BY <1>1
<1>4. l[1].n \notin given /\ l[1].n \in Nat /\ l[1].n <= m
  BY <1>2, <1>3 DEF Apart
<1>5. ASSUME NEW i \in 1 .. n - 1
      PROVE  r[i].n <= m /\ r[i].n \notin given \cup {l[1].n}
  <2>1. r[i] = l[i + 1] /\ i + 1 \in 1 .. n
    BY <1>1, <1>3
  <2>2. l[i + 1].n <= m /\ l[i + 1].n \notin given
    BY <2>1 DEF Apart
  <2>3. l[1].n < l[i + 1].n
    BY <1>3, <2>1 DEF Apart
  <2>4. l[i + 1].n # l[1].n
    BY <1>2, <1>4, <2>1, <2>3
  <2> QED
    BY <2>1, <2>2, <2>4
<1>6. ASSUME NEW i \in 1 .. n - 1, NEW j \in 1 .. n - 1, i < j PROVE r[i].n < r[j].n
  <2>1. /\ r[i] = l[i + 1] /\ i + 1 \in 1 .. n
        /\ r[j] = l[j + 1] /\ j + 1 \in 1 .. n /\ i + 1 < j + 1
    BY <1>1, <1>3, <1>6
  <2> QED
    BY <2>1 DEF Apart
<1>7. \A x \in given \cup {l[1].n} : x \in Nat /\ x <= m
  BY <1>4 DEF Apart
<1>8. Apart(r, given \cup {l[1].n}, m)
  BY <1>1, <1>5, <1>6, <1>7 DEF Apart
<1> QED
  BY <1>4, <1>8 DEF r

LEMMA ApartHand ==
  ASSUME NEW l \in Seq(Char), NEW given, NEW m \in Int, m + 1 \in Nat, Apart(l, given, m)
  PROVE  m + 1 \notin given /\ Apart(l, given \cup {m + 1}, m + 1)
<1>1. Len(l) \in Nat /\ \A i \in 1 .. Len(l) : l[i].n \in Nat /\ l[i].n <= m /\ l[i].n # m + 1
  BY CharNumbers DEF Apart
<1>2. \A x \in given : x \in Nat /\ x <= m /\ x # m + 1 /\ x <= m + 1
  BY DEF Apart
<1>3. \A i \in 1 .. Len(l) : l[i].n <= m + 1 /\ l[i].n \notin given \cup {m + 1}
  BY <1>1 DEF Apart
<1>4. \A x \in given \cup {m + 1} : x \in Nat /\ x <= m + 1
  BY <1>2
<1> QED
  BY <1>2, <1>3, <1>4 DEF Apart

-------------------------------------------------------------------------------
\* What console_read keeps in its registers.
ReadTypes ==
    /\ read_pc \in {"idle", "check", "status", "data", "load", "advance"}
    /\ read_ch \in Char /\ read_count \in Nat /\ out \in Seq(Char) /\ Len(out) <= read_count
    /\ read_pc \notin {"idle", "check"} => Len(out) < read_count

InputTypes ==
    /\ input_buffer \in [Indices -> Char] /\ input_head \in Indices /\ input_tail \in Indices
    /\ shift_down \in BOOLEAN /\ full \in BOOLEAN
    /\ port.n = presses /\ presses \in Nat /\ port.down \in BOOLEAN
    /\ twice \in BOOLEAN /\ raced \in BOOLEAN /\ stale \in BOOLEAN
    /\ ReadTypes

\* The ring holds the line, and console_read holds its oldest character.
LineHolds ==
    /\ RingHolds(input_buffer, input_head, input_tail, line)
    /\ read_pc \in {"load", "advance"} => line # << >>
    /\ read_pc = "advance" => read_ch = line[1]

\* The last press whose byte was read.
Latest == IF full THEN presses - 1 ELSE presses

InputInv ==
    /\ InputTypes
    /\ ~ raced => LineHolds
    /\ ~ raced /\ ~ stale => ~ twice /\ Apart(line, handed, Latest)

LEMMA InputInitially == ConsoleInit => InputInv
<1> SUFFICES ASSUME ConsoleInit PROVE InputInv
  OBVIOUS
<1>1. NoChar \in Char /\ InputCapacity \in Nat /\ InputCapacity > 1
  BY ConsoleConstants DEF NoChar, Char
<1>2. InputTypes
  <2>1. ReadTypes
    BY <1>1 DEF ConsoleInit, ReadTypes
  <2>2. input_buffer \in [Indices -> Char] /\ input_head \in Indices /\ input_tail \in Indices
    BY <1>1 DEF ConsoleInit, Indices
  <2>3. port.n = presses /\ presses \in Nat /\ port.down \in BOOLEAN
    BY DEF ConsoleInit, NoCode
  <2> QED
    BY <2>1, <2>2, <2>3, SMTT(60) DEF InputTypes, ConsoleInit
<1>3. LineHolds
  BY <1>1 DEF ConsoleInit, LineHolds, RingHolds, Slot
<1>4. Apart(line, handed, Latest)
  BY DEF ConsoleInit, Apart
<1> QED
  BY <1>2, <1>3, <1>4 DEF InputInv, ConsoleInit

\* A step of the reader that touches neither the ring nor the keyboard.
LEMMA ReaderStep ==
  ASSUME InputInv, UNCHANGED <<input_ring, shift_down, port, full, presses, history>>,
         ReadTypes', LineHolds => LineHolds'
  PROVE  InputInv'
<1>1. UNCHANGED <<input_buffer, input_head, input_tail, line, handed, twice, raced, stale>>
  BY DEF input_ring, history
<1>2. InputTypes'
  BY <1>1 DEF InputInv, InputTypes
<1>3. Apart(line, handed, Latest)' = Apart(line, handed, Latest)
  BY <1>1 DEF Apart, Latest
<1> QED
  BY <1>1, <1>2, <1>3, Zenon DEF InputInv

LEMMA PressKeeps ==
  ASSUME InputInv, NEW key, NEW down \in BOOLEAN, Press(key, down)
  PROVE  InputInv'
<1>1. /\ ~ full /\ full' = TRUE /\ presses' = presses + 1
      /\ port' = [key |-> key, down |-> down, n |-> presses + 1]
      /\ UNCHANGED <<input_buffer, input_head, input_tail, shift_down, line, handed, twice, raced, stale>>
      /\ UNCHANGED <<read_pc, read_ch, read_count, out>>
  BY DEF Press, input_ring, reader, history
<1>2. InputTypes'
  BY <1>1 DEF InputInv, InputTypes, ReadTypes
<1>3. LineHolds' = LineHolds
  BY <1>1 DEF LineHolds
<1>4. Latest' = Latest
  BY <1>1, SMTT(60) DEF InputInv, InputTypes, Latest
<1>5. Apart(line, handed, Latest)' = Apart(line, handed, Latest)
  BY <1>1, <1>4 DEF Apart
<1> QED
  BY <1>1, <1>2, <1>3, <1>5, Zenon DEF InputInv

\* What the handler does to the ring: nothing, erase the newest or add the newest.
Kept == UNCHANGED <<input_buffer, input_head, input_tail, line, raced>>

Erased ==
    /\ input_head # input_tail
    /\ input_head' = IF input_head = 0 THEN InputCapacity - 1 ELSE input_head - 1
    /\ line' = SubSeq(line, 1, Len(line) - 1)
    /\ raced' = (raced \/ (read_pc \in {"load", "advance"} /\ Len(line) = 1))
    /\ UNCHANGED <<input_buffer, input_tail>>

Added ==
    /\ next_index(input_head) # input_tail
    /\ input_buffer' = [input_buffer EXCEPT ![input_head] = CharOf(port)]
    /\ input_head' = next_index(input_head)
    /\ line' = Append(line, CharOf(port))
    /\ UNCHANGED <<input_tail, raced>>

LEMMA EventCases ==
  ASSUME keyboard_irq
  PROVE  Kept \/ Erased \/ Added
<1>1. CASE port.key = "shift"
  BY <1>1 DEF keyboard_irq, Kept, input_ring
<1>2. CASE port.key # "shift"
  <2>1. console_keyboard_event(port)
    BY <1>2, Zenon DEF keyboard_irq
  <2> QED
    BY <2>1 DEF console_keyboard_event, Kept, Erased, Added, input_ring
<1> QED
  BY <1>1, <1>2

LEMMA IrqKeeps ==
  ASSUME InputInv, keyboard_irq
  PROVE  InputInv'
<1>1. /\ full' = FALSE /\ stale' = (stale \/ ~ full)
      /\ UNCHANGED <<port, presses, read_pc, read_ch, read_count, out, handed, twice>>
  BY DEF keyboard_irq, ReadPort, reader
<1>2. InputTypes
  BY DEF InputInv
<1>3. /\ input_buffer \in [Indices -> Char] /\ input_head \in Indices /\ input_tail \in Indices
      /\ InputCapacity \in Nat /\ InputCapacity > 1 /\ CharOf(port) \in Char /\ CharOf(port).n = presses
      /\ presses \in Nat
  BY <1>2, ConsoleConstants DEF InputTypes, CharOf, Char
<1>4. shift_down' \in BOOLEAN
  BY <1>2 DEF keyboard_irq, InputTypes
<1>5. /\ input_buffer' \in [Indices -> Char] /\ input_head' \in Indices /\ input_tail' \in Indices
      /\ raced' \in BOOLEAN /\ (~ raced' => ~ raced)
  <2>1. CASE Kept
    BY <1>2, <2>1 DEF Kept, InputTypes
  <2>2. CASE Erased
    <3>1. input_head' \in Indices
      BY <1>3, <2>2 DEF Erased, Indices
    <3>2. raced' \in BOOLEAN /\ (~ raced' => ~ raced)
      BY <2>2, Zenon DEF Erased
    <3> QED
      BY <1>3, <2>2, <3>1, <3>2 DEF Erased
  <2>3. CASE Added
    <3>1. input_head' \in Indices
      BY <1>3, <2>3, NextIndex, Zenon DEF Added
    <3>2. input_buffer' \in [Indices -> Char]
      BY <1>3, <2>3 DEF Added
    <3> QED
      BY <1>2, <2>3, <3>1, <3>2 DEF Added, InputTypes
  <2> QED
    BY <2>1, <2>2, <2>3, EventCases, Zenon
<1>6. stale' \in BOOLEAN /\ (~ stale' => ~ stale /\ full)
  BY <1>1, Zenon
<1>7. InputTypes'
  BY <1>1, <1>2, <1>4, <1>5, <1>6, Zenon DEF InputTypes, ReadTypes
<1>8. ASSUME ~ raced' PROVE LineHolds'
  <2>1. LineHolds
    BY <1>5, <1>8, Zenon DEF InputInv
  <2>2. RingHolds(input_buffer, input_head, input_tail, line) /\ line \in Seq(Char)
    BY <2>1 DEF LineHolds, RingHolds
  <2>3. CASE Kept
    BY <1>1, <2>1, <2>3 DEF Kept, LineHolds
  <2>4. CASE Erased
    <3>1. /\ Len(line) \in Nat \ {0}
          /\ RingHolds(input_buffer', input_head', input_tail', line')
      <4>1. input_head # input_tail /\ input_buffer' = input_buffer /\ input_tail' = input_tail
        BY <2>4 DEF Erased
      <4> QED
        BY <1>3, <2>2, <2>4, <4>1, RingErase, Zenon DEF Erased
    <3>2. read_pc \in {"load", "advance"} => Len(line) # 1
      BY <1>8, <2>4, Zenon DEF Erased
    <3>3. Len(line') = Len(line) - 1 /\ \A i \in 1 .. Len(line) - 1 : line'[i] = line[i]
      BY <2>2, <2>4, <3>1, WithoutLast DEF Erased
    <3>4. read_pc \in {"load", "advance"} => line' # << >> /\ line'[1] = line[1]
      BY <3>1, <3>2, <3>3
    <3> QED
      BY <1>1, <2>1, <3>1, <3>4 DEF LineHolds
  <2>5. CASE Added
    <3>1. RingHolds(input_buffer', input_head', input_tail', line')
      <4>1. input_tail' = input_tail /\ next_index(input_head) # input_tail
        BY <2>5 DEF Added
      <4> QED
        BY <1>3, <2>2, <2>5, <4>1, RingPutChar, Zenon DEF Added
    <3>2. /\ Len(line') = Len(line) + 1 /\ Len(line) \in Nat
          /\ \A i \in 1 .. Len(line) : line'[i] = line[i]
      BY <1>3, <2>2, <2>5, Appended DEF Added
    <3>3. line' # << >>
      BY <3>2
    <3>4. line # << >> => line'[1] = line[1]
      BY <2>2, <3>2
    <3> QED
      BY <1>1, <2>1, <3>1, <3>3, <3>4 DEF LineHolds
  <2> QED
    BY <2>3, <2>4, <2>5, EventCases, Zenon
<1>9. ASSUME ~ raced', ~ stale' PROVE ~ twice' /\ Apart(line, handed, Latest)'
  <2>1. ~ raced /\ ~ stale /\ full
    BY <1>5, <1>6, <1>9, Zenon
  <2>2. LineHolds /\ ~ twice /\ Apart(line, handed, Latest)
    BY <2>1, Zenon DEF InputInv
  <2>3. line \in Seq(Char) /\ RingHolds(input_buffer, input_head, input_tail, line)
    BY <2>2 DEF LineHolds, RingHolds
  <2> DEFINE m == presses - 1
  <2>4. m \in Int /\ m + 1 = presses /\ Latest = m /\ Latest' = m + 1
    BY <1>1, <1>3, <2>1 DEF Latest
  <2>5. Apart(line, handed, m)
    BY <2>2, <2>4
  <2>6. handed' = handed /\ ~ twice'
    BY <1>1, <2>2
  <2> HIDE DEF m
  <2>7. Apart(line', handed, m + 1)
    <3>1. CASE Kept
      <4>1. line' = line
        BY <3>1 DEF Kept
      <4> QED
        BY <2>3, <2>4, <2>5, <4>1, ApartLater
    <3>2. CASE Erased
      <4>1. line' = SubSeq(line, 1, Len(line) - 1) /\ input_head # input_tail
        BY <3>2 DEF Erased
      <4>2. Len(line) # 0
        BY <1>3, <2>3, <4>1, RingErase
      <4>3. Apart(line', handed, m)
        BY <2>3, <2>5, <4>1, <4>2, ApartErase, Zenon
      <4>4. line' \in Seq(Char)
        BY <2>3, <4>1, <4>2, WithoutLast, Zenon
      <4> QED
        BY <2>4, <4>3, <4>4, ApartLater, Zenon
    <3>3. CASE Added
      <4>1. line' = Append(line, CharOf(port))
        BY <3>3 DEF Added
      <4> QED
        BY <1>3, <2>3, <2>4, <2>5, <4>1, ApartPut
    <3> QED
      BY <3>1, <3>2, <3>3, EventCases, Zenon
  <2>8. Apart(line', handed', Latest')
    BY <2>4, <2>6, <2>7
  <2> QED
    BY <2>6, <2>8 DEF Apart, Latest
<1> QED
  BY <1>7, <1>8, <1>9, Zenon DEF InputInv

LEMMA ReadKeeps ==
  ASSUME InputInv, NEW n \in ReadCounts, NEW block \in BOOLEAN, NEW interrupts \in BOOLEAN,
         console_read(n, block, interrupts)
  PROVE  InputInv'
<1>1. /\ read_pc' = "check" /\ read_count' = n /\ out' = << >> /\ read_ch' = read_ch
      /\ UNCHANGED <<input_ring, shift_down, port, full, presses, history>>
  BY DEF console_read, device
<1>2. ReadTypes'
  <2>1. n \in Nat /\ read_ch \in Char
    BY ConsoleConstants DEF InputInv, InputTypes, ReadTypes
  <2> QED
    BY <1>1, <2>1 DEF ReadTypes
<1>3. LineHolds => LineHolds'
  BY <1>1 DEF LineHolds, input_ring, history
<1> QED
  BY <1>1, <1>2, <1>3, ReaderStep

LEMMA CheckKeeps ==
  ASSUME InputInv, check
  PROVE  InputInv'
<1>1. /\ read_pc = "check" /\ UNCHANGED <<read_ch, read_count, out>>
      /\ UNCHANGED <<input_ring, shift_down, port, full, presses, history>>
  BY DEF check, device
<1>2. ReadTypes /\ input_tail \in Indices
  BY DEF InputInv, InputTypes
<1>3. Len(out) \in Nat /\ read_count \in Nat /\ Len(out) <= read_count
  BY <1>2, SeqLen DEF ReadTypes
<1>4. \/ read_pc' = "idle"
      \/ Len(out) < read_count /\ input_tail # input_head /\ read_pc' = "load"
      \/ Len(out) < read_count /\ read_pc' = "status"
  <2>1. CASE Len(out) = read_count
    <3>1. ~ (Len(out) < read_count)
      BY <1>3, <2>1
    <3> QED
      BY <2>1, <3>1, Zenon DEF check, Return
  <2>2. CASE Len(out) # read_count
    <3>1. Len(out) < read_count
      BY <1>3, <2>2
    <3>2. CASE input_tail # input_head
      BY <2>2, <3>1, <3>2, Zenon DEF check
    <3>3. CASE input_tail = input_head
      BY <2>2, <3>1, <3>3 DEF check, Return
    <3> QED
      BY <3>2, <3>3
  <2> QED
    BY <2>1, <2>2
<1>5. ReadTypes'
  BY <1>1, <1>2, <1>4 DEF ReadTypes
<1>6. ASSUME LineHolds PROVE LineHolds'
  <2>1. UNCHANGED <<input_buffer, input_head, input_tail, line>>
    BY <1>1 DEF input_ring, history
  <2>2. RingHolds(input_buffer, input_head, input_tail, line)
    BY <1>6 DEF LineHolds
  <2>3. read_pc' \in {"load", "advance"} => read_pc' = "load" /\ input_tail # input_head
    BY <1>4
  <2>4. input_tail # input_head => line # << >>
    BY <1>2, <2>2, RingEmpty
  <2> QED
    BY <2>1, <2>2, <2>3, <2>4 DEF LineHolds
<1> QED
  BY <1>1, <1>5, <1>6, ReaderStep

LEMMA StatusKeeps ==
  ASSUME InputInv, poll_status
  PROVE  InputInv'
<1>1. /\ read_pc = "status" /\ read_pc' \in {"data", "check"} /\ UNCHANGED <<read_ch, read_count, out>>
      /\ UNCHANGED <<input_ring, shift_down, port, full, presses, history>>
  BY DEF poll_status, device
<1>2. ReadTypes'
  BY <1>1 DEF InputInv, InputTypes, ReadTypes
<1>3. LineHolds => LineHolds'
  BY <1>1 DEF LineHolds, input_ring, history
<1> QED
  BY <1>1, <1>2, <1>3, ReaderStep

LEMMA LoadKeeps ==
  ASSUME InputInv, load
  PROVE  InputInv'
<1>1. /\ read_pc = "load" /\ read_pc' = "advance" /\ read_ch' = input_buffer[input_tail]
      /\ UNCHANGED <<read_count, out>>
      /\ UNCHANGED <<input_ring, shift_down, port, full, presses, history>>
  BY DEF load, device
<1>2. ReadTypes /\ input_buffer \in [Indices -> Char] /\ input_tail \in Indices
  BY DEF InputInv, InputTypes
<1>3. read_ch' \in Char
  BY <1>1, <1>2
<1>4. ReadTypes'
  BY <1>1, <1>2, <1>3 DEF ReadTypes
<1>5. ASSUME LineHolds PROVE LineHolds'
  <2>1. UNCHANGED <<input_buffer, input_head, input_tail, line>>
    BY <1>1 DEF input_ring, history
  <2>2. RingHolds(input_buffer, input_head, input_tail, line) /\ line # << >>
    BY <1>1, <1>5 DEF LineHolds
  <2>3. read_ch' = line[1]
    BY <1>1, <1>2, <2>2, RingTakeChar, Zenon
  <2> QED
    BY <1>1, <2>1, <2>2, <2>3 DEF LineHolds
<1> QED
  BY <1>1, <1>4, <1>5, ReaderStep

LEMMA DataKeeps ==
  ASSUME InputInv, poll_data
  PROVE  InputInv'
<1>1. /\ read_pc = "data" /\ full' = FALSE /\ stale' = (stale \/ ~ full)
      /\ UNCHANGED <<input_buffer, input_head, input_tail, port, presses, read_ch, read_count, line, raced>>
  BY DEF poll_data, ReadPort, input_ring
<1>2. InputTypes /\ ReadTypes
  BY DEF InputInv, InputTypes
<1>3. /\ presses \in Nat /\ CharOf(port) \in Char /\ CharOf(port).n = presses
  BY <1>2 DEF InputTypes, CharOf, Char
<1> DEFINE given == HandOut(CharOf(port))
<1>4. /\ \/ read_pc' = "check" /\ UNCHANGED <<out, handed, twice>>
         \/ given /\ read_pc' \in {"idle", "check"}
      /\ shift_down' \in BOOLEAN
  <2>1. shift_down' \in BOOLEAN
    BY <1>2 DEF poll_data, InputTypes
  <2> QED
    BY <2>1 DEF poll_data, Return
<1>5. /\ stale' \in BOOLEAN /\ (~ stale' => ~ stale /\ full)
  BY <1>1, Zenon
<1>6. ReadTypes' /\ twice' \in BOOLEAN
  <2>1. Len(out) \in Nat /\ out \in Seq(Char) /\ read_count \in Nat /\ Len(out) < read_count
    BY <1>1, <1>2, SeqLen DEF ReadTypes
  <2>2. CASE UNCHANGED <<out, handed, twice>> /\ read_pc' = "check"
    BY <1>1, <1>2, <2>2 DEF ReadTypes, InputTypes
  <2>3. CASE given /\ read_pc' \in {"idle", "check"}
    <3>1. out' = Append(out, CharOf(port)) /\ twice' = (twice \/ presses \in handed)
      BY <1>3, <2>3 DEF HandOut
    <3>2. out' \in Seq(Char) /\ Len(out') = Len(out) + 1
      BY <1>3, <2>1, <3>1, Appended, Zenon
    <3>3. Len(out') <= read_count
      BY <2>1, <3>2
    <3>4. twice' \in BOOLEAN
      BY <3>1, Zenon
    <3> QED
      BY <1>1, <1>2, <2>3, <3>2, <3>3, <3>4 DEF ReadTypes
  <2> QED
    BY <1>4, <2>2, <2>3
<1>7. InputTypes'
  BY <1>1, <1>2, <1>4, <1>5, <1>6, Zenon DEF InputTypes
<1>8. LineHolds => LineHolds'
  BY <1>1, <1>4 DEF LineHolds
<1>9. ASSUME ~ raced', ~ stale' PROVE ~ twice' /\ Apart(line, handed, Latest)'
  <2>1. ~ raced /\ ~ stale /\ full
    BY <1>1, <1>5, <1>9, Zenon
  <2>2. LineHolds /\ ~ twice /\ Apart(line, handed, Latest)
    BY <2>1, Zenon DEF InputInv
  <2>3. line \in Seq(Char)
    BY <2>2 DEF LineHolds, RingHolds
  <2> DEFINE m == presses - 1
  <2>4. m \in Int /\ m + 1 = presses /\ Latest = m /\ Latest' = m + 1 /\ m + 1 \in Nat
    BY <1>1, <1>3, <2>1 DEF Latest
  <2>5. Apart(line, handed, m)
    BY <2>2, <2>4
  <2> HIDE DEF m
  <2>6. CASE UNCHANGED <<out, handed, twice>>
    <3>1. Apart(line, handed, m + 1)
      BY <2>3, <2>4, <2>5, ApartLater, Zenon
    <3>2. line' = line /\ handed' = handed /\ ~ twice'
      BY <1>1, <2>2, <2>6
    <3> QED
      BY <2>4, <3>1, <3>2, SMTT(90) DEF Apart
  <2>7. CASE given
    <3>1. presses \notin handed /\ Apart(line, handed \cup {presses}, m + 1)
      BY <2>3, <2>4, <2>5, ApartHand
    <3>2. line' = line /\ handed' = handed \cup {presses} /\ twice' = (twice \/ presses \in handed)
      BY <1>1, <1>3, <2>7 DEF HandOut
    <3>3. ~ twice'
      BY <2>2, <3>1, <3>2, Zenon
    <3> QED
      BY <2>4, <3>1, <3>2, <3>3 DEF Apart
  <2> QED
    BY <1>4, <2>6, <2>7
<1> QED
  BY <1>1, <1>7, <1>8, <1>9, Zenon DEF InputInv

LEMMA AdvanceKeeps ==
  ASSUME InputInv, advance
  PROVE  InputInv'
<1>1. /\ read_pc = "advance" /\ read_pc' \in {"idle", "check"}
      /\ input_tail' = next_index(input_tail)
      /\ out' = Append(out, read_ch) /\ handed' = handed \cup {read_ch.n}
      /\ twice' = (twice \/ read_ch.n \in handed)
      /\ line' = IF line = << >> THEN line ELSE Tail(line)
      /\ UNCHANGED <<input_buffer, input_head, shift_down, port, full, presses, read_ch, read_count,
                     raced, stale>>
  BY DEF advance, HandOut, Return, device
<1>2. InputTypes /\ ReadTypes
  BY DEF InputInv, InputTypes
<1>3. input_tail \in Indices /\ input_tail' \in Indices
  BY <1>1, <1>2, NextIndex DEF InputTypes
<1>4. ReadTypes'
  <2>1. Len(out) \in Nat /\ out \in Seq(Char) /\ read_count \in Nat /\ Len(out) < read_count
        /\ read_ch \in Char
    BY <1>1, <1>2, SeqLen DEF ReadTypes
  <2>2. out' \in Seq(Char) /\ Len(out') = Len(out) + 1
    BY <1>1, <2>1, Appended, Zenon
  <2>3. Len(out') <= read_count
    BY <2>1, <2>2
  <2> QED
    BY <1>1, <2>1, <2>2, <2>3 DEF ReadTypes
<1>5. twice' \in BOOLEAN
  BY <1>1, Zenon
<1>6. InputTypes'
  BY <1>1, <1>2, <1>3, <1>4, <1>5 DEF InputTypes
<1>7. ASSUME ~ raced
      PROVE  /\ RingHolds(input_buffer, input_head, input_tail, line) /\ line # << >>
             /\ line \in Seq(Char) /\ Len(line) # 0 /\ read_ch = line[1] /\ line' = Tail(line)
             /\ LineHolds'
  <2>1. /\ RingHolds(input_buffer, input_head, input_tail, line)
        /\ line # << >> /\ read_ch = line[1] /\ line' = Tail(line)
    BY <1>1, <1>7 DEF InputInv, LineHolds
  <2>2. Len(line) # 0 /\ RingHolds(input_buffer, input_head, next_index(input_tail), Tail(line))
    BY <1>3, <2>1, RingTakeChar, Zenon
  <2>3. line \in Seq(Char)
    BY <2>1 DEF RingHolds
  <2>4. LineHolds'
    BY <1>1, <2>1, <2>2, SMTT(60) DEF LineHolds
  <2> QED
    BY <2>1, <2>2, <2>3, <2>4
<1>8. ASSUME ~ raced, ~ stale PROVE ~ twice' /\ Apart(line, handed, Latest)'
  <2>1. ~ twice /\ Apart(line, handed, Latest)
    BY <1>8, Zenon DEF InputInv
  <2>2. line \in Seq(Char) /\ Len(line) # 0 /\ read_ch = line[1] /\ line' = Tail(line)
    BY <1>7, <1>8
  <2>3. line[1].n \notin handed /\ Apart(Tail(line), handed \cup {line[1].n}, Latest)
    BY <2>1, <2>2, ApartTake, Zenon
  <2>4. Latest' = Latest
    BY <1>1 DEF Latest
  <2>5. Apart(line', handed', Latest')
    BY <1>1, <2>2, <2>3, <2>4
  <2>6. ~ twice'
    BY <1>1, <2>1, <2>2, <2>3, Zenon
  <2> QED
    BY <2>5, <2>6 DEF Apart, Latest
<1>9. raced' = raced /\ stale' = stale
  BY <1>1
<1> QED
  BY <1>6, <1>7, <1>8, <1>9, Zenon DEF InputInv

LEMMA InputStep == InputInv /\ [ConsoleNext]_consoleVars => InputInv'
<1> SUFFICES ASSUME InputInv, [ConsoleNext]_consoleVars PROVE InputInv'
  OBVIOUS
<1>1. CASE UNCHANGED consoleVars
  <2>1. /\ UNCHANGED <<input_ring, shift_down, port, full, presses, history>>
        /\ UNCHANGED <<read_pc, read_ch, read_count, out>>
    BY <1>1, SMTT(60) DEF consoleVars, device, reader
  <2>2. ReadTypes' /\ (LineHolds => LineHolds')
    BY <2>1 DEF InputInv, InputTypes, ReadTypes, LineHolds, input_ring, history
  <2> QED
    BY <2>1, <2>2, ReaderStep
<1>2. CASE ConsoleNext
  <2>1. ASSUME NEW key \in Keys, NEW down \in BOOLEAN, Press(key, down) PROVE InputInv'
    BY <2>1, PressKeeps, Zenon
  <2>2. ASSUME NEW n \in ReadCounts, NEW block \in BOOLEAN, NEW interrupts \in BOOLEAN,
               console_read(n, block, interrupts)
        PROVE  InputInv'
    BY <2>2, ReadKeeps, Zenon
  <2> QED
    BY <1>2, <2>1, <2>2, IrqKeeps, CheckKeeps, StatusKeeps, DataKeeps, LoadKeeps, AdvanceKeeps, Zenon
       DEF ConsoleNext
<1> QED
  BY <1>1, <1>2

LEMMA InputInvExact == InputInv => InputExact
<1> SUFFICES ASSUME InputInv PROVE InputExact
  OBVIOUS
<1>1. input_head \in Indices /\ input_tail \in Indices
  BY DEF InputInv, InputTypes
<1>2. ASSUME ~ raced
      PROVE  /\ InputContents = line
             /\ read_pc = "advance" => line # << >> /\ read_ch = Head(line)
  <2>1. LineHolds
    BY <1>2, Zenon DEF InputInv
  <2>2. InputContents = line
    BY <1>1, <2>1, RingContents DEF LineHolds
  <2>3. line \in Seq(Char)
    BY <2>1 DEF LineHolds, RingHolds
  <2>4. line # << >> => Head(line) = line[1]
    BY <2>3, HeadAndTail
  <2> QED
    BY <2>1, <2>2, <2>4 DEF LineHolds
<1>3. RingIsLine
  BY <1>1, <1>2 DEF RingIsLine, Indices
<1>4. EachOnce
  BY DEF InputInv, EachOnce, Apart
<1> QED
  BY <1>3, <1>4 DEF InputExact

-------------------------------------------------------------------------------
(***************************************************************************)
(* The kernel log.                                                         *)
(***************************************************************************)

LogSlots == 0 .. LogCapacity - 1

\* From slot s on, the n slots in use hold the last n bytes of p, and n is as many
\* as there are or as fit.
LogHolds(st, s, n, p) ==
    /\ n = IF Len(p) < LogCapacity THEN Len(p) ELSE LogCapacity
    /\ \A i \in 1 .. n : st[Slot(s + i - 1, LogCapacity)] = p[Len(p) - n + i]

\* The log is full and its oldest byte is overwritten by c already.
LogOverwritten(st, s, c, p) ==
    /\ Len(p) >= LogCapacity /\ st[s] = c
    /\ \A i \in 2 .. LogCapacity : st[Slot(s + i - 1, LogCapacity)] = p[Len(p) - LogCapacity + i]

LEMMA LogPut ==
  ASSUME NEW st \in [LogSlots -> Nat], NEW s \in LogSlots, NEW n \in Nat, NEW p \in Seq(Nat),
         LogHolds(st, s, n, p), n < LogCapacity, NEW c \in Nat
  PROVE  LogHolds([st EXCEPT ![Slot(s + n, LogCapacity)] = c], s, n + 1, Append(p, c))
<1> DEFINE LC == LogCapacity
           r == Append(p, c)
           k == Len(p)
           su == [st EXCEPT ![Slot(s + n, LC)] = c]
<1>1. LC \in Nat /\ LC > 0 /\ s \in 0 .. LC - 1 /\ k \in Nat
  BY KlogConstants, SeqLen DEF LogSlots
<1>2. Len(r) = k + 1 /\ (\A i \in 1 .. k : r[i] = p[i]) /\ r[k + 1] = c
  BY Appended
<1>3. n = k
  BY <1>1 DEF LogHolds
<1> HIDE DEF r, k
<1>4. n + 1 = IF Len(r) < LC THEN Len(r) ELSE LC
  BY <1>1, <1>2, <1>3
<1>5. ASSUME NEW i \in 1 .. n + 1
      PROVE  su[Slot(s + i - 1, LC)] = r[Len(r) - (n + 1) + i]
  <2>1. Len(r) - (n + 1) + i = i
    BY <1>1, <1>2, <1>3
  <2>2. Slot(s + i - 1, LC) \in LogSlots
    BY <1>1 DEF Slot, LogSlots
  <2>3. CASE i = n + 1
    <3>1. Slot(s + i - 1, LC) = Slot(s + n, LC)
      BY <1>1, <2>3, SMTT(60)
    <3> QED
      BY <1>2, <1>3, <2>1, <2>2, <2>3, <3>1
  <2>4. CASE i # n + 1
    <3>1. i \in 1 .. n /\ Slot(s + i - 1, LC) # Slot(s + n, LC)
      BY <1>1, <2>4 DEF Slot
    <3>2. st[Slot(s + i - 1, LC)] = p[k - n + i]
      BY <3>1 DEF LogHolds, k
    <3>3. k - n + i = i
      BY <1>1, <1>3, SMTT(60)
    <3> QED
      BY <1>2, <1>3, <2>1, <2>2, <3>1, <3>2, <3>3, SMTT(60)
  <2> QED
    BY <2>3, <2>4
<1>6. LogHolds(su, s, n + 1, r)
  <2> HIDE DEF su
  <2> QED
    BY <1>4, <1>5 DEF LogHolds
<1> QED
  BY <1>6 DEF r

LEMMA LogOverwrite ==
  ASSUME NEW st \in [LogSlots -> Nat], NEW s \in LogSlots, NEW p \in Seq(Nat),
         LogHolds(st, s, LogCapacity, p), NEW c \in Nat
  PROVE  LogOverwritten([st EXCEPT ![s] = c], s, c, p)
<1> DEFINE LC == LogCapacity
<1>1. LC \in Nat /\ LC > 0 /\ s \in 0 .. LC - 1 /\ Len(p) \in Nat
  BY KlogConstants, SeqLen DEF LogSlots
<1>2. Len(p) >= LC
  BY <1>1 DEF LogHolds
<1>3. ASSUME NEW i \in 2 .. LC
      PROVE  [st EXCEPT ![s] = c][Slot(s + i - 1, LC)] = p[Len(p) - LC + i]
  <2>1. i \in 1 .. LC /\ Slot(s + i - 1, LC) \in LogSlots /\ Slot(s + i - 1, LC) # s
    BY <1>1 DEF Slot, LogSlots
  <2>2. st[Slot(s + i - 1, LC)] = p[Len(p) - LC + i]
    BY <2>1 DEF LogHolds
  <2> QED
    BY <2>1, <2>2, SMTT(60)
<1>4. [st EXCEPT ![s] = c][s] = c
  OBVIOUS
<1> QED
  BY <1>2, <1>3, <1>4, Zenon DEF LogOverwritten

LEMMA LogMoveStart ==
  ASSUME NEW st, NEW s \in LogSlots, NEW p \in Seq(Nat), NEW c \in Nat,
         LogOverwritten(st, s, c, p)
  PROVE  LogHolds(st, Slot(s + 1, LogCapacity), LogCapacity, Append(p, c))
<1> DEFINE LC == LogCapacity
           r == Append(p, c)
           k == Len(p)
<1>1. LC \in Nat /\ LC > 0 /\ s \in 0 .. LC - 1 /\ k \in Nat
  BY KlogConstants, SeqLen, SMTT(60) DEF LogSlots
<1>2. Len(r) = k + 1 /\ (\A i \in 1 .. k : r[i] = p[i]) /\ r[k + 1] = c
  BY Appended
<1>3. k >= LC /\ st[s] = c
  BY SMTT(60) DEF LogOverwritten
<1> HIDE DEF r
<1>4. ASSUME NEW i \in 1 .. LC
      PROVE  st[Slot(Slot(s + 1, LC) + i - 1, LC)] = r[Len(r) - LC + i]
  <2>1. CASE i = LC
    <3>1. Slot(Slot(s + 1, LC) + i - 1, LC) = s /\ Len(r) - LC + i = k + 1
      BY <1>1, <1>2, <2>1, SMTT(60) DEF Slot
    <3> QED
      BY <1>2, <1>3, <3>1
  <2>2. CASE i # LC
    <3>1. i + 1 \in 2 .. LC /\ Slot(Slot(s + 1, LC) + i - 1, LC) = Slot(s + (i + 1) - 1, LC)
      BY <1>1, <2>2 DEF Slot
    <3>2. st[Slot(s + (i + 1) - 1, LC)] = p[k - LC + (i + 1)]
      BY <3>1 DEF LogOverwritten
    <3>3. k - LC + (i + 1) \in 1 .. k /\ Len(r) - LC + i = k - LC + (i + 1)
      BY <1>1, <1>2, <1>3, <3>1
    <3> QED
      BY <1>2, <3>1, <3>2, <3>3, SMTT(60)
  <2> QED
    BY <2>1, <2>2
<1>5. LC = IF Len(r) < LC THEN Len(r) ELSE LC
  BY <1>1, <1>2, <1>3, SMTT(60)
<1>6. LogHolds(st, Slot(s + 1, LC), LC, r)
  BY <1>4, <1>5 DEF LogHolds
<1> QED
  BY <1>6 DEF r

LEMMA LogSlot ==
  ASSUME NEW s \in LogSlots, NEW i \in 0 .. LogCapacity
  PROVE  (s + i) % LogCapacity = Slot(s + i, LogCapacity) /\ Slot(s + i, LogCapacity) \in LogSlots
  BY SlotRange, KlogConstants, Zenon DEF LogSlots

\* The log as a sequence is the end of what was output.
LEMMA LogIsEnd ==
  ASSUME start \in LogSlots, length \in 0 .. LogCapacity, printed \in Seq(Nat),
         LogHolds(storage, start, length, printed)
  PROVE  LogContents = SubSeq(printed, IF Len(printed) > LogCapacity
                                       THEN Len(printed) - LogCapacity + 1 ELSE 1, Len(printed))
<1> DEFINE LC == LogCapacity
           k == Len(printed)
           from == IF k > LC THEN k - LC + 1 ELSE 1
           r == SubSeq(printed, from, k)
<1>1. LC \in Nat /\ LC > 0 /\ k \in Nat /\ length \in Nat
  BY KlogConstants, SeqLen
<1>2. length = IF k < LC THEN k ELSE LC
  BY DEF LogHolds
<1> HIDE DEF k
<1>3. from = k - length + 1 /\ from \in Int /\ from >= 1
  BY <1>1, <1>2
<1>4. \A i \in from .. k : printed[i] \in Nat
  BY <1>1, <1>3, SeqItem, SMTT(60) DEF k
<1> HIDE DEF from
<1>5. /\ r \in Seq(Nat) /\ Len(r) = IF from <= k THEN k - from + 1 ELSE 0
      /\ \A i \in 1 .. k - from + 1 : r[i] = printed[from + i - 1]
  BY <1>1, <1>3, <1>4, CutItems
<1>6. (IF from <= k THEN k - from + 1 ELSE 0) = length /\ k - from + 1 = length
  BY <1>1, <1>3
<1> HIDE DEF r, k
<1>7. r = [i \in 1 .. length |-> r[i]]
  <2>1. Len(r) = length
    BY <1>5, <1>6, Zenon
  <2> QED
    BY <1>5, <2>1
<1>8. ASSUME NEW i \in 1 .. length
      PROVE  storage[(start + i - 1) % LC] = r[i]
  <2>1. i - 1 \in 0 .. LC /\ from + i - 1 = k - length + i /\ start + i - 1 = start + (i - 1)
    BY <1>1, <1>3
  <2>2. (start + (i - 1)) % LC = Slot(start + (i - 1), LC)
    BY <2>1, LogSlot, SMTT(60)
  <2>3. storage[Slot(start + i - 1, LC)] = printed[k - length + i]
    BY SMTT(60) DEF LogHolds, k
  <2>4. r[i] = printed[from + i - 1]
    BY <1>5, <1>6
  <2> QED
    BY <2>1, <2>2, <2>3, <2>4
<1>9. LogContents = [i \in 1 .. length |-> r[i]]
  BY <1>8, Zenon DEF LogContents
<1> QED
  BY <1>7, <1>9, Zenon DEF r, from, k

-------------------------------------------------------------------------------
LogTypes ==
    /\ storage \in [LogSlots -> Nat] /\ start \in LogSlots /\ length \in 0 .. LogCapacity
    /\ put_pc \in {"idle", "start", "branch", "byte", "index", "dmesg", "shown"}
    /\ put_ch \in Nat /\ len \in 0 .. LogCapacity /\ first \in LogSlots
    /\ clock \in Nat /\ printed \in Seq(Nat) /\ torn \in BOOLEAN /\ keyed \in BOOLEAN

\* The log between the accesses of a klog_putc that was not interrupted.
PutInv ==
    /\ put_pc \notin {"byte", "index"} => LogHolds(storage, start, length, printed)
    /\ put_pc \in {"start", "branch"} => len = length
    /\ put_pc \in {"branch", "byte", "index"} => first = start
    /\ put_pc = "byte" => /\ len < LogCapacity /\ length = len + 1
                          /\ LogHolds(storage, start, len, printed)
    /\ put_pc = "index" => length = LogCapacity /\ LogOverwritten(storage, start, put_ch, printed)

\* What dmesg has shown, as long as no key was echoed.
ReplayInv ==
    /\ put_pc = "dmesg" => /\ snapshot = length /\ before = LogContents
                           /\ offset \in 0 .. length /\ shown \in Seq(Nat) /\ Len(shown) = offset
                           /\ \A i \in 1 .. offset : shown[i] = before[i]
    /\ put_pc = "shown" => shown = before

LogInv ==
    /\ LogTypes
    /\ ~ torn => PutInv
    /\ ~ keyed => ReplayInv

LEMMA LogInitially == KlogInit => LogInv
<1> SUFFICES ASSUME KlogInit PROVE LogInv
  OBVIOUS
<1>1. LogCapacity \in Nat /\ LogCapacity > 0
  BY KlogConstants
<1>2. LogTypes
  <2>1. storage \in [LogSlots -> Nat] /\ start \in LogSlots /\ first \in LogSlots
    BY <1>1 DEF KlogInit, LogSlots
  <2>2. length \in 0 .. LogCapacity /\ len \in 0 .. LogCapacity
    BY <1>1 DEF KlogInit
  <2>3. put_ch \in Nat /\ clock \in Nat /\ printed \in Seq(Nat)
    BY DEF KlogInit
  <2> QED
    BY <2>1, <2>2, <2>3 DEF KlogInit, LogTypes
<1>3. LogHolds(storage, start, length, printed)
  <2>1. Len(printed) = 0 /\ length = 0
    BY DEF KlogInit
  <2> QED
    BY <1>1, <2>1 DEF LogHolds
<1>4. PutInv /\ ReplayInv
  BY <1>3 DEF KlogInit, PutInv, ReplayInv
<1> QED
  BY <1>2, <1>4 DEF LogInv

\* klog_putc in one piece.
LEMMA PutWhole ==
  ASSUME LogTypes, NEW c \in Nat, klog_putc(c)
  PROVE  /\ storage' \in [LogSlots -> Nat] /\ start' \in LogSlots /\ length' \in 0 .. LogCapacity
         /\ LogHolds(storage, start, length, printed)
               => LogHolds(storage', start', length', Append(printed, c))
<1>1. /\ LogCapacity \in Nat /\ LogCapacity > 0 /\ storage \in [LogSlots -> Nat]
      /\ start \in LogSlots /\ length \in 0 .. LogCapacity /\ length \in Nat /\ printed \in Seq(Nat)
  BY KlogConstants DEF LogTypes
<1>2. /\ (start + length) % LogCapacity = Slot(start + length, LogCapacity)
      /\ (start + 1) % LogCapacity = Slot(start + 1, LogCapacity)
      /\ Slot(start + 1, LogCapacity) \in LogSlots
  BY <1>1, LogSlot, SMTT(60)
<1>3. CASE length < LogCapacity
  <2>1. /\ storage' = [storage EXCEPT ![Slot(start + length, LogCapacity)] = c]
        /\ length' = length + 1 /\ start' = start
    BY <1>2, <1>3, Zenon DEF klog_putc
  <2>2. length' \in 0 .. LogCapacity
    BY <1>1, <1>3, <2>1
  <2>3. storage' \in [LogSlots -> Nat]
    BY <1>1, <2>1, Zenon
  <2> QED
    BY <1>1, <1>3, <2>1, <2>2, <2>3, LogPut, Zenon
<1>4. CASE ~(length < LogCapacity)
  <2>1. /\ storage' = [storage EXCEPT ![start] = c]
        /\ length' = length /\ start' = Slot(start + 1, LogCapacity)
    BY <1>2, <1>4 DEF klog_putc
  <2>2. length = LogCapacity
    BY <1>1, <1>4
  <2>3. storage' \in [LogSlots -> Nat]
    BY <1>1, <2>1, SMTT(60)
  <2>4. ASSUME LogHolds(storage, start, length, printed)
        PROVE  LogHolds(storage', start', length', Append(printed, c))
    <3>1. LogOverwritten(storage', start, c, printed)
      BY <1>1, <2>1, <2>2, <2>4, LogOverwrite, Zenon
    <3> QED
      BY <1>1, <2>1, <2>2, <3>1, LogMoveStart, SMTT(60)
  <2> QED
    BY <1>1, <1>2, <2>1, <2>3, <2>4
<1> QED
  BY <1>3, <1>4

LEMMA EchoKeeps ==
  ASSUME LogInv, echo
  PROVE  LogInv'
<1>1. /\ clock' = clock + 1 /\ klog_putc(clock') /\ printed' = Append(printed, clock')
      /\ torn' = (torn \/ put_pc \in {"start", "branch", "byte", "index"})
      /\ keyed' = (keyed \/ put_pc = "dmesg")
      /\ UNCHANGED <<put_pc, put_ch, len, first, offset, snapshot, shown, before>>
  BY DEF echo, putter, dmesg
<1>2. LogTypes
  BY DEF LogInv
<1>3. clock' \in Nat /\ printed \in Seq(Nat)
  BY <1>1, <1>2 DEF LogTypes
<1>4. /\ storage' \in [LogSlots -> Nat] /\ start' \in LogSlots /\ length' \in 0 .. LogCapacity
      /\ LogHolds(storage, start, length, printed) => LogHolds(storage', start', length', printed')
  BY <1>1, <1>2, <1>3, PutWhole
<1>5. /\ torn' \in BOOLEAN /\ keyed' \in BOOLEAN
      /\ ~ torn' => ~ torn /\ put_pc \notin {"start", "branch", "byte", "index"}
      /\ ~ keyed' => ~ keyed /\ put_pc # "dmesg"
  BY <1>1, Zenon
<1>6. printed' \in Seq(Nat)
  BY <1>1, <1>3, Appended, ZenonT(60)
<1>7. LogTypes'
  BY <1>1, <1>2, <1>3, <1>4, <1>5, <1>6, SMTT(90) DEF LogTypes
<1>8. ASSUME ~ torn' PROVE PutInv'
  <2>1. ~ torn /\ put_pc \notin {"start", "branch", "byte", "index"}
    BY <1>5, <1>8, Zenon
  <2>2. LogHolds(storage, start, length, printed)
    BY <2>1, Zenon DEF LogInv, PutInv
  <2>3. LogHolds(storage', start', length', printed')
    BY <1>4, <2>2, Zenon
  <2>4. put_pc' \notin {"start", "branch", "byte", "index"}
    BY <1>1, <2>1, Zenon
  <2> QED
    BY <2>3, <2>4, Zenon DEF PutInv
<1>9. ASSUME ~ keyed' PROVE ReplayInv'
  BY <1>1, <1>5, <1>9 DEF LogInv, ReplayInv
<1> QED
  BY <1>7, <1>8, <1>9 DEF LogInv

\* An access of klog_putc: dmesg does not run meanwhile.
LEMMA PutStep ==
  ASSUME LogInv, LogTypes', UNCHANGED <<torn, keyed>>, put_pc' \notin {"dmesg", "shown"},
         ~ torn => PutInv'
  PROVE  LogInv'
<1>1. ReplayInv'
  BY DEF ReplayInv
<1> QED
  BY <1>1 DEF LogInv

LEMMA LoadLengthKeeps ==
  ASSUME LogInv, put_load_length
  PROVE  LogInv'
<1>1. /\ put_pc = "idle" /\ put_pc' = "start" /\ clock' = clock + 1 /\ put_ch' = clock' /\ len' = length
      /\ UNCHANGED <<storage, start, length, first, printed, torn, keyed>>
  BY DEF put_load_length, log
<1>2. LogTypes'
  BY <1>1, SMTT(60) DEF LogInv, LogTypes
<1>3. ~ torn => PutInv'
  BY <1>1 DEF LogInv, PutInv
<1> QED
  BY <1>1, <1>2, <1>3, PutStep, SMTT(60)

LEMMA LoadStartKeeps ==
  ASSUME LogInv, put_load_start
  PROVE  LogInv'
<1>1. /\ put_pc = "start" /\ put_pc' = "branch" /\ first' = start
      /\ UNCHANGED <<storage, start, length, put_ch, len, clock, printed, torn, keyed>>
  BY DEF put_load_start, log
<1>2. LogTypes'
  BY <1>1, SMTT(60) DEF LogInv, LogTypes
<1>3. ~ torn => PutInv'
  BY <1>1 DEF LogInv, PutInv
<1> QED
  BY <1>1, <1>2, <1>3, PutStep, SMTT(60)

LEMMA FirstStoreKeeps ==
  ASSUME LogInv, put_first_store
  PROVE  LogInv'
<1>1. /\ put_pc = "branch"
      /\ UNCHANGED <<start, put_ch, len, first, clock, printed, torn, keyed>>
  BY DEF put_first_store
<1>2. LogTypes /\ LogCapacity \in Nat
  BY KlogConstants DEF LogInv
<1>3. ASSUME ~ torn PROVE LogHolds(storage, start, length, printed) /\ len = length /\ first = start
  BY <1>1, <1>3 DEF LogInv, PutInv
<1>4. CASE len < LogCapacity
  <2>1. length' = len + 1 /\ put_pc' = "byte" /\ storage' = storage
    BY <1>4 DEF put_first_store
  <2>2. length' \in 0 .. LogCapacity
    BY <1>2, <1>4, <2>1, SMTT(60) DEF LogTypes
  <2>3. LogTypes'
    BY <1>1, <1>2, <2>1, <2>2, SMTT(90) DEF LogTypes
  <2>4. ~ torn => PutInv'
    BY <1>1, <1>3, <1>4, <2>1 DEF PutInv
  <2> QED
    BY <1>1, <2>1, <2>3, <2>4, PutStep
<1>5. CASE ~(len < LogCapacity)
  <2>1. storage' = [storage EXCEPT ![first] = put_ch] /\ put_pc' = "index" /\ length' = length
    BY <1>5 DEF put_first_store
  <2>2. storage' \in [LogSlots -> Nat]
    BY <1>2, <2>1, SMTT(60) DEF LogTypes
  <2>3. LogTypes'
    BY <1>1, <1>2, <2>1, <2>2, SMTT(60) DEF LogTypes
  <2>4. ASSUME ~ torn PROVE PutInv'
    <3>1. length = LogCapacity
      BY <1>2, <1>3, <1>5, <2>4, SMTT(60) DEF LogTypes
    <3>2. LogOverwritten(storage', start, put_ch, printed)
      BY <1>2, <1>3, <2>1, <2>4, <3>1, LogOverwrite, Zenon DEF LogTypes
    <3> QED
      BY <1>1, <1>3, <2>1, <2>4, <3>1, <3>2, SMTT(60) DEF PutInv
  <2> QED
    BY <1>1, <2>1, <2>3, <2>4, PutStep
<1> QED
  BY <1>4, <1>5

LEMMA SecondStoreKeeps ==
  ASSUME LogInv, put_second_store
  PROVE  LogInv'
<1>1. /\ put_pc' = "idle" /\ printed' = Append(printed, put_ch)
      /\ UNCHANGED <<length, put_ch, len, first, clock, torn, keyed>>
  BY DEF put_second_store
<1>2. /\ LogTypes /\ LogCapacity \in Nat /\ storage \in [LogSlots -> Nat] /\ start \in LogSlots
      /\ first \in LogSlots /\ len \in 0 .. LogCapacity /\ len \in Nat
      /\ put_ch \in Nat /\ printed \in Seq(Nat)
  BY KlogConstants DEF LogInv, LogTypes
<1>3. printed' \in Seq(Nat)
  BY <1>1, <1>2, Appended, Zenon
<1>4. 1 \in 0 .. LogCapacity
  BY KlogConstants
<1>5. CASE put_pc = "byte"
  <2>1. storage' = [storage EXCEPT ![Slot(first + len, LogCapacity)] = put_ch] /\ start' = start
    BY <1>2, <1>5, LogSlot, Zenon DEF put_second_store
  <2>2. storage' \in [LogSlots -> Nat]
    BY <1>2, <2>1, Zenon
  <2>3. LogTypes'
    BY <1>1, <1>2, <1>3, <2>1, <2>2 DEF LogTypes
  <2>4. ASSUME ~ torn PROVE PutInv'
    <3>1. /\ first = start /\ len < LogCapacity /\ length = len + 1
          /\ LogHolds(storage, start, len, printed)
      BY <1>5, <2>4, SMTT(60) DEF LogInv, PutInv
    <3>2. LogHolds(storage', start', length', printed')
      BY <1>1, <1>2, <2>1, <3>1, LogPut, Zenon
    <3> QED
      BY <1>1, <3>2 DEF PutInv
  <2> QED
    BY <1>1, <2>3, <2>4, PutStep, SMTT(60)
<1>6. CASE put_pc = "index"
  <2>1. start' = Slot(first + 1, LogCapacity) /\ storage' = storage /\ start' \in LogSlots
    BY <1>2, <1>4, <1>6, LogSlot DEF put_second_store
  <2>2. LogTypes'
    BY <1>1, <1>2, <1>3, <2>1 DEF LogTypes
  <2>3. ASSUME ~ torn PROVE PutInv'
    <3>1. first = start /\ length = LogCapacity /\ LogOverwritten(storage, start, put_ch, printed)
      BY <1>6, <2>3 DEF LogInv, PutInv
    <3>2. LogHolds(storage', start', length', printed')
      BY <1>1, <1>2, <2>1, <3>1, LogMoveStart, SMTT(60)
    <3> QED
      BY <1>1, <3>2 DEF PutInv
  <2> QED
    BY <1>1, <2>2, <2>3, PutStep
<1> QED
  BY <1>5, <1>6 DEF put_second_store

\* What dmesg does leaves the log alone.
LEMMA ReplayStep ==
  ASSUME LogInv, put_pc' \in {"idle", "dmesg", "shown"}, put_pc \in {"idle", "dmesg", "shown"},
         UNCHANGED <<storage, start, length, put_ch, len, first, clock, printed, torn>>,
         keyed' \in BOOLEAN, ~ keyed' => ReplayInv'
  PROVE  LogInv'
<1>1. LogTypes'
  BY SMTT(60) DEF LogInv, LogTypes
<1>2. ~ torn' => PutInv'
  BY DEF LogInv, PutInv
<1> QED
  BY <1>1, <1>2 DEF LogInv

LEMMA DmesgBeginKeeps ==
  ASSUME LogInv, dmesg_begin
  PROVE  LogInv'
<1>1. /\ put_pc = "idle" /\ put_pc' = "dmesg" /\ offset' = 0 /\ snapshot' = length /\ shown' = << >>
      /\ before' = LogContents /\ keyed' = FALSE
      /\ UNCHANGED <<storage, start, length, put_ch, len, first, clock, printed, torn>>
  BY DEF dmesg_begin, log
<1>2. length \in Nat
  BY KlogConstants DEF LogInv, LogTypes
<1>3. LogContents' = LogContents
  BY <1>1 DEF LogContents
<1>4. ReplayInv'
  <2>1. offset' \in 0 .. length' /\ shown' \in Seq(Nat) /\ Len(shown') = offset'
    BY <1>1, <1>2
  <2>2. \A i \in 1 .. offset' : shown'[i] = before'[i]
    BY <1>1
  <2> QED
    BY <1>1, <1>3, <2>1, <2>2 DEF ReplayInv
<1> QED
  BY <1>1, <1>4, ReplayStep, Zenon

\* One chunk of klog_read is the next piece of the log.
LEMMA ChunkRead ==
  ASSUME LogTypes, offset \in 0 .. length
  PROVE  LET bytes == klog_read(offset, Chunk)
         IN  /\ offset = length => bytes = << >>
             /\ offset < length =>
                  /\ bytes \in Seq(Nat) /\ bytes # << >> /\ Len(bytes) \in 1 .. length - offset
                  /\ \A i \in 1 .. Len(bytes) : bytes[i] = LogContents[offset + i]
<1> DEFINE k == IF Chunk > length - offset THEN length - offset ELSE Chunk
           bytes == klog_read(offset, Chunk)
           g == [i \in 1 .. k |-> storage[(start + offset + i - 1) % LogCapacity]]
<1>1. /\ LogCapacity \in Nat /\ Chunk \in Nat \ {0} /\ start \in LogSlots /\ length \in 0 .. LogCapacity
      /\ storage \in [LogSlots -> Nat] /\ length \in Nat /\ offset \in Nat /\ offset <= length
      /\ length <= LogCapacity
  BY KlogConstants DEF LogTypes
<1>2. offset = length => bytes = << >>
  BY <1>1 DEF klog_read
<1>3. ASSUME offset < length
      PROVE  /\ bytes \in Seq(Nat) /\ bytes # << >> /\ Len(bytes) \in 1 .. length - offset
             /\ \A i \in 1 .. Len(bytes) : bytes[i] = LogContents[offset + i]
  <2>1. bytes = g
    <3>1. ~(offset >= length)
      BY <1>1, <1>3
    <3> QED
      BY <3>1, Zenon DEF klog_read
  <2>2. k \in 1 .. length - offset /\ k \in Nat
    BY <1>1, <1>3, SMTT(60)
  <2> HIDE DEF k
  <2>3. ASSUME NEW i \in 1 .. k
        PROVE  /\ offset + i \in 1 .. length /\ g[i] \in Nat
               /\ g[i] = LogContents[offset + i]
    <3>1. /\ offset + i \in 1 .. length /\ (offset + i) - 1 \in 0 .. LogCapacity
          /\ start + offset + i - 1 = start + ((offset + i) - 1)
          /\ start + (offset + i) - 1 = start + ((offset + i) - 1)
      BY <1>1, <2>2, SMTT(60) DEF LogSlots
    <3>2. (start + ((offset + i) - 1)) % LogCapacity \in LogSlots
      BY <1>1, <3>1, LogSlot, SMTT(60)
    <3>3. g[i] = storage[(start + ((offset + i) - 1)) % LogCapacity]
      BY <3>1, SMTT(60)
    <3>4. LogContents[offset + i] = storage[(start + ((offset + i) - 1)) % LogCapacity]
      BY <3>1 DEF LogContents
    <3> QED
      BY <1>1, <3>1, <3>2, <3>3, <3>4, SMTT(60)
  <2>4. g \in Seq(Nat) /\ Len(g) = k
    <3>1. DOMAIN g = 1 .. k /\ \A i \in 1 .. k : g[i] \in Nat
      BY <2>3
    <3>2. g \in [1 .. k -> Nat]
      BY <2>3
    <3> HIDE DEF g
    <3> QED
      BY <2>2, <3>1, <3>2, SMTT(60)
  <2> HIDE DEF g
  <2>5. g # << >>
    BY <2>2, <2>4
  <2> QED
    BY <2>1, <2>2, <2>3, <2>4, <2>5
<1> QED
  BY <1>2, <1>3, SMTT(60)

LEMMA DmesgChunkKeeps ==
  ASSUME LogInv, dmesg_chunk
  PROVE  LogInv'
<1> DEFINE bytes == klog_read(offset, Chunk)
<1>1. /\ put_pc = "dmesg" /\ UNCHANGED <<snapshot, before, keyed>>
      /\ UNCHANGED <<storage, start, length, put_ch, len, first, clock, printed, torn>>
  BY DEF dmesg_chunk, log
<1>2. \/ /\ offset < snapshot /\ bytes # << >> /\ put_pc' = "dmesg"
         /\ shown' = shown \o bytes /\ offset' = offset + Len(bytes)
      \/ /\ ~(offset < snapshot /\ bytes # << >>) /\ put_pc' = "shown" /\ UNCHANGED <<offset, shown>>
  BY <1>1 DEF dmesg_chunk
<1>3. LogTypes /\ keyed \in BOOLEAN
  BY DEF LogInv, LogTypes
<1> HIDE DEF bytes
<1>4. ASSUME ~ keyed PROVE ReplayInv'
  <2>1. /\ snapshot = length /\ before = LogContents /\ offset \in 0 .. length
        /\ shown \in Seq(Nat) /\ Len(shown) = offset /\ \A i \in 1 .. offset : shown[i] = before[i]
    BY <1>1, <1>4, SMTT(60) DEF LogInv, ReplayInv
  <2>2. length \in Nat /\ offset \in Nat /\ offset <= length
    BY <1>3, <2>1, KlogConstants DEF LogTypes
  <2>3. LogContents' = LogContents
    BY <1>1 DEF LogContents
  <2>4. offset < length =>
          /\ bytes \in Seq(Nat) /\ bytes # << >> /\ Len(bytes) \in 1 .. length - offset
          /\ \A i \in 1 .. Len(bytes) : bytes[i] = LogContents[offset + i]
    BY <1>3, <2>1, ChunkRead, ZenonT(60) DEF bytes
  <2>5. CASE offset < snapshot /\ bytes # << >>
    <3>1. put_pc' = "dmesg" /\ shown' = shown \o bytes /\ offset' = offset + Len(bytes)
      BY <1>2, <2>5, SMTT(60)
    <3>2. /\ bytes \in Seq(Nat) /\ Len(bytes) \in 1 .. length - offset
          /\ \A i \in 1 .. Len(bytes) : bytes[i] = LogContents[offset + i]
      BY <2>1, <2>4, <2>5
    <3>3. /\ shown' \in Seq(Nat) /\ Len(shown') = offset + Len(bytes)
          /\ \A i \in 1 .. offset + Len(bytes) :
                shown'[i] = IF i <= offset THEN shown[i] ELSE bytes[i - offset]
      <4>1. /\ shown \o bytes \in Seq(Nat) /\ Len(shown \o bytes) = Len(shown) + Len(bytes)
            /\ \A i \in 1 .. Len(shown) + Len(bytes) :
                  (shown \o bytes)[i] = IF i <= Len(shown) THEN shown[i] ELSE bytes[i - Len(shown)]
        BY <2>1, <3>2, JoinedItems, Zenon
      <4> QED
        BY <2>1, <3>1, <4>1, Zenon
    <3>4. offset' \in 0 .. length /\ Len(bytes) \in Nat
      BY <2>2, <3>1, <3>2, SMTT(60)
    <3>5. ASSUME NEW i \in 1 .. offset + Len(bytes) PROVE shown'[i] = LogContents[i]
      <4>1. CASE i <= offset
        <5>1. i \in 1 .. offset
          BY <2>2, <4>1, SMTT(60)
        <5> QED
          BY <2>1, <3>3, <4>1, <5>1
      <4>2. CASE ~(i <= offset)
        <5>1. i - offset \in 1 .. Len(bytes) /\ offset + (i - offset) = i
          BY <2>2, <3>4, <4>2
        <5> QED
          BY <3>2, <3>3, <4>2, <5>1, SMTT(60)
      <4> QED
        BY <4>1, <4>2, SMTT(60)
    <3> QED
      BY <1>1, <2>1, <2>3, <3>1, <3>3, <3>4, <3>5, SMTT(60) DEF ReplayInv
  <2>6. CASE ~(offset < snapshot /\ bytes # << >>)
    <3>1. put_pc' = "shown" /\ shown' = shown /\ before' = before
      BY <1>1, <1>2, <2>6, SMTT(60)
    <3>2. offset = length
      BY <2>1, <2>2, <2>4, <2>6
    <3>3. shown = [i \in 1 .. length |-> shown[i]]
      <4>1. shown \in Seq(Nat) /\ Len(shown) = length
        BY <2>1, <3>2
      <4> QED
        BY <4>1, SMTT(60)
    <3>4. LogContents = [i \in 1 .. length |-> LogContents[i]]
      BY DEF LogContents
    <3>5. \A i \in 1 .. length : shown[i] = LogContents[i]
      BY <2>1, <3>2
    <3>6. shown = before
      BY <2>1, <3>3, <3>4, <3>5, Zenon
    <3> QED
      BY <3>1, <3>6, SMTT(60) DEF ReplayInv
  <2> QED
    BY <2>5, <2>6
<1>5. put_pc' \in {"dmesg", "shown"}
  BY <1>2
<1> QED
  BY <1>1, <1>3, <1>4, <1>5, ReplayStep, SMTT(60)

LEMMA DmesgEndKeeps ==
  ASSUME LogInv, dmesg_end
  PROVE  LogInv'
<1>1. /\ put_pc = "shown" /\ put_pc' = "idle" /\ keyed' = keyed
      /\ UNCHANGED <<storage, start, length, put_ch, len, first, clock, printed, torn>>
  BY SMTT(60) DEF dmesg_end, log
<1>2. ReplayInv' /\ keyed \in BOOLEAN
  BY <1>1 DEF ReplayInv, LogInv, LogTypes
<1> QED
  BY <1>1, <1>2, ReplayStep

LEMMA LogStep == LogInv /\ [KlogNext]_klogVars => LogInv'
<1> SUFFICES ASSUME LogInv, [KlogNext]_klogVars PROVE LogInv'
  OBVIOUS
<1>1. CASE UNCHANGED klogVars
  <2>1. /\ UNCHANGED <<storage, start, length, put_pc, put_ch, len, first, clock, printed, torn, keyed>>
        /\ UNCHANGED <<offset, snapshot, shown, before>>
    BY <1>1 DEF klogVars, log, putter, dmesg
  <2>2. LogContents' = LogContents
    BY <2>1, SMTT(90) DEF LogContents
  <2>3. LogTypes' /\ PutInv' = PutInv
    BY <2>1, SMTT(60) DEF LogInv, LogTypes, PutInv
  <2>4. ReplayInv' = ReplayInv
    BY <2>1, <2>2 DEF ReplayInv
  <2> QED
    BY <2>1, <2>3, <2>4, Zenon DEF LogInv
<1>2. CASE KlogNext
  BY <1>2, EchoKeeps, LoadLengthKeeps, LoadStartKeeps, FirstStoreKeeps, SecondStoreKeeps,
     DmesgBeginKeeps, DmesgChunkKeeps, DmesgEndKeeps, ZenonT(60) DEF KlogNext
<1> QED
  BY <1>1, <1>2

LEMMA LogInvExact == LogInv => LogExact
<1> SUFFICES ASSUME LogInv PROVE LogExact
  OBVIOUS
<1>1. start \in LogSlots /\ length \in 0 .. LogCapacity /\ printed \in Seq(Nat)
  BY DEF LogInv, LogTypes
<1>2. ASSUME ~ torn, ~ Putting
      PROVE  LogContents = SubSeq(printed, IF Len(printed) > LogCapacity
                                           THEN Len(printed) - LogCapacity + 1 ELSE 1, Len(printed))
  <2>1. LogHolds(storage, start, length, printed)
    BY <1>2 DEF LogInv, PutInv, Putting
  <2> QED
    BY <1>1, <2>1, LogIsEnd, Zenon
<1>3. LogIsTail
  BY <1>1, <1>2, Zenon DEF LogIsTail, LogSlots
<1>4. QuietReplay
  BY DEF LogInv, ReplayInv, QuietReplay
<1> QED
  BY <1>3, <1>4 DEF LogExact

-------------------------------------------------------------------------------
\* For every ring size, read size and sequence of keys, and wherever the handler
\* interrupts console_read: the ring holds exactly what was typed and neither erased
\* nor read, and every press is handed out at most once, but for the two windows
\* raced and stale record; and for every size of the log and of dmesg's buffer the
\* log is the end of what was output until a klog_putc is interrupted, and dmesg
\* shows the log it began with unless a key is echoed meanwhile.
THEOREM ConsoleAndLogSafety == ConsoleSpec /\ KlogSpec => []InputAndLogExact
<1>1. ConsoleInit => InputInv
  BY InputInitially
<1>2. InputInv /\ [ConsoleNext]_consoleVars => InputInv'
  BY InputStep
<1>3. KlogInit => LogInv
  BY LogInitially
<1>4. LogInv /\ [KlogNext]_klogVars => LogInv'
  BY LogStep
<1>5. InputInv /\ LogInv => InputAndLogExact
  BY InputInvExact, LogInvExact, Zenon DEF InputAndLogExact
<1> QED
  BY <1>1, <1>2, <1>3, <1>4, <1>5, PTL DEF ConsoleSpec, KlogSpec

===============================================================================
