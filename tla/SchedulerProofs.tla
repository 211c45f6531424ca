---------------------------- MODULE SchedulerProofs ----------------------------
(* The run queue of scheduler.c, for any number of threads: its linked list   *)
(* is a list without a cycle whose nodes are live threads, and its operations *)
(* implement the round-robin line of RunQueue.tla.                            *)
EXTENDS Scheduler, TLAPS, FiniteSetTheorems

LEMMA Least ==
  ASSUME NEW T \in SUBSET Nat, T # {}
  PROVE  \E m \in T : \A k \in T : m <= k
<1> DEFINE R == {ss \in Nat \X Nat : ss[1] < ss[2]}
<1>1. IsWellFoundedOn(R, Nat)
  BY NatLessThanWellFounded DEF OpToRel
<1> HIDE DEF R
<1>2. PICK m \in T : \A k \in T : ~ (<<k, m>> \in R)
  BY <1>1, WFMin, Zenon
<1>3. \A k \in T : ~ (k < m)
  BY <1>2, Zenon DEF R
<1> QED
  BY <1>3

LEMMA NatInd ==
  ASSUME NEW S, 0 \in S, \A n \in Nat : n \in S => n + 1 \in S
  PROVE  \A n \in Nat : n \in S
<1> SUFFICES ASSUME NEW n \in Nat, n \notin S PROVE FALSE
  OBVIOUS
<1> DEFINE T == {k \in Nat : k \notin S}
<1>1. PICK m \in T : \A k \in T : m <= k
  BY Least, Zenon
<1>2. m # 0
  OBVIOUS
<1>3. m - 1 \in Nat /\ m - 1 \notin T
  BY <1>1, <1>2
<1> QED
  BY <1>3

\* f follows the function g from a for n steps.
Path(f, a, g, n) ==
    /\ f \in [0 .. n -> DOMAIN g] /\ f[0] = a
    /\ \A i \in 1 .. n : f[i] = g[f[i - 1]]

LEMMA Iterate ==
  ASSUME NEW D, NEW a \in D, NEW g \in [D -> D], NEW n \in Nat
  PROVE  \E f : Path(f, a, g, n)
<1> DEFINE S == {k \in Nat : \E f : Path(f, a, g, k)}
<1>1. 0 \in S
  <2>1. Path([i \in 0 .. 0 |-> a], a, g, 0)
    BY DEF Path
  <2> QED
    BY <2>1
<1>2. ASSUME NEW k \in Nat, k \in S
      PROVE  k + 1 \in S
  <2>1. PICK f : Path(f, a, g, k)
    BY <1>2
  <2> DEFINE h == [i \in 0 .. k + 1 |-> IF i <= k THEN f[i] ELSE g[f[k]]]
  <2>2. h \in [0 .. k + 1 -> D]
    BY <2>1 DEF Path
  <2>3. h[0] = a
    BY <2>1 DEF Path
  <2>4. ASSUME NEW i \in 1 .. k + 1
        PROVE  h[i] = g[h[i - 1]]
    <3>1. i - 1 \in 0 .. k /\ h[i - 1] = f[i - 1]
      OBVIOUS
    <3>2. CASE i <= k
      BY <2>1, <3>1, <3>2 DEF Path
    <3>3. CASE ~(i <= k)
      <4>1. i = k + 1 /\ i - 1 = k
        BY <3>3
      <4> QED
        BY <3>1, <4>1
    <3> QED
      BY <3>2, <3>3
  <2>5. Path(h, a, g, k + 1)
    <3> HIDE DEF h
    <3> QED
      BY <2>2, <2>3, <2>4 DEF Path
  <2> QED
    BY <2>5
<1>3. n \in S
  <2> HIDE DEF S
  <2> QED
    BY <1>1, <1>2, NatInd
<1> QED
  BY <1>3

-----------------------------------------------------------------------------
N == Cardinality(Threads)

Links == [Threads -> Threads \cup {Nil}]

LEMMA NType == N \in Nat /\ N > 0
<1>1. N \in Nat
  BY SchedulerConstants, FS_CardinalityType DEF N
<1>2. N # 0
  BY SchedulerConstants, FS_EmptySet DEF N
<1> QED
  BY <1>1, <1>2

\* A walk begins at its start and takes one link at a time.
LEMMA WalkSteps ==
  ASSUME NEW a \in Threads \cup {Nil}, NEW nx \in Links
  PROVE  LET w == Walk(a, nx)
         IN  /\ DOMAIN w = 0 .. N
             /\ w[0] = a
             /\ \A i \in 1 .. N : w[i] = IF w[i - 1] = Nil THEN Nil ELSE nx[w[i - 1]]
<1> DEFINE D == Threads \cup {Nil}
           g == [x \in D |-> IF x = Nil THEN Nil ELSE nx[x]]
           Steps(w) == w = [i \in 0 .. N |-> IF i = 0 THEN a
                                             ELSE IF w[i - 1] = Nil THEN Nil ELSE nx[w[i - 1]]]
<1>1. g \in [D -> D]
  BY DEF Links
<1>2. PICK f : Path(f, a, g, N)
  <2>1. a \in D /\ N \in Nat
    BY NType
  <2> HIDE DEF D, g
  <2> QED
    BY <1>1, <2>1, Iterate
<1>3. ASSUME NEW i \in 0 .. N, i # 0
      PROVE  f[i] = IF f[i - 1] = Nil THEN Nil ELSE nx[f[i - 1]]
  <2>1. i \in 1 .. N /\ i - 1 \in 0 .. N
    BY <1>3, NType
  <2>2. f[i - 1] \in D /\ f[i] = g[f[i - 1]]
    BY <1>2, <2>1, Zenon DEF Path
  <2> QED
    BY <2>2
<1>4. Steps(f)
  BY <1>2, <1>3 DEF Path
<1>5. Walk(a, nx) = CHOOSE w : Steps(w)
  BY DEF Walk, N
<1>6. Steps(Walk(a, nx))
  <2> HIDE DEF Steps
  <2> QED
    BY <1>4, <1>5
<1> DEFINE w == Walk(a, nx)
<1> HIDE DEF w
<1>7. w = [i \in 0 .. N |-> IF i = 0 THEN a ELSE IF w[i - 1] = Nil THEN Nil ELSE nx[w[i - 1]]]
  BY <1>6, Zenon DEF w
<1>8. DOMAIN w = 0 .. N /\ w[0] = a
  BY <1>7, NType
<1>9. \A i \in 1 .. N : w[i] = IF w[i - 1] = Nil THEN Nil ELSE nx[w[i - 1]]
  BY <1>7, NType, SMTT(90)
<1> QED
  BY <1>8, <1>9 DEF w

-----------------------------------------------------------------------------
\* The links nx, followed from h, spell the threads of q, each once, and end.
IsList(q, h, nx) ==
    /\ q \in Seq(Threads)
    /\ \A i, j \in 1 .. Len(q) : q[i] = q[j] => i = j
    /\ h = IF Len(q) = 0 THEN Nil ELSE q[1]
    /\ \A i \in 1 .. Len(q) : nx[q[i]] = IF i < Len(q) THEN q[i + 1] ELSE Nil

Members(q) == {q[i] : i \in 1 .. Len(q)}

LEMMA ListLength ==
  ASSUME NEW q, NEW h, NEW nx, IsList(q, h, nx)
  PROVE  /\ Len(q) \in Nat /\ Len(q) <= N
         /\ h \in Threads \cup {Nil} /\ Nil \notin Members(q) /\ Members(q) \subseteq Threads
         /\ DOMAIN q = 1 .. Len(q)
<1>1. Len(q) \in Nat /\ q \in [1 .. Len(q) -> Threads]
  BY DEF IsList
<1>2. q \in Injection(1 .. Len(q), Threads)
  BY <1>1 DEF IsList, Injection, IsInjective
<1>3. Cardinality(1 .. Len(q)) <= N
  BY <1>2, FS_Injection, SchedulerConstants DEF N
<1>4. Cardinality(1 .. Len(q)) = IF 1 > Len(q) THEN 0 ELSE Len(q) - 1 + 1
  BY <1>1, FS_Interval, SMTT(90)
<1>5. Len(q) <= N
  BY <1>1, <1>3, <1>4, NType
<1> QED
  BY <1>1, <1>5, SchedulerConstants DEF IsList, Members

LEMMA WalkOfList ==
  ASSUME NEW q, NEW h, NEW nx \in Links, IsList(q, h, nx)
  PROVE  /\ DOMAIN Walk(h, nx) = 0 .. N
         /\ \A i \in 0 .. N : Walk(h, nx)[i] = IF i < Len(q) THEN q[i + 1] ELSE Nil
<1> DEFINE w == Walk(h, nx)
           S == {i \in Nat : i <= N => w[i] = IF i < Len(q) THEN q[i + 1] ELSE Nil}
<1> HIDE DEF w
<1>1. /\ DOMAIN w = 0 .. N /\ w[0] = h
      /\ \A i \in 1 .. N : w[i] = IF w[i - 1] = Nil THEN Nil ELSE nx[w[i - 1]]
  BY ListLength, WalkSteps DEF w
<1>2. Len(q) \in Nat /\ Len(q) <= N /\ \A i \in 1 .. Len(q) : q[i] # Nil
  BY ListLength DEF Members
<1>3. 0 \in S
  BY <1>1, <1>2 DEF IsList
<1>4. ASSUME NEW i \in Nat, i \in S
      PROVE  i + 1 \in S
  <2> SUFFICES ASSUME i + 1 <= N
               PROVE  w[i + 1] = IF i + 1 < Len(q) THEN q[(i + 1) + 1] ELSE Nil
    OBVIOUS
  <2>1. i + 1 \in 1 .. N /\ (i + 1) - 1 = i /\ N \in Nat
    BY NType
  <2>2. w[i + 1] = IF w[i] = Nil THEN Nil ELSE nx[w[i]]
    BY <1>1, <2>1
  <2>3. w[i] = IF i < Len(q) THEN q[i + 1] ELSE Nil
    BY <1>4, <2>1
  <2>4. CASE i < Len(q)
    <3>1. i + 1 \in 1 .. Len(q)
      BY <1>2, <2>4
    <3>2. nx[q[i + 1]] = IF i + 1 < Len(q) THEN q[(i + 1) + 1] ELSE Nil
      BY <3>1 DEF IsList
    <3> QED
      BY <1>2, <2>2, <2>3, <2>4, <3>1, <3>2
  <2>5. CASE ~(i < Len(q))
    BY <1>2, <2>2, <2>3, <2>5
  <2> QED
    BY <2>4, <2>5
<1>5. \A i \in Nat : i \in S
  <2> HIDE DEF S
  <2> QED
    BY <1>3, <1>4, NatInd
<1> QED
  BY <1>1, <1>5, NType DEF w

\* What the operators of Scheduler.tla see when the links spell q.
LEMMA ListFacts ==
  ASSUME NEW q, NEW h, NEW nx \in Links, IsList(q, h, nx)
  PROVE  /\ OnList(h, nx) = Members(q)
         /\ ~Circular(h, nx)
         /\ Listed(h, nx) = q
<1> DEFINE w == Walk(h, nx)
<1>1. Len(q) \in Nat /\ Len(q) <= N /\ (\A i \in 1 .. Len(q) : q[i] # Nil) /\ q \in [1 .. Len(q) -> Threads]
  BY ListLength DEF Members, IsList
<1>2. DOMAIN w = 0 .. N /\ \A i \in 0 .. N : w[i] = IF i < Len(q) THEN q[i + 1] ELSE Nil
  BY WalkOfList
<1>3. ~Circular(h, nx)
  BY <1>1, <1>2, NType DEF Circular, N
<1> HIDE DEF w
<1>4. OnList(h, nx) = Members(q)
  <2>1. OnList(h, nx) = {w[i] : i \in 0 .. N} \ {Nil}
    BY <1>2 DEF OnList, Range, w
  <2>2. ASSUME NEW i \in 0 .. N, w[i] # Nil
        PROVE  w[i] \in Members(q)
    <3>1. i < Len(q) /\ w[i] = q[i + 1]
      BY <1>2, <2>2
    <3>2. i + 1 \in 1 .. Len(q)
      BY <1>1, <3>1
    <3> QED
      BY <3>1, <3>2 DEF Members
  <2>3. ASSUME NEW i \in 1 .. Len(q)
        PROVE  q[i] \in {w[k] : k \in 0 .. N} \ {Nil}
    <3>1. i - 1 \in 0 .. N /\ i - 1 < Len(q) /\ (i - 1) + 1 = i
      BY <1>1, NType
    <3>2. w[i - 1] = q[i]
      BY <1>2, <3>1
    <3> QED
      BY <1>1, <3>1, <3>2
  <2> QED
    BY <2>1, <2>2, <2>3 DEF Members
<1>5. Listed(h, nx) = q
  <2> DEFINE End(i) == w[i] = Nil /\ \A j \in 0 .. i - 1 : w[j] # Nil
             n == CHOOSE i \in DOMAIN w : End(i)
  <2>1. Len(q) \in DOMAIN w /\ w[Len(q)] = Nil
    BY <1>1, <1>2, NType
  <2>2. \A j \in 0 .. Len(q) - 1 : w[j] # Nil
    BY <1>1, <1>2, NType
  <2>3. \A i \in DOMAIN w : End(i) => i = Len(q)
    <3> SUFFICES ASSUME NEW i \in DOMAIN w, End(i), i # Len(q) PROVE FALSE
      OBVIOUS
    <3>1. i \in 0 .. N /\ (i < Len(q) \/ Len(q) < i)
      BY <1>1, <1>2, NType
    <3> QED
      BY <1>1, <2>1, <2>2, <3>1, NType
  <2>4. n = Len(q)
    <3>1. End(Len(q))
      BY <2>1, <2>2
    <3> HIDE DEF End
    <3> QED
      BY <2>1, <2>3, <3>1
  <2>5. Listed(h, nx) = [i \in 1 .. n |-> w[i - 1]]
    BY DEF Listed, w
  <2>6. \A i \in 1 .. Len(q) : w[i - 1] = q[i]
    BY <1>1, <1>2, NType
  <2> QED
    BY <1>1, <2>4, <2>5, <2>6, Zenon
<1> QED
  BY <1>3, <1>4, <1>5

-----------------------------------------------------------------------------
(* The search of scheduler_pick_next.                                        *)

LEMMA CandidatesSteps ==
  ASSUME next \in Links, run_queue \in Threads, NEW start \in Threads
  PROVE  LET c == Candidates(start)
         IN  /\ DOMAIN c = 0 .. N
             /\ c[0] = start
             /\ \A i \in 1 .. N : c[i] = IF next[c[i - 1]] # Nil THEN next[c[i - 1]] ELSE run_queue
<1> DEFINE g == [x \in Threads |-> IF next[x] # Nil THEN next[x] ELSE run_queue]
           Steps(c) == c = [i \in 0 .. N |-> IF i = 0 THEN start
                                             ELSE IF next[c[i - 1]] # Nil THEN next[c[i - 1]] ELSE run_queue]
<1>1. g \in [Threads -> Threads]
  BY DEF Links
<1>2. PICK f : Path(f, start, g, N)
  <2> HIDE DEF g
  <2> QED
    BY <1>1, NType, Iterate
<1>3. ASSUME NEW i \in 0 .. N, i # 0
      PROVE  f[i] = IF next[f[i - 1]] # Nil THEN next[f[i - 1]] ELSE run_queue
  <2>1. i \in 1 .. N /\ i - 1 \in 0 .. N
    BY <1>3, NType
  <2>2. f[i - 1] \in Threads /\ f[i] = g[f[i - 1]]
    BY <1>2, <2>1 DEF Path
  <2> QED
    BY <2>2
<1>4. Steps(f)
  BY <1>2, <1>3 DEF Path
<1>5. Candidates(start) = CHOOSE c : Steps(c)
  BY DEF Candidates, N
<1>6. Steps(Candidates(start))
  <2> HIDE DEF Steps
  <2> QED
    BY <1>4, <1>5
<1> DEFINE c == Candidates(start)
<1> HIDE DEF c
<1>7. c = [i \in 0 .. N |-> IF i = 0 THEN start
                            ELSE IF next[c[i - 1]] # Nil THEN next[c[i - 1]] ELSE run_queue]
  BY <1>6, Zenon DEF c
<1>8. DOMAIN c = 0 .. N /\ c[0] = start
  BY <1>7, NType
<1>9. \A i \in 1 .. N : c[i] = IF next[c[i - 1]] # Nil THEN next[c[i - 1]] ELSE run_queue
  BY <1>7, NType
<1> QED
  BY <1>8, <1>9 DEF c

\* The place i places after s in a ring of n.
Round(s, i, n) == IF s + i <= n THEN s + i ELSE s + i - n

\* The search goes once round the queue.
LEMMA CandidatesOfList ==
  ASSUME next \in Links, NEW q, IsList(q, run_queue, next), NEW s \in 1 .. Len(q)
  PROVE  /\ DOMAIN Candidates(q[s]) = 0 .. N
         /\ \A i \in 0 .. Len(q) : Candidates(q[s])[i] = q[Round(s, i, Len(q))]
<1> DEFINE c == Candidates(q[s])
           n == Len(q)
           S == {i \in Nat : i <= n => c[i] = q[Round(s, i, n)]}
<1>1. /\ n \in Nat /\ n <= N /\ 1 <= n /\ run_queue = q[1] /\ q \in [1 .. n -> Threads]
      /\ \A i \in 1 .. n : q[i] # Nil /\ next[q[i]] = IF i < n THEN q[i + 1] ELSE Nil
  BY ListLength DEF Members, IsList
<1>2. /\ DOMAIN c = 0 .. N /\ c[0] = q[s]
      /\ \A i \in 1 .. N : c[i] = IF next[c[i - 1]] # Nil THEN next[c[i - 1]] ELSE run_queue
  BY <1>1, CandidatesSteps
<1> HIDE DEF c, n
<1>3. s \in 1 .. n
  BY DEF n
<1>4. 0 \in S
  BY <1>1, <1>2, <1>3 DEF Round
<1>5. ASSUME NEW i \in Nat, i \in S
      PROVE  i + 1 \in S
  <2> SUFFICES ASSUME i + 1 <= n
               PROVE  c[i + 1] = q[Round(s, i + 1, n)]
    OBVIOUS
  <2> DEFINE r == Round(s, i, n)
  <2>1. i + 1 \in 1 .. N /\ (i + 1) - 1 = i /\ i <= n
    BY <1>1, NType
  <2>2. r \in 1 .. n /\ Round(s, i + 1, n) = IF r < n THEN r + 1 ELSE 1
    BY <1>1, <1>3 DEF Round
  <2> HIDE DEF r
  <2>3. c[i] = q[r]
    BY <1>5, <2>1 DEF r
  <2>4. c[i + 1] = IF next[c[i]] # Nil THEN next[c[i]] ELSE run_queue
    BY <1>2, <2>1
  <2>5. next[q[r]] = IF r < n THEN q[r + 1] ELSE Nil
    BY <1>1, <2>2
  <2>6. CASE r < n
    <3>1. r + 1 \in 1 .. n
      BY <1>1, <2>2, <2>6
    <3> QED
      BY <1>1, <2>2, <2>3, <2>4, <2>5, <2>6, <3>1, SMTT(60)
  <2>7. CASE ~(r < n)
    BY <1>1, <2>2, <2>3, <2>4, <2>5, <2>7
  <2> QED
    BY <2>6, <2>7
<1>6. \A i \in Nat : i \in S
  <2> HIDE DEF S
  <2> QED
    BY <1>4, <1>5, NatInd
<1> QED
  BY <1>1, <1>2, <1>6 DEF c, n

LEMMA Remainders ==
  ASSUME NEW n \in Nat \ {0}, NEW i \in 0 .. n - 1
  PROVE  i % n = i /\ (i + n) % n = i
OBVIOUS

LEMMA RoundOnce ==
  ASSUME NEW n \in Nat \ {0}, NEW s \in 1 .. n
  PROVE  /\ Round(s, 0, n) = s /\ Round(s, n, n) = s
         /\ \A i \in 0 .. n : Round(s, i, n) \in 1 .. n
         /\ \A i \in 1 .. n - 1 : Round(s, i, n) # s
         /\ \A j \in 1 .. n : \E i \in 0 .. n - 1 : Round(s, i, n) = j
<1>1. ASSUME NEW j \in 1 .. n
      PROVE  \E i \in 0 .. n - 1 : Round(s, i, n) = j
  <2>1. CASE j >= s
    <3>1. j - s \in 0 .. n - 1 /\ Round(s, j - s, n) = j
      BY <2>1 DEF Round
    <3> QED
      BY <3>1
  <2>2. CASE ~(j >= s)
    <3>1. j - s + n \in 0 .. n - 1 /\ Round(s, j - s + n, n) = j
      BY <2>2 DEF Round
    <3> QED
      BY <3>1
  <2> QED
    BY <2>1, <2>2
<1> QED
  BY <1>1 DEF Round

LEMMA PlaceOf ==
  ASSUME NEW q, NEW h, NEW nx, IsList(q, h, nx), NEW j \in 1 .. Len(q)
  PROVE  Line!At(q[j], q) = j
<1>1. DOMAIN q = 1 .. Len(q)
  BY ListLength
<1> QED
  BY <1>1 DEF IsList, Line!At

\* The search starts behind the thread of the last turn, so a thread found at
\* its step i is i places away.
LEMMA SearchDistance ==
  ASSUME next \in Links, NEW q, IsList(q, run_queue, next), Len(q) # 0,
         NEW cur \in Members(q) \cup {Nil}
  PROVE  \E s \in 1 .. Len(q) :
            /\ StartOf(cur) = q[s]
            /\ \A i \in 0 .. Len(q) - 1 : Line!Distance(q[Round(s, i, Len(q))], cur, q) = i
<1> DEFINE n == Len(q)
           from == IF cur = Nil THEN 0 ELSE Line!At(cur, q)
<1>1. /\ n \in Nat \ {0} /\ run_queue = q[1] /\ q \in [1 .. n -> Threads]
      /\ \A i \in 1 .. n : q[i] # Nil /\ next[q[i]] = IF i < n THEN q[i + 1] ELSE Nil
  BY ListLength DEF Members, IsList
<1>2. \A j \in 1 .. n : Line!At(q[j], q) = j
  BY PlaceOf
<1> HIDE DEF n, from
<1>3. ASSUME NEW s \in 1 .. n, from = s - 1 \/ (s = 1 /\ from = n),
             NEW i \in 0 .. n - 1
      PROVE  Line!Distance(q[Round(s, i, n)], cur, q) = i
  <2> DEFINE r == Round(s, i, n)
  <2>1. r \in 1 .. n
    BY <1>1 DEF Round
  <2>3. r + n - from - 1 = i \/ r + n - from - 1 = i + n
    BY <1>1, <1>3 DEF Round
  <2> HIDE DEF r
  <2>2. Line!Distance(q[r], cur, q) = (r + n - from - 1) % n
    BY <1>2, <2>1 DEF Line!Distance, from, n
  <2> QED
    BY <1>1, <2>2, <2>3, Remainders, Zenon DEF r
<1>4. CASE cur = Nil
  <2>1. StartOf(cur) = q[1] /\ from = 0
    BY <1>1, <1>4 DEF StartOf, from
  <2>2. 1 \in 1 .. n /\ from = 1 - 1
    BY <1>1, <2>1
  <2> QED
    BY <1>3, <2>1, <2>2 DEF n
<1>5. CASE cur # Nil
  <2>1. PICK k \in 1 .. n : cur = q[k]
    BY <1>5 DEF Members, n
  <2>2. from = k
    BY <1>2, <1>5, <2>1 DEF from
  <2>3. CASE k < n
    <3>1. k + 1 \in 1 .. n /\ from = (k + 1) - 1
      BY <1>1, <2>2, <2>3
    <3>2. StartOf(cur) = q[k + 1]
      BY <1>1, <1>5, <2>1, <2>3, <3>1 DEF StartOf
    <3> QED
      BY <1>3, <3>1, <3>2 DEF n
  <2>4. CASE ~(k < n)
    <3>1. k = n /\ 1 \in 1 .. n
      BY <1>1, <2>4
    <3>2. StartOf(cur) = q[1]
      BY <1>1, <1>5, <2>1, <2>4 DEF StartOf
    <3> QED
      BY <1>3, <2>2, <3>1, <3>2 DEF n
  <2> QED
    BY <2>3, <2>4
<1> QED
  BY <1>4, <1>5

\* scheduler_pick_next ends, and gives the turn to the nearest runnable thread of
\* the queue behind the last turn; only if there is none it leaves the turn where
\* it is.
LEMMA PickNext ==
  ASSUME next \in Links, NEW q, IsList(q, run_queue, next),
         current_thread \in Members(q) \cup {Nil},
         NEW st, scheduler_pick_next(st)
  PROVE  LET able == {t \in Members(q) : thread_is_runnable(t, st)}
         IN  /\ hung' = FALSE
             /\ able = {} => current_thread' = current_thread /\ state' = st
             /\ able # {} => /\ Line!Nearest(current_thread', able, current_thread, q)
                             /\ state' = [st EXCEPT ![current_thread'] = "RUNNING"]
<1> DEFINE n == Len(q)
           able == {t \in Members(q) : thread_is_runnable(t, st)}
           c == Candidates(StartOf(current_thread))
           hits == {i \in DOMAIN c : LookedAt(c, i) /\ thread_is_runnable(c[i], st)}
           back == \E i \in DOMAIN c : i > 0 /\ c[i] = c[0]
<1>1. n \in Nat /\ n <= N /\ N \in Nat
  BY ListLength, NType
<1>2. CASE n = 0
  <2>1. run_queue = Nil /\ Members(q) = {}
    BY <1>2 DEF IsList, Members
  <2> QED
    BY <2>1 DEF scheduler_pick_next
<1>3. CASE n # 0
  <2>1. run_queue # Nil /\ n \in Nat \ {0}
    BY <1>1, <1>3, ListLength DEF IsList, Members
  <2>2. PICK s \in 1 .. n :
            /\ StartOf(current_thread) = q[s]
            /\ \A i \in 0 .. n - 1 : Line!Distance(q[Round(s, i, n)], current_thread, q) = i
    BY <1>3, SearchDistance, SMTT(90)
  <2>3. DOMAIN c = 0 .. N /\ \A i \in 0 .. n : c[i] = q[Round(s, i, n)]
    BY <2>2, CandidatesOfList
  <2>4. scheduler_pick_next(st) =
          IF run_queue = Nil
          THEN current_thread' = Nil /\ state' = st /\ hung' = FALSE
          ELSE IF hits # {}
          THEN /\ current_thread' = c[Min(hits)]
               /\ state' = [st EXCEPT ![c[Min(hits)]] = "RUNNING"]
               /\ hung' = FALSE
          ELSE current_thread' = current_thread /\ state' = st /\ hung' = ~back
    BY ZenonT(60) DEF scheduler_pick_next
  <2> HIDE DEF c, n
  <2>5. /\ Round(s, 0, n) = s /\ Round(s, n, n) = s
        /\ \A i \in 0 .. n : Round(s, i, n) \in 1 .. n
        /\ \A i \in 1 .. n - 1 : Round(s, i, n) # s
        /\ \A j \in 1 .. n : \E i \in 0 .. n - 1 : Round(s, i, n) = j
    BY <2>1, RoundOnce, Zenon
  <2>6. \A i, j \in 1 .. n : q[i] = q[j] => i = j
    BY DEF IsList, n
  <2>7. c[0] = q[s] /\ c[n] = q[s] /\ n \in DOMAIN c
    <3>1. 0 \in 0 .. n /\ n \in 0 .. n /\ n \in 0 .. N
      BY <1>1, <2>1
    <3>2. c[0] = q[Round(s, 0, n)] /\ c[n] = q[Round(s, n, n)]
      BY <2>3, <3>1
    <3> QED
      BY <2>3, <2>5, <3>1, <3>2, Zenon
  <2>8. back
    BY <2>1, <2>7
  <2>9. \A i \in DOMAIN c : LookedAt(c, i) <=> i \in 0 .. n - 1
    <3>1. ASSUME NEW i \in DOMAIN c, i \in 0 .. n - 1
          PROVE  LookedAt(c, i)
      <4> SUFFICES ASSUME NEW j \in 1 .. i PROVE c[j] # c[0]
        BY DEF LookedAt
      <4>1. j \in 1 .. n - 1 /\ j \in 0 .. n
        BY <1>1, <3>1
      <4>2. c[j] = q[Round(s, j, n)] /\ Round(s, j, n) \in 1 .. n /\ Round(s, j, n) # s
        BY <2>3, <2>5, <4>1
      <4> QED
        BY <2>6, <2>7, <4>2
    <3>2. ASSUME NEW i \in DOMAIN c, ~(i \in 0 .. n - 1)
          PROVE  ~LookedAt(c, i)
      <4>1. n \in 1 .. i
        BY <1>1, <2>1, <2>3, <3>2, SMTT(60)
      <4> QED
        BY <2>7, <4>1 DEF LookedAt
    <3> QED
      BY <3>1, <3>2
  <2>10. ASSUME NEW t \in able
         PROVE  \E i \in hits : t = c[i] /\ Line!Distance(t, current_thread, q) = i
    <3>1. PICK j \in 1 .. n : t = q[j]
      BY DEF Members, n
    <3>2. PICK i \in 0 .. n - 1 : Round(s, i, n) = j
      BY <2>5
    <3>3. i \in DOMAIN c /\ c[i] = t /\ i \in 0 .. n
      BY <1>1, <2>3, <3>1, <3>2, SMTT(60)
    <3>4. i \in hits
      BY <2>9, <3>3, SMTT(60)
    <3> QED
      BY <2>2, <3>1, <3>2, <3>3, <3>4, SMTT(60)
  <2>11. ASSUME NEW i \in hits
         PROVE  /\ i \in Nat /\ c[i] \in able /\ Line!Distance(c[i], current_thread, q) = i
    <3>1. i \in 0 .. n - 1 /\ i \in 0 .. n
      BY <1>1, <2>9
    <3>2. c[i] = q[Round(s, i, n)] /\ Round(s, i, n) \in 1 .. n
      BY <2>3, <2>5, <3>1, Zenon
    <3> QED
      BY <2>2, <3>1, <3>2 DEF Members, n
  <2>12. CASE able = {}
    <3>1. hits = {}
      BY <2>11, <2>12
    <3> HIDE DEF hits, back
    <3> QED
      BY <2>1, <2>4, <2>8, <2>12, <3>1, Zenon
  <2>13. CASE able # {}
    <3>1. hits # {} /\ hits \subseteq Nat
      BY <2>10, <2>11, <2>13
    <3> HIDE DEF hits, back, able
    <3>2. Min(hits) \in hits /\ \A k \in hits : Min(hits) <= k
      BY <3>1, Least, Zenon DEF Min
    <3>3. /\ current_thread' = c[Min(hits)] /\ hung' = FALSE
          /\ state' = [st EXCEPT ![current_thread'] = "RUNNING"]
      BY <2>1, <2>4, <3>1, Zenon
    <3>4. ASSUME NEW u \in able
          PROVE  Line!Distance(current_thread', current_thread, q) <= Line!Distance(u, current_thread, q)
      BY <2>10, <2>11, <3>2, <3>3, SMTT(60)
    <3>5. Line!Nearest(current_thread', able, current_thread, q)
      BY <2>11, <3>2, <3>3, <3>4 DEF Line!Nearest
    <3> QED
      BY <2>13, <3>3, <3>5 DEF able
  <2> QED
    BY <2>12, <2>13, Zenon
<1> QED
  BY <1>2, <1>3, Zenon

-----------------------------------------------------------------------------
(* The inductive invariant: the queue's links spell a sequence q of live     *)
(* threads, and what QueueSound says of the queue holds of q.                *)

QueueIs(q) ==
    /\ IsList(q, run_queue, next)
    /\ Members(q) \subseteq allocated
    /\ \A t \in allocated \ Members(q) : next[t] = Nil
    /\ \A t \in Members(q) : state[t] = "RUNNING" => t = current_thread
    /\ current_thread \in Members(q) \cup {Nil}

SchedInv == SchedTypeOK /\ hung = FALSE /\ \E q : QueueIs(q)

Ready == {t \in Queued : thread_is_runnable(t, state)}

\* A step of the round-robin line, or none.
LineStep == [Line!RunQueueNext]_<<Listed(run_queue, next), Ready, current_thread>>

LEMMA Mapped ==
  ASSUME SchedTypeOK, NEW q, QueueIs(q)
  PROVE  /\ Queued = Members(q) /\ Listed(run_queue, next) = q /\ ~Circular(run_queue, next)
         /\ Members(q) \subseteq Threads /\ Nil \notin Members(q)
         /\ Ready = {t \in Members(q) : thread_is_runnable(t, state)}
<1>1. next \in Links
  BY DEF SchedTypeOK, Links
<1>2. Queued = Members(q) /\ Listed(run_queue, next) = q /\ ~Circular(run_queue, next)
  BY <1>1, ListFacts DEF QueueIs, Queued
<1>3. Members(q) \subseteq Threads /\ Nil \notin Members(q)
  BY ListLength DEF QueueIs
<1> QED
  BY <1>2, <1>3 DEF Ready

\* The same of the state after a step.
LEMMA MappedNext ==
  ASSUME SchedTypeOK', NEW q, QueueIs(q)'
  PROVE  /\ Queued' = Members(q) /\ Listed(run_queue, next)' = q
         /\ Ready' = {t \in Members(q) : thread_is_runnable(t, state')}
<1>1. next' \in Links
  BY DEF SchedTypeOK, Links
<1>2. IsList(q, run_queue', next')
  BY DEF QueueIs
<1>3. OnList(run_queue', next') = Members(q) /\ Listed(run_queue', next') = q
  BY <1>1, <1>2, ListFacts
<1> QED
  BY <1>3 DEF Ready, Queued

LEMMA SchedInvImplies == SchedInv => QueueSound
<1> SUFFICES ASSUME SchedInv PROVE QueueSound
  OBVIOUS
<1>1. PICK q : QueueIs(q)
  BY DEF SchedInv
<1>2. SchedTypeOK /\ hung = FALSE
  BY DEF SchedInv
<1>3. Queued = Members(q) /\ ~Circular(run_queue, next) /\ Nil \notin Members(q)
  BY <1>1, <1>2, Mapped
<1> QED
  BY <1>1, <1>2, <1>3 DEF QueueSound, QueueIs, OneRunning

LEMMA SchedInitially == SchedInit => SchedInv /\ Line!RunQueueInit
<1> SUFFICES ASSUME SchedInit PROVE SchedInv /\ Line!RunQueueInit
  OBVIOUS
<1>1. SchedTypeOK /\ hung = FALSE
  BY Zenon DEF SchedInit, SchedTypeOK, ThreadState
<1>2. Members(<< >>) = {}
  BY DEF Members
<1>3. QueueIs(<< >>)
  BY <1>2 DEF SchedInit, QueueIs, IsList
<1>4. Queued = {} /\ Listed(run_queue, next) = << >>
  BY <1>1, <1>2, <1>3, Mapped
<1>5. Line!RunQueueInit
  BY <1>4 DEF Line!RunQueueInit, SchedInit
<1> QED
  BY <1>1, <1>3, <1>5 DEF SchedInv

LEMMA YieldKeeps ==
  ASSUME SchedInv, scheduler_yield
  PROVE  SchedInv' /\ LineStep
<1>1. PICK q : QueueIs(q)
  BY DEF SchedInv
<1>2. SchedTypeOK
  BY DEF SchedInv
<1>3. /\ Queued = Members(q) /\ Listed(run_queue, next) = q /\ Members(q) \subseteq Threads
      /\ Nil \notin Members(q) /\ Ready = {t \in Members(q) : thread_is_runnable(t, state)}
  BY <1>1, <1>2, Mapped
<1> DEFINE st == IF current_thread # Nil /\ state[current_thread] = "RUNNING"
                 THEN [state EXCEPT ![current_thread] = "READY"] ELSE state
           able == {t \in Members(q) : thread_is_runnable(t, st)}
<1>4. scheduler_pick_next(st) /\ UNCHANGED <<allocated, next, run_queue>>
  BY DEF scheduler_yield, YieldFrom
<1>5. st \in [Threads -> ThreadState] /\ \A t \in Members(q) : st[t] # "RUNNING"
  BY <1>1, <1>2, <1>3 DEF SchedTypeOK, QueueIs, ThreadState
<1>6. able = Ready
  <2>1. \A t \in Members(q) : thread_is_runnable(t, st) <=> thread_is_runnable(t, state)
    BY <1>1, <1>2, <1>3 DEF SchedTypeOK, thread_is_runnable, QueueIs
  <2> QED
    BY <1>3, <2>1, Zenon
<1> HIDE DEF st
<1>7. /\ hung' = FALSE
      /\ able = {} => current_thread' = current_thread /\ state' = st
      /\ able # {} => /\ Line!Nearest(current_thread', able, current_thread, q)
                      /\ state' = [st EXCEPT ![current_thread'] = "RUNNING"]
  <2>1. next \in Links /\ IsList(q, run_queue, next) /\ current_thread \in Members(q) \cup {Nil}
    BY <1>1, <1>2 DEF SchedTypeOK, QueueIs, Links
  <2> QED
    BY <1>4, <2>1, PickNext, Zenon
<1>8. CASE able = {}
  <2>1. SchedTypeOK'
    BY <1>2, <1>4, <1>5, <1>7, <1>8, ZenonT(60) DEF SchedTypeOK
  <2>2. QueueIs(q)'
    BY <1>1, <1>4, <1>5, <1>7, <1>8, SMTT(60) DEF QueueIs
  <2>3. Ready' = Ready /\ Listed(run_queue, next)' = q
    BY <1>6, <1>7, <1>8, <2>1, <2>2, MappedNext, SMTT(60)
  <2> QED
    BY <1>3, <1>7, <1>8, <2>1, <2>2, <2>3, SMTT(60) DEF SchedInv, LineStep
<1>9. CASE able # {}
  <2>1. current_thread' \in able /\ current_thread' \in Members(q)
    BY <1>7, <1>9 DEF Line!Nearest
  <2>2. state' = [st EXCEPT ![current_thread'] = "RUNNING"]
    BY <1>7, <1>9
  <2>3. SchedTypeOK'
    BY <1>2, <1>3, <1>4, <1>5, <1>7, <2>1, <2>2, ZenonT(60) DEF SchedTypeOK, ThreadState
  <2>4. QueueIs(q)'
    BY <1>1, <1>3, <1>4, <1>5, <2>1, <2>2, SMTT(60) DEF QueueIs
  <2>5. Listed(run_queue, next)' = q /\ Ready' = {t \in Members(q) : thread_is_runnable(t, state')}
    BY <2>3, <2>4, MappedNext, SMTT(60)
  <2>6. Ready' = able
    BY <1>3, <1>5, <2>1, <2>2, <2>5, SMTT(60) DEF thread_is_runnable
  <2>7. Line!Turn
    BY <1>3, <1>6, <1>7, <1>9, <2>5, <2>6, SMTT(60) DEF Line!Turn, Ready
  <2> QED
    BY <1>7, <2>3, <2>4, <2>7 DEF SchedInv, LineStep, Line!RunQueueNext
<1> QED
  BY <1>8, <1>9

LEMMA CreateKeeps ==
  ASSUME SchedInv, NEW t \in Threads, thread_create(t)
  PROVE  SchedInv' /\ LineStep
<1>1. PICK q : QueueIs(q)
  BY DEF SchedInv
<1>2. SchedTypeOK
  BY DEF SchedInv
<1>3. /\ Listed(run_queue, next) = q /\ Members(q) \subseteq Threads
      /\ Ready = {u \in Members(q) : thread_is_runnable(u, state)}
  BY <1>1, <1>2, Mapped
<1>4. SchedTypeOK' /\ hung' = FALSE
  BY <1>2 DEF SchedInv, SchedTypeOK, thread_create, ThreadState
<1>5. \A u \in Members(q) : u # t /\ next'[u] = next[u] /\ state'[u] = state[u]
  BY <1>1, <1>2, <1>3, SMTT(60) DEF QueueIs, SchedTypeOK, thread_create
<1>6. IsList(q, run_queue', next')
  <2>1. \A i \in 1 .. Len(q) : next'[q[i]] = next[q[i]]
    BY <1>5 DEF Members
  <2> QED
    BY <1>1, <2>1 DEF QueueIs, IsList, thread_create
<1>7. QueueIs(q)'
  BY <1>1, <1>2, <1>5, <1>6, SMTT(60) DEF QueueIs, SchedTypeOK, thread_create
<1>8. Listed(run_queue, next)' = q /\ Ready' = Ready
  BY <1>3, <1>4, <1>5, <1>7, MappedNext, SMTT(60) DEF thread_is_runnable
<1> QED
  BY <1>3, <1>4, <1>7, <1>8 DEF SchedInv, LineStep, thread_create

LEMMA DestroyKeeps ==
  ASSUME SchedInv, NEW t \in allocated \ Queued, thread_destroy(t)
  PROVE  SchedInv' /\ LineStep
<1>1. PICK q : QueueIs(q)
  BY DEF SchedInv
<1>2. SchedTypeOK
  BY DEF SchedInv
<1>3. Queued = Members(q)
  BY <1>1, <1>2, Mapped
<1>4. SchedTypeOK' /\ hung' = FALSE
  BY <1>2 DEF SchedInv, SchedTypeOK, thread_destroy
<1>5. QueueIs(q)'
  BY <1>1, <1>3 DEF QueueIs, thread_destroy
<1> QED
  BY <1>4, <1>5 DEF SchedInv, LineStep, thread_destroy, Ready, Queued

LEMMA SetStateKeeps ==
  ASSUME SchedInv, NEW t \in allocated, NEW s \in {"READY", "BLOCKED", "EXITED"}, thread_set_state(t, s)
  PROVE  SchedInv' /\ LineStep
<1>1. PICK q : QueueIs(q)
  BY DEF SchedInv
<1>2. SchedTypeOK
  BY DEF SchedInv
<1>3. /\ Queued = Members(q) /\ Listed(run_queue, next) = q /\ Members(q) \subseteq Threads
      /\ Ready = {u \in Members(q) : thread_is_runnable(u, state)}
  BY <1>1, <1>2, Mapped
<1>4. SchedTypeOK' /\ hung' = FALSE
  BY <1>2 DEF SchedInv, SchedTypeOK, thread_set_state, ThreadState
<1>5. \A u \in Threads : state'[u] = IF u = t THEN s ELSE state[u]
  BY <1>2 DEF SchedTypeOK, thread_set_state
<1>6. QueueIs(q)'
  BY <1>1, <1>2, <1>3, <1>5 DEF QueueIs, SchedTypeOK, thread_set_state
<1>7. Listed(run_queue, next)' = q /\ Ready' = {u \in Members(q) : thread_is_runnable(u, state')}
  BY <1>4, <1>6, MappedNext, SMTT(60)
<1>8. /\ t \in Members(q) /\ s = "READY" => Ready' = Ready \cup {t}
      /\ t \in Members(q) /\ s # "READY" => Ready' = Ready \ {t}
      /\ t \notin Members(q) => Ready' = Ready
  BY <1>3, <1>5, <1>7 DEF thread_is_runnable
<1>9. t \in Threads /\ UNCHANGED <<Listed(run_queue, next), current_thread>>
  BY <1>2, <1>3, <1>7, SMTT(60) DEF SchedTypeOK, thread_set_state
<1>10. Members(q) = Line!Range(q)
  BY <1>1, ListLength DEF QueueIs, Members, Line!Range
<1>11. LineStep
  <2>1. CASE Ready' = Ready
    BY <1>9, <2>1 DEF LineStep
  <2>2. CASE Ready' # Ready /\ t \in Members(q) /\ s = "READY"
    <3>1. t \in Line!Range(q) \ Ready
      BY <1>8, <1>10, <2>2, SMTT(60)
    <3>2. Line!Wake(t)
      BY <1>3, <1>8, <1>9, <2>2, <3>1, SMTT(60) DEF Line!Wake, Ready
    <3> QED
      BY <1>9, <3>2 DEF LineStep, Line!RunQueueNext
  <2>3. CASE Ready' # Ready /\ t \in Members(q) /\ s # "READY"
    <3>1. t \in Ready
      BY <1>8, <2>3, SMTT(60)
    <3>2. Line!Block(t)
      BY <1>3, <1>8, <1>9, <2>3, <3>1, SMTT(60) DEF Line!Block, Ready
    <3> QED
      BY <1>9, <3>2 DEF LineStep, Line!RunQueueNext
  <2> QED
    BY <1>8, <2>1, <2>2, <2>3
<1> QED
  BY <1>4, <1>6, <1>11 DEF SchedInv

\* The thread goes to the end: the walk of scheduler_add ends at the last node.
LEMMA AddKeeps ==
  ASSUME SchedInv, NEW t \in allocated \ Queued, scheduler_add(t)
  PROVE  SchedInv' /\ LineStep
<1>1. PICK q : QueueIs(q)
  BY DEF SchedInv
<1>2. SchedTypeOK /\ next \in Links /\ t \in Threads
  BY DEF SchedInv, SchedTypeOK, Links
<1>3. /\ Queued = Members(q) /\ Listed(run_queue, next) = q /\ Members(q) \subseteq Threads
      /\ Nil \notin Members(q) /\ ~Circular(run_queue, next)
      /\ Ready = {u \in Members(q) : thread_is_runnable(u, state)}
  BY <1>1, <1>2, Mapped, SMTT(60)
<1>4. t \notin Members(q) /\ next[t] = Nil /\ [next EXCEPT ![t] = Nil] = next
  BY <1>1, <1>2, <1>3 DEF QueueIs, Links
<1> DEFINE q2 == Append(q, t)
           n == Len(q)
           tail == CHOOSE u \in OnList(run_queue, next) : next[u] = Nil
<1>5. /\ state' = [state EXCEPT ![t] = "READY"] /\ UNCHANGED <<allocated, current_thread>>
      /\ run_queue' = IF run_queue = Nil THEN t ELSE run_queue
      /\ hung' = FALSE
      /\ next' = IF run_queue = Nil THEN next ELSE [next EXCEPT ![tail] = t]
  <2>1. Circular(run_queue, next) = FALSE
    BY <1>3 DEF Circular
  <2> DEFINE Appended(nx) ==
        LET last == CHOOSE u \in OnList(run_queue, nx) : nx[u] = Nil
        IN  /\ state' = [state EXCEPT ![t] = "READY"]
            /\ run_queue' = IF run_queue = Nil THEN t ELSE run_queue
            /\ hung' = Circular(run_queue, nx)
            /\ next' = IF run_queue = Nil \/ Circular(run_queue, nx) THEN nx
                       ELSE [nx EXCEPT ![last] = t]
  <2>2. Appended([next EXCEPT ![t] = Nil]) /\ UNCHANGED <<allocated, current_thread>>
    BY DEF scheduler_add, Enqueue
  <2>3. Appended(next)
    <3> HIDE DEF Appended
    <3> QED
      BY <1>4, <2>2, SMTT(60)
  <2> QED
    BY <2>1, <2>2, <2>3, Zenon
<1>6. /\ q \in Seq(Threads) /\ n \in Nat /\ run_queue = IF n = 0 THEN Nil ELSE q[1]
      /\ \A i \in 1 .. n : q[i] \in Members(q) /\ next[q[i]] = IF i < n THEN q[i + 1] ELSE Nil
      /\ \A i, j \in 1 .. n : q[i] = q[j] => i = j
  BY <1>1, ListLength DEF QueueIs, IsList, Members
<1>7. /\ q2 \in Seq(Threads) /\ Len(q2) = n + 1 /\ q2[n + 1] = t
      /\ \A i \in 1 .. n : q2[i] = q[i]
  BY <1>2, <1>6, SMTT(60)
<1> HIDE DEF q2, n, tail
<1>8. Members(q2) = Members(q) \cup {t}
  <2>1. Members(q2) = {q2[i] : i \in 1 .. n + 1} /\ Members(q) = {q[i] : i \in 1 .. n}
    BY <1>7 DEF Members, n
  <2>2. \A i \in 1 .. n + 1 : i = n + 1 \/ i \in 1 .. n
    BY <1>6
  <2>3. n + 1 \in 1 .. n + 1 /\ \A i \in 1 .. n : i \in 1 .. n + 1
    BY <1>6
  <2> QED
    BY <1>7, <2>1, <2>2, <2>3
<1>9. n # 0 => tail = q[n] /\ tail \in Threads /\ tail # t
  <2> SUFFICES ASSUME n # 0 PROVE tail = q[n] /\ tail \in Threads /\ tail # t
    OBVIOUS
  <2>1. n \in 1 .. n /\ q[n] \in Members(q) /\ next[q[n]] = Nil
    BY <1>6
  <2>2. \A u \in Members(q) : next[u] = Nil => u = q[n]
    <3> SUFFICES ASSUME NEW i \in 1 .. n, next[q[i]] = Nil PROVE i = n
      BY DEF Members, n
    <3>1. CASE i < n
      <4>1. i + 1 \in 1 .. n /\ next[q[i]] = q[i + 1]
        BY <1>6, <3>1
      <4> QED
        BY <1>3, <1>6, <4>1
    <3> QED
      BY <1>6, <3>1
  <2>3. OnList(run_queue, next) = Members(q)
    BY <1>3 DEF Queued
  <2>4. tail = q[n]
    BY <2>1, <2>2, <2>3, SMTT(60) DEF tail
  <2> QED
    BY <1>3, <1>4, <2>1, <2>4
<1>10. IsList(q2, run_queue', next')
  <2>1. \A i, j \in 1 .. n + 1 : q2[i] = q2[j] => i = j
    <3>1. \A i \in 1 .. n + 1 : i = n + 1 \/ i \in 1 .. n
      BY <1>6
    <3>2. \A i \in 1 .. n : q2[i] # t
      BY <1>4, <1>6, <1>7
    <3> QED
      BY <1>6, <1>7, <3>1, <3>2, SMTT(60)
  <2>2. run_queue' = q2[1]
    <3>1. CASE n = 0
      BY <1>5, <1>6, <1>7, <3>1, SMTT(60)
    <3>2. CASE n # 0
      <4>1. 1 \in 1 .. n /\ q[1] # Nil
        BY <1>3, <1>6, <3>2
      <4> QED
        BY <1>5, <1>6, <1>7, <3>2, <4>1, SMTT(60)
    <3> QED
      BY <3>1, <3>2
  <2>3. ASSUME NEW i \in 1 .. n + 1
        PROVE  next'[q2[i]] = IF i < n + 1 THEN q2[i + 1] ELSE Nil
    <3>1. CASE n = 0
      <4>1. i = n + 1 /\ run_queue = Nil
        BY <1>6, <3>1
      <4> QED
        BY <1>4, <1>5, <1>7, <4>1
    <3>2. CASE n # 0
      <4>1. run_queue # Nil /\ next' = [next EXCEPT ![q[n]] = t] /\ q[n] \in Threads /\ q[n] # t
        <5>1. 1 \in 1 .. n /\ q[1] # Nil
          BY <1>3, <1>6, <3>2, SMTT(60)
        <5> QED
          BY <1>5, <1>6, <1>9, <3>2, <5>1, ZenonT(60)
      <4>2. CASE i = n + 1
        BY <1>2, <1>4, <1>6, <1>7, <4>1, <4>2, SMTT(60) DEF Links
      <4>3. CASE i = n
        BY <1>2, <1>6, <1>7, <4>1, <4>3, SMTT(60) DEF Links
      <4>4. CASE i < n
        <5>1. i \in 1 .. n /\ n \in 1 .. n /\ i + 1 \in 1 .. n /\ q[i] # q[n] /\ q[i] \in Threads
          BY <1>3, <1>6, <4>4
        <5>2. next'[q[i]] = q[i + 1]
          BY <1>2, <1>6, <4>1, <4>4, <5>1, SMTT(30) DEF Links
        <5> QED
          BY <1>6, <1>7, <4>4, <5>1, <5>2, SMTT(60)
      <4> QED
        BY <1>6, <4>2, <4>3, <4>4
    <3> QED
      BY <3>1, <3>2
  <2> QED
    BY <1>6, <1>7, <2>1, <2>2, <2>3, SMTT(60) DEF IsList
<1>11. SchedTypeOK'
  BY <1>2, <1>3, <1>5, <1>6, <1>9, Zenon DEF SchedTypeOK, ThreadState
<1>12. QueueIs(q2)'
  <2>1. ASSUME NEW u \in allocated \ Members(q2)
        PROVE  next'[u] = Nil
    <3>1. u \notin Members(q) /\ next[u] = Nil /\ u \in Threads
      BY <1>1, <1>2, <1>8 DEF QueueIs, SchedTypeOK
    <3>2. n # 0 => tail \in Members(q)
      BY <1>6, <1>9
    <3> QED
      BY <1>2, <1>5, <1>6, <1>9, <3>1, <3>2, SMTT(60) DEF Links
  <2>2. \A u \in Members(q2) : state'[u] = "RUNNING" => u = current_thread
    BY <1>1, <1>2, <1>3, <1>5, <1>8 DEF QueueIs, SchedTypeOK
  <2> QED
    BY <1>1, <1>5, <1>8, <1>10, <2>1, <2>2, SMTT(60) DEF QueueIs
<1>13. Listed(run_queue, next)' = q2 /\ Ready' = {u \in Members(q2) : thread_is_runnable(u, state')}
  BY <1>11, <1>12, MappedNext
<1>14. Ready' = Ready \cup {t}
  BY <1>2, <1>3, <1>5, <1>8, <1>13, SMTT(90) DEF thread_is_runnable, SchedTypeOK
<1>15. Members(q) = Line!Range(q)
  BY <1>1, ListLength DEF QueueIs, Members, Line!Range
<1>16. Line!Join(t)
  BY <1>3, <1>4, <1>5, <1>13, <1>14, <1>15, Zenon DEF Line!Join, Ready, q2
<1> QED
  BY <1>2, <1>5, <1>11, <1>12, <1>16, SMTT(60) DEF SchedInv, LineStep, Line!RunQueueNext

LEMMA CutOut ==
  ASSUME NEW T, NEW q \in Seq(T), NEW k \in 1 .. Len(q)
  PROVE  LET r == SubSeq(q, 1, k - 1) \o SubSeq(q, k + 1, Len(q))
         IN  /\ r \in Seq(T) /\ Len(r) = Len(q) - 1
             /\ \A i \in 1 .. Len(q) - 1 : r[i] = q[IF i < k THEN i ELSE i + 1]
<1> DEFINE a == SubSeq(q, 1, k - 1)
           b == SubSeq(q, k + 1, Len(q))
<1>1. Len(q) \in Nat /\ k \in Nat /\ 1 <= k /\ k <= Len(q)
  BY SMTT(60)
<1>2. a \in Seq(T) /\ Len(a) = k - 1 /\ \A i \in 1 .. k - 1 : a[i] = q[i]
  BY <1>1, SMTT(60)
<1>3. b \in Seq(T) /\ Len(b) = Len(q) - k /\ \A i \in 1 .. Len(q) - k : b[i] = q[k + i]
  BY <1>1, SMTT(90)
<1> HIDE DEF a, b
<1>4. /\ a \o b \in Seq(T) /\ Len(a \o b) = Len(q) - 1
      /\ \A i \in 1 .. Len(q) - 1 : (a \o b)[i] = IF i <= k - 1 THEN a[i] ELSE b[i - (k - 1)]
  <2>1. /\ a \o b \in Seq(T) /\ Len(a \o b) = Len(a) + Len(b)
        /\ \A i \in 1 .. Len(a) + Len(b) : (a \o b)[i] = IF i <= Len(a) THEN a[i] ELSE b[i - Len(a)]
    <3>1. a \in Seq(T) /\ b \in Seq(T)
      BY <1>2, <1>3
    <3> QED
      BY ONLY <3>1
  <2>3. Len(a) + Len(b) = Len(q) - 1
    BY <1>1, <1>2, <1>3
  <2> QED
    BY <1>2, <2>1, <2>3, SMTT(60)
<1>5. ASSUME NEW i \in 1 .. Len(q) - 1
      PROVE  (a \o b)[i] = q[IF i < k THEN i ELSE i + 1]
  <2>1. CASE i < k
    BY <1>1, <1>2, <1>4, <2>1
  <2>2. CASE ~(i < k)
    <3>1. i - (k - 1) \in 1 .. Len(q) - k /\ k + (i - (k - 1)) = i + 1
      BY <1>1, <2>2, SMTT(30)
    <3> QED
      BY <1>1, <1>3, <1>4, <2>2, <3>1, SMTT(30)
  <2> QED
    BY <2>1, <2>2, Zenon
<1> QED
  BY <1>4, <1>5, Zenon DEF a, b

\* The thread is cut out: the node before it, if any, is linked to the one after.
LEMMA RemoveKeeps ==
  ASSUME SchedInv, NEW t \in Queued, scheduler_remove(t)
  PROVE  SchedInv' /\ LineStep
<1>1. PICK q : QueueIs(q)
  BY DEF SchedInv
<1>2. SchedTypeOK /\ next \in Links
  BY DEF SchedInv, SchedTypeOK, Links
<1>3. /\ Queued = Members(q) /\ Listed(run_queue, next) = q /\ Members(q) \subseteq Threads
      /\ Nil \notin Members(q) /\ t \in Members(q)
      /\ Ready = {u \in Members(q) : thread_is_runnable(u, state)}
  BY <1>1, <1>2, Mapped, SMTT(90)
<1> DEFINE n == Len(q)
<1>4. PICK k \in 1 .. n : t = q[k]
  BY <1>3, SMTT(30) DEF Members
<1> DEFINE q2 == SubSeq(q, 1, k - 1) \o SubSeq(q, k + 1, n)
           old(i) == IF i < k THEN i ELSE i + 1
<1>5. /\ q \in Seq(Threads) /\ n \in Nat \ {0} /\ run_queue = q[1] /\ k \in Nat
      /\ \A i \in 1 .. n : q[i] \in Members(q) /\ next[q[i]] = IF i < n THEN q[i + 1] ELSE Nil
      /\ \A i, j \in 1 .. n : q[i] = q[j] => i = j
  <2>1. IsList(q, run_queue, next) /\ n \in Nat /\ n # 0
    BY <1>1, <1>4, ListLength DEF QueueIs
  <2>2. \A i \in 1 .. n : q[i] \in Members(q)
    BY DEF Members
  <2> QED
    BY <1>4, <2>1, <2>2, SMTT(90) DEF IsList
<1>6. q2 \in Seq(Threads) /\ Len(q2) = n - 1 /\ \A i \in 1 .. n - 1 : q2[i] = q[old(i)]
  <2>1. q \in Seq(Threads) /\ k \in 1 .. Len(q)
    BY <1>4, <1>5
  <2> QED
    BY <2>1, CutOut, Zenon
<1> HIDE DEF q2, n
<1>7. \A i \in 1 .. n - 1 : old(i) \in 1 .. n /\ old(i) # k
  BY <1>4, <1>5
<1>8. Members(q2) = Members(q) \ {t}
  <2>1. Members(q2) = {q2[i] : i \in 1 .. n - 1} /\ Members(q) = {q[i] : i \in 1 .. n}
    BY <1>6, SMTT(60) DEF Members, n
  <2>2. ASSUME NEW j \in 1 .. n, q[j] # t
        PROVE  q[j] \in Members(q2)
    <3>1. CASE j < k
      <4>1. j \in 1 .. n - 1 /\ old(j) = j
        BY <1>4, <1>5, <3>1, SMTT(60)
      <4> QED
        BY <1>6, <2>1, <4>1, SMTT(60)
    <3>2. CASE k < j
      <4>1. j - 1 \in 1 .. n - 1 /\ old(j - 1) = j
        BY <1>4, <1>5, <3>2, SMTT(60)
      <4> QED
        BY <1>6, <2>1, <4>1, SMTT(60)
    <3> QED
      BY <1>4, <1>5, <2>2, <3>1, <3>2, SMTT(60)
  <2>3. ASSUME NEW i \in 1 .. n - 1
        PROVE  q2[i] \in Members(q) \ {t}
    <3>1. old(i) \in 1 .. n /\ old(i) # k /\ q2[i] = q[old(i)]
      BY <1>6, <1>7, SMTT(60)
    <3> HIDE DEF old
    <3> QED
      BY <1>4, <1>5, <3>1, SMTT(60)
  <2> QED
    BY <2>1, <2>2, <2>3
<1>9. /\ UNCHANGED <<allocated, state, hung>>
      /\ run_queue' = IF run_queue = t THEN next[t] ELSE run_queue
      /\ current_thread' = IF current_thread = t THEN Nil ELSE current_thread
      /\ next' \in Links
      /\ \A u \in Threads : next'[u] = IF u = t THEN Nil
                                       ELSE IF u \in Members(q) /\ next[u] = t THEN next[t]
                                       ELSE next[u]
  BY <1>2, <1>3, SMTT(60) DEF scheduler_remove, Links
<1>10. ASSUME NEW j \in 1 .. n, j # k
       PROVE  next'[q[j]] = IF j + 1 = k THEN IF k < n THEN q[k + 1] ELSE Nil
                            ELSE IF j < n THEN q[j + 1] ELSE Nil
  <2>1. q[j] \in Threads /\ q[j] # t /\ q[j] \in Members(q)
    BY <1>3, <1>4, <1>5, <1>10, SMTT(60)
  <2>2. next[q[j]] = IF j < n THEN q[j + 1] ELSE Nil
    BY <1>5
  <2>3. next[q[j]] = t <=> j + 1 = k
    <3>1. CASE j < n
      <4>1. j + 1 \in 1 .. n
        BY <1>5, <3>1, SMTT(60)
      <4> QED
        BY <1>4, <1>5, <2>2, <3>1, <4>1, SMTT(60)
    <3>2. CASE ~(j < n)
      BY <1>3, <1>4, <1>5, <2>2, <3>2, SMTT(60)
    <3> QED
      BY <3>1, <3>2, SMTT(60)
  <2>4. next[t] = IF k < n THEN q[k + 1] ELSE Nil
    BY <1>4, <1>5, SMTT(60)
  <2>5. next'[q[j]] = IF next[q[j]] = t THEN next[t] ELSE next[q[j]]
    BY <1>9, <2>1, SMTT(60)
  <2> QED
    BY <2>2, <2>3, <2>4, <2>5, SMTT(60)
<1>11. IsList(q2, run_queue', next')
  <2>1. \A i, j \in 1 .. n - 1 : q2[i] = q2[j] => i = j
    <3> SUFFICES ASSUME NEW i \in 1 .. n - 1, NEW j \in 1 .. n - 1, q2[i] = q2[j] PROVE i = j
      OBVIOUS
    <3>1. old(i) = old(j)
      <4> HIDE DEF old
      <4> QED
        BY <1>5, <1>6, <1>7, Zenon
    <3> QED
      BY <1>4, <1>5, <3>1
  <2>2. run_queue' = IF n - 1 = 0 THEN Nil ELSE q2[1]
    <3>1. CASE k = 1
      <4>1. run_queue' = IF 1 < n THEN q[2] ELSE Nil
        BY <1>4, <1>5, <1>9, <3>1, SMTT(60)
      <4>2. n - 1 # 0 => 1 \in 1 .. n - 1 /\ old(1) = 2
        BY <1>5, <3>1, SMTT(60)
      <4> QED
        BY <1>5, <1>6, <4>1, <4>2, SMTT(60)
    <3>2. CASE k # 1
      <4>1. 1 \in 1 .. n /\ 1 \in 1 .. n - 1 /\ old(1) = 1 /\ n - 1 # 0
        BY <1>4, <1>5, <3>2, SMTT(60)
      <4>2. run_queue' = q[1]
        BY <1>4, <1>5, <1>9, <3>2, <4>1, SMTT(60)
      <4> QED
        BY <1>6, <4>1, <4>2, SMTT(60)
    <3> QED
      BY <3>1, <3>2, SMTT(60)
  <2>3. ASSUME NEW i \in 1 .. n - 1
        PROVE  next'[q2[i]] = IF i < n - 1 THEN q2[i + 1] ELSE Nil
    <3> DEFINE j == old(i)
    <3>1. j \in 1 .. n /\ j # k /\ q2[i] = q[j]
      BY <1>6, <1>7, SMTT(60)
    <3>2. i < n - 1 => i + 1 \in 1 .. n - 1 /\ q2[i + 1] = q[old(i + 1)]
      BY <1>5, <1>6
    <3>3. CASE i < k
      <4>1. j = i
        BY <3>3, SMTT(60)
      <4>2. CASE i + 1 = k
        <5>1. old(i + 1) = k + 1 /\ (k < n <=> i < n - 1)
          BY <1>4, <1>5, <4>2, SMTT(60)
        <5> QED
          BY <1>10, <3>1, <3>2, <4>1, <4>2, <5>1, SMTT(60)
      <4>3. CASE i + 1 # k
        <5>1. old(i + 1) = i + 1 /\ i < n - 1 /\ i < n
          BY <1>4, <1>5, <3>3, <4>3, SMTT(60)
        <5> QED
          BY <1>10, <3>1, <3>2, <4>1, <4>3, <5>1, SMTT(60)
      <4> QED
        BY <4>2, <4>3
    <3>4. CASE ~(i < k)
      <4>1. j = i + 1 /\ j + 1 # k /\ old(i + 1) = j + 1 /\ (j < n <=> i < n - 1)
        BY <1>4, <1>5, <3>4, SMTT(60)
      <4> QED
        BY <1>10, <3>1, <3>2, <4>1, SMTT(60)
    <3> QED
      BY <3>3, <3>4, SMTT(60)
  <2> QED
    BY <1>5, <1>6, <2>1, <2>2, <2>3, SMTT(60) DEF IsList
<1>12. SchedTypeOK'
  BY <1>2, <1>3, <1>9, SMTT(60) DEF SchedTypeOK, Links
<1>13. QueueIs(q2)'
  <2>1. ASSUME NEW u \in allocated \ Members(q2)
        PROVE  next'[u] = Nil
    <3>1. u \in Threads /\ (u = t \/ u \in allocated \ Members(q))
      BY <1>2, <1>8 DEF SchedTypeOK
    <3> QED
      BY <1>1, <1>9, <3>1, SMTT(60) DEF QueueIs
  <2> QED
    BY <1>1, <1>8, <1>9, <1>11, <2>1, SMTT(60) DEF QueueIs
<1>14. Listed(run_queue, next)' = q2 /\ Ready' = {u \in Members(q2) : thread_is_runnable(u, state')}
  BY <1>12, <1>13, MappedNext, SMTT(60)
<1>15. Ready' = Ready \ {t}
  BY <1>3, <1>8, <1>9, <1>14, SMTT(60)
<1>16. Line!At(t, q) = k
  BY <1>1, <1>4, PlaceOf, SMTT(30) DEF QueueIs, n
<1>17. t \in Line!Range(q) /\ t \in Threads
  BY <1>1, <1>3, ListLength, Zenon DEF QueueIs, Members, Line!Range
<1>18. Line!Leave(t)
  BY <1>3, <1>9, <1>14, <1>15, <1>16, <1>17, ZenonT(60) DEF Line!Leave, Ready, q2, n
<1> QED
  BY <1>9, <1>12, <1>13, <1>17, <1>18 DEF SchedInv, LineStep, Line!RunQueueNext

LEMMA SchedStep == SchedInv /\ [ClientNext]_schedVars => SchedInv' /\ LineStep
<1> SUFFICES ASSUME SchedInv, [ClientNext]_schedVars PROVE SchedInv' /\ LineStep
  OBVIOUS
<1>1. CASE UNCHANGED schedVars
  BY <1>1 DEF schedVars, SchedInv, SchedTypeOK, QueueIs, LineStep, Ready, Queued
<1>2. CASE scheduler_yield
  BY <1>2, YieldKeeps
<1>3. CASE \E t \in Threads : thread_create(t)
  BY <1>3, CreateKeeps
<1>4. CASE \E t \in allocated \ Queued : scheduler_add(t) \/ thread_destroy(t)
  BY <1>4, AddKeeps, DestroyKeeps
<1>5. CASE \E t \in Queued : scheduler_remove(t)
  BY <1>5, RemoveKeeps
<1>6. CASE \E t \in allocated, s \in {"READY", "BLOCKED", "EXITED"} : thread_set_state(t, s)
  BY <1>6, SetStateKeeps
<1> QED
  BY <1>1, <1>2, <1>3, <1>4, <1>5, <1>6, SMTT(60) DEF ClientNext

\* The queue never becomes circular and never holds a freed thread, one queued
\* thread at most is RUNNING and no walk of scheduler.c runs for ever, whatever
\* number of threads there are (scheduler_add, scheduler_remove,
\* scheduler_pick_next).
THEOREM QueueSafety == ClientSpec => []QueueSound
<1>1. SchedInit => SchedInv
  BY SchedInitially
<1>2. SchedInv /\ [ClientNext]_schedVars => SchedInv'
  BY SchedStep
<1> QED
  BY <1>1, <1>2, SchedInvImplies, PTL DEF ClientSpec

\* The linked list with its search implements the round-robin line: a join goes to
\* its end, a removal leaves the order of the others alone, and every turn goes to
\* the nearest ready thread behind the last turn (scheduler_add, scheduler_remove,
\* scheduler_yield).
THEOREM QueueRefinement == ClientSpec => ImplementsRoundRobin
<1>1. SchedInit => SchedInv /\ Line!RunQueueInit
  BY SchedInitially
<1>2. SchedInv /\ [ClientNext]_schedVars => SchedInv' /\ LineStep
  BY SchedStep
<1>3. LineStep => [Line!RunQueueNext]_<<Listed(run_queue, next),
                                        {t \in Queued : thread_is_runnable(t, state)}, current_thread>>
  BY DEF LineStep, Ready
<1> QED
  BY <1>1, <1>2, <1>3, PTL DEF ClientSpec, ImplementsRoundRobin, Line!RunQueueSpec
================================================================================
