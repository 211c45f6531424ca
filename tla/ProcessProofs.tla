----------------------------- MODULE ProcessProofs -----------------------------
(* Processes, for any number of pids, exit codes and threads: process_list,    *)
(* current_process and the main threads stay consistent under any order of     *)
(* create, exec, exit, wait and yield, and no process leaves the list before   *)
(* its exit code was reported.                                                 *)
(*                                                                             *)
(* The invariant adds to ProcessesSound where the pids of the list and of the  *)
(* reaped processes come from: below next_pid, so that a new process is the    *)
(* newest one and was never reaped.                                            *)
EXTENDS Processes, SchedulerProofs

Descending(l) == \A i, j \in DOMAIN l : i < j => l[i] > l[j]

ProcRecord ==
    [parent : 0 .. MaxPid, state : {"NEW", "READY", "RUNNING", "ZOMBIE"},
     code : Codes \cup {0}, thread : Threads \cup {Nil}]

ProcInv ==
    /\ ProcessesSound
    /\ process_list \in Seq(Nat)
    /\ Listed_pids \subseteq 1 .. next_pid - 1
    /\ DOMAIN reaped \subseteq 1 .. next_pid - 1

-----------------------------------------------------------------------------
(* The list of processes.                                                    *)

\* process_create puts the newest pid in front.
LEMMA Prepended ==
  ASSUME NEW l \in Seq(Nat), NEW n \in Nat, Range(l) \subseteq 1 .. n - 1, Descending(l)
  PROVE  LET r == <<n>> \o l
         IN  r \in Seq(Nat) /\ r # << >> /\ Range(r) = Range(l) \cup {n} /\ Descending(r)
<1> DEFINE r == <<n>> \o l
<1>1. /\ r \in Seq(Nat) /\ Len(r) = Len(l) + 1 /\ Len(l) \in Nat
      /\ DOMAIN l = 1 .. Len(l) /\ DOMAIN r = 1 .. Len(l) + 1
  OBVIOUS
<1>2. \A i \in 1 .. Len(l) + 1 : r[i] = IF i = 1 THEN n ELSE l[i - 1]
  OBVIOUS
<1> HIDE DEF r
<1>3. r # << >>
  BY <1>1
<1>4. Range(r) \subseteq Range(l) \cup {n}
  <2> SUFFICES ASSUME NEW i \in 1 .. Len(l) + 1 PROVE r[i] \in Range(l) \cup {n}
    BY <1>1, Zenon DEF Range
  <2>1. CASE i = 1
    BY <1>2, <2>1
  <2>2. CASE i # 1
    <3>1. i - 1 \in DOMAIN l /\ r[i] = l[i - 1]
      BY <1>1, <1>2, <2>2
    <3> QED
      BY <3>1, Zenon DEF Range
  <2> QED
    BY <2>1, <2>2
<1>5. Range(l) \cup {n} \subseteq Range(r)
  <2>1. n \in Range(r)
    <3>1. 1 \in DOMAIN r /\ r[1] = n
      BY <1>1, <1>2
    <3> QED
      BY <3>1 DEF Range
  <2>2. ASSUME NEW i \in 1 .. Len(l) PROVE l[i] \in Range(r)
    <3>1. i + 1 \in DOMAIN r /\ r[i + 1] = l[i]
      BY <1>1, <1>2, SMTT(90)
    <3> QED
      BY <3>1, Zenon DEF Range
  <2> QED
    BY <1>1, <2>1, <2>2, Zenon DEF Range
<1>6. Descending(r)
  <2> SUFFICES ASSUME NEW i \in 1 .. Len(l) + 1, NEW j \in 1 .. Len(l) + 1, i < j
               PROVE  r[i] > r[j]
    BY <1>1 DEF Descending
  <2>1. j - 1 \in 1 .. Len(l) /\ r[j] = l[j - 1] /\ j - 1 \in DOMAIN l
    BY <1>1, <1>2
  <2>2. CASE i = 1
    <3>1. l[j - 1] \in 1 .. n - 1
      BY <2>1 DEF Range
    <3> QED
      BY <1>2, <2>1, <2>2, <3>1
  <2>3. CASE i # 1
    <3>1. i - 1 \in DOMAIN l /\ r[i] = l[i - 1] /\ i - 1 < j - 1
      BY <1>1, <1>2, <2>3
    <3> QED
      BY <2>1, <3>1 DEF Descending
  <2> QED
    BY <2>2, <2>3
<1> QED
  BY <1>1, <1>3, <1>4, <1>5, <1>6 DEF r

\* The list without the first node that is p, as process_destroy leaves it.
Unlink(l, p) ==
    LET i == CHOOSE i \in DOMAIN l : l[i] = p
    IN  SubSeq(l, 1, i - 1) \o SubSeq(l, i + 1, Len(l))

LEMMA Unlinked ==
  ASSUME NEW l \in Seq(Nat), Descending(l), NEW p \in Range(l)
  PROVE  LET r == Unlink(l, p)
         IN  /\ r \in Seq(Nat) /\ Descending(r) /\ Range(r) = Range(l) \ {p}
             /\ r # << >> => Head(r) \in Range(r)
<1> DEFINE k == CHOOSE i \in DOMAIN l : l[i] = p
           n == Len(l)
           r == Unlink(l, p)
<1>1. k \in DOMAIN l /\ l[k] = p
  <2>1. \E i \in DOMAIN l : l[i] = p
    BY DEF Range
  <2> QED
    BY <2>1, Zenon
<1>2. n \in Nat /\ DOMAIN l = 1 .. n /\ \A i \in 1 .. n : l[i] \in Nat
  OBVIOUS
<1>3. r = SubSeq(l, 1, k - 1) \o SubSeq(l, k + 1, Len(l))
  BY DEF Unlink
<1> HIDE DEF k, r
<1>4. r \in Seq(Nat) /\ Len(r) = n - 1 /\ \A i \in 1 .. n - 1 : r[i] = l[IF i < k THEN i ELSE i + 1]
  BY <1>1, <1>2, <1>3, CutOut, ZenonT(60)
<1>5. DOMAIN r = 1 .. n - 1
  BY <1>4
<1>6. \A i, j \in 1 .. n : i # j => l[i] # l[j]
  BY <1>2 DEF Descending
<1>7. \A i \in 1 .. n - 1 : /\ (IF i < k THEN i ELSE i + 1) \in 1 .. n
                            /\ (IF i < k THEN i ELSE i + 1) # k
  BY <1>1, <1>2
<1>8. Descending(r)
  <2> SUFFICES ASSUME NEW i \in 1 .. n - 1, NEW j \in 1 .. n - 1, i < j PROVE r[i] > r[j]
    BY <1>5 DEF Descending
  <2> DEFINE a == IF i < k THEN i ELSE i + 1
             b == IF j < k THEN j ELSE j + 1
  <2>1. a \in 1 .. n /\ b \in 1 .. n /\ a < b
    BY <1>1, <1>2
  <2>2. r[i] = l[a] /\ r[j] = l[b]
    BY <1>4, Zenon
  <2> HIDE DEF a, b
  <2> QED
    BY <1>2, <2>1, <2>2, Zenon DEF Descending
<1>9. Range(r) \subseteq Range(l) \ {p}
  <2> SUFFICES ASSUME NEW i \in 1 .. n - 1 PROVE r[i] \in Range(l) \ {p}
    BY <1>5, Zenon DEF Range
  <2> DEFINE a == IF i < k THEN i ELSE i + 1
  <2>1. a \in 1 .. n /\ a # k /\ r[i] = l[a]
    BY <1>4, <1>7, SMTT(60)
  <2> HIDE DEF a
  <2>2. l[a] # p
    BY <1>1, <1>2, <1>6, <2>1
  <2> QED
    BY <1>2, <2>1, <2>2, Zenon DEF Range
<1>10. Range(l) \ {p} \subseteq Range(r)
  <2> SUFFICES ASSUME NEW j \in 1 .. n, l[j] # p PROVE l[j] \in Range(r)
    BY <1>2, Zenon DEF Range
  <2> DEFINE i == IF j < k THEN j ELSE j - 1
  <2>1. j # k
    BY <1>1
  <2>2. i \in 1 .. n - 1 /\ (IF i < k THEN i ELSE i + 1) = j
    BY <1>1, <1>2, <2>1
  <2>3. r[i] = l[j]
    BY <1>4, <2>2, Zenon
  <2> HIDE DEF i
  <2> QED
    BY <1>5, <2>2, <2>3, Zenon DEF Range
<1>11. r # << >> => Head(r) \in Range(r)
  <2>1. r # << >> => 1 \in DOMAIN r /\ Head(r) = r[1]
    BY <1>4
  <2> QED
    BY <2>1, Zenon DEF Range
<1> QED
  BY <1>4, <1>8, <1>9, <1>10, <1>11 DEF r

-----------------------------------------------------------------------------
(* What the scheduler's operations leave alone, on any links, also circular.  *)

\* A search only sets a runnable thread RUNNING.
LEMMA PickedRuns ==
  ASSUME SchedTypeOK, NEW st \in [Threads -> ThreadState], scheduler_pick_next(st)
  PROVE  /\ current_thread' \in Threads \cup {Nil} /\ state' \in [Threads -> ThreadState]
         /\ hung' \in BOOLEAN
         /\ \A t \in Threads : st[t] = "EXITED" => state'[t] = "EXITED"
<1> DEFINE c == Candidates(StartOf(current_thread))
           hits == {i \in DOMAIN c : LookedAt(c, i) /\ thread_is_runnable(c[i], st)}
           back == \E i \in DOMAIN c : i > 0 /\ c[i] = c[0]
<1>1. scheduler_pick_next(st) =
        IF run_queue = Nil
        THEN current_thread' = Nil /\ state' = st /\ hung' = FALSE
        ELSE IF hits # {}
        THEN /\ current_thread' = c[Min(hits)]
             /\ state' = [st EXCEPT ![c[Min(hits)]] = "RUNNING"]
             /\ hung' = FALSE
        ELSE current_thread' = current_thread /\ state' = st /\ hung' = ~back
  BY ZenonT(60) DEF scheduler_pick_next
<1>2. back \in BOOLEAN
  OBVIOUS
<1> HIDE DEF back
<1>3. CASE run_queue = Nil
  BY <1>1, <1>3, Zenon
<1>4. CASE run_queue # Nil /\ hits = {}
  <2>1. current_thread' = current_thread /\ state' = st /\ hung' = ~back
    BY <1>1, <1>4, Zenon
  <2> QED
    BY <1>2, <2>1, Zenon DEF SchedTypeOK
<1>5. CASE run_queue # Nil /\ hits # {}
  <2>1. run_queue \in Threads /\ next \in Links /\ StartOf(current_thread) \in Threads
    BY <1>5 DEF SchedTypeOK, Links, StartOf
  <2>2. /\ DOMAIN c = 0 .. N /\ c[0] \in Threads
        /\ \A i \in 1 .. N : c[i] = IF next[c[i - 1]] # Nil THEN next[c[i - 1]] ELSE run_queue
    BY <2>1, CandidatesSteps, Zenon
  <2>3. DOMAIN c \in SUBSET Nat
    BY <2>2, NType
  <2> DEFINE m == Min(hits)
  <2>4. m \in hits
    <3>1. hits \in SUBSET Nat
      BY <2>3, Zenon
    <3>2. \E x \in hits : \A y \in hits : x <= y
      <4> HIDE DEF hits
      <4> QED
        BY <1>5, <3>1, Least, Zenon
    <3> QED
      BY <3>2, Zenon DEF Min
  <2>5. thread_is_runnable(c[m], st)
    BY <2>4, Zenon
  <2>6. \A i \in 0 .. N : c[i] \in Threads
    <3> DEFINE S == {i \in Nat : i <= N => c[i] \in Threads}
    <3> HIDE DEF c
    <3>1. 0 \in S
      BY <2>2
    <3>2. ASSUME NEW i \in Nat, i \in S PROVE i + 1 \in S
      <4> SUFFICES ASSUME i + 1 <= N PROVE c[i + 1] \in Threads
        OBVIOUS
      <4>1. i + 1 \in 1 .. N /\ (i + 1) - 1 = i /\ c[i] \in Threads
        BY <3>2, NType
      <4>2. c[i + 1] = IF next[c[i]] # Nil THEN next[c[i]] ELSE run_queue
        BY <2>2, <4>1
      <4> QED
        BY <2>1, <4>1, <4>2 DEF Links
    <3>3. \A i \in Nat : i \in S
      <4> HIDE DEF S
      <4> QED
        BY <3>1, <3>2, NatInd, Zenon
    <3> QED
      BY <3>3
  <2>7. c[m] \in Threads
    BY <2>2, <2>4, <2>6, Zenon
  <2>8. /\ current_thread' = c[m] /\ state' = [st EXCEPT ![c[m]] = "RUNNING"]
        /\ hung' = FALSE
    BY <1>1, <1>5, Zenon
  <2> HIDE DEF c, m, hits
  <2> QED
    BY <2>5, <2>7, <2>8, Zenon DEF thread_is_runnable, ThreadState
<1> QED
  BY <1>3, <1>4, <1>5

\* A yield does the same, and first makes the running thread READY.
LEMMA YieldRuns ==
  ASSUME SchedTypeOK, NEW st \in [Threads -> ThreadState], YieldFrom(st)
  PROVE  /\ SchedTypeOK' /\ allocated' = allocated
         /\ \A t \in Threads : st[t] = "EXITED" => state'[t] = "EXITED"
<1> DEFINE s == IF current_thread # Nil /\ st[current_thread] = "RUNNING"
                THEN [st EXCEPT ![current_thread] = "READY"] ELSE st
<1>1. scheduler_pick_next(s) /\ UNCHANGED <<allocated, next, run_queue>>
  BY Zenon DEF YieldFrom
<1>2. s \in [Threads -> ThreadState] /\ \A t \in Threads : st[t] = "EXITED" => s[t] = "EXITED"
  BY DEF SchedTypeOK, ThreadState
<1> HIDE DEF s
<1>3. /\ current_thread' \in Threads \cup {Nil} /\ state' \in [Threads -> ThreadState]
      /\ hung' \in BOOLEAN
      /\ \A t \in Threads : s[t] = "EXITED" => state'[t] = "EXITED"
  BY <1>1, <1>2, PickedRuns, Zenon
<1> QED
  BY <1>1, <1>2, <1>3, Zenon DEF SchedTypeOK

\* Queueing the thread of a first exec.
LEMMA EnqueueRuns ==
  ASSUME SchedTypeOK, NEW t \in Threads, Enqueue(t),
         allocated' = allocated \cup {t}, UNCHANGED current_thread
  PROVE  SchedTypeOK' /\ \A u \in Threads \ {t} : state'[u] = state[u]
<1> DEFINE nx == [next EXCEPT ![t] = Nil]
           tail == CHOOSE u \in OnList(run_queue, nx) : nx[u] = Nil
           loop == Circular(run_queue, nx)
<1>1. loop \in BOOLEAN
  BY DEF Circular
<1>2. /\ state' = [state EXCEPT ![t] = "READY"]
      /\ run_queue' = IF run_queue = Nil THEN t ELSE run_queue
      /\ hung' = loop
      /\ next' = IF run_queue = Nil \/ loop THEN nx ELSE [nx EXCEPT ![tail] = t]
  BY Zenon DEF Enqueue
<1> HIDE DEF tail, loop
<1> QED
  BY <1>1, <1>2, Zenon DEF SchedTypeOK, ThreadState

-----------------------------------------------------------------------------
(* Every step keeps the invariant.                                           *)

LEMMA ProcInitially == ProcInit => ProcInv
<1> SUFFICES ASSUME ProcInit PROVE ProcInv
  OBVIOUS
<1>1. SchedTypeOK
  BY Zenon DEF ProcInit, SchedInit, SchedTypeOK, ThreadState
<1>2. process_list = <<1>> /\ next_pid = 2 /\ current_process = 1 /\ DOMAIN reaped = {}
  BY DEF ProcInit
<1>3. Listed_pids = {1} /\ process_list \in Seq(Nat) /\ DOMAIN process_list = {1}
  BY <1>2 DEF Listed_pids, Range
<1>4. DOMAIN proc = {1} /\ proc[1] = NewProcess(0, "RUNNING")
  BY DEF ProcInit
<1>5. CurrentListed
  BY <1>1, <1>2, <1>3, <1>4, ProcessConstants DEF CurrentListed, ProcTypeOK, NewProcess
<1>6. NoProcessLost
  BY <1>2, <1>3 DEF NoProcessLost
<1>7. ThreadsOwned /\ ZombiesStopped
  BY <1>3, <1>4 DEF ThreadsOwned, ZombiesStopped, NewProcess
<1> QED
  BY <1>2, <1>3, <1>5, <1>6, <1>7 DEF ProcInv, ProcessesSound

\* The parts of the invariant under the names the proofs use.
LEMMA ProcParts ==
  ASSUME ProcInv
  PROVE  /\ SchedTypeOK /\ Listed_pids \subseteq 1 .. MaxPid /\ DOMAIN proc = Listed_pids
         /\ \A p \in Listed_pids : proc[p] \in ProcRecord
         /\ current_process \in 0 .. MaxPid /\ next_pid \in 2 .. MaxPid + 1
         /\ process_list = << >> => current_process = 0
         /\ process_list # << >> => current_process \in Listed_pids
         /\ \A p \in 1 .. next_pid - 1 : (p \in Listed_pids) # (p \in DOMAIN reaped)
         /\ Descending(process_list)
         /\ process_list \in Seq(Nat)
         /\ Listed_pids \subseteq 1 .. next_pid - 1 /\ DOMAIN reaped \subseteq 1 .. next_pid - 1
<1> QED
  BY Zenon DEF ProcInv, ProcessesSound, CurrentListed, ProcTypeOK, NoProcessLost, Descending, ProcRecord

LEMMA CreateKeepsProc ==
  ASSUME ProcInv, NEW parent \in Listed_pids, process_create(parent)
  PROVE  ProcInv'
<1> DEFINE n == next_pid
<1>1. /\ n <= MaxPid /\ n' = n + 1 /\ process_list' = <<n>> \o process_list
      /\ current_process' = IF current_process = 0 THEN n ELSE current_process
      /\ UNCHANGED <<allocated, state, next, run_queue, current_thread, hung, reaped>>
  BY DEF process_create, schedVars
<1>2. /\ SchedTypeOK /\ Listed_pids \subseteq 1 .. MaxPid /\ DOMAIN proc = Listed_pids
      /\ \A p \in Listed_pids : proc[p] \in ProcRecord
      /\ current_process \in 0 .. MaxPid /\ n \in 2 .. MaxPid + 1
      /\ process_list # << >> => current_process \in Listed_pids
      /\ \A p \in 1 .. n - 1 : (p \in Listed_pids) # (p \in DOMAIN reaped)
      /\ Descending(process_list)
      /\ process_list \in Seq(Nat)
      /\ Listed_pids \subseteq 1 .. n - 1 /\ DOMAIN reaped \subseteq 1 .. n - 1
  BY ProcParts, Zenon
<1>3. MaxPid \in Nat /\ n \in Nat /\ n \notin Listed_pids /\ n \notin DOMAIN reaped
  BY <1>2, ProcessConstants
<1>4. /\ process_list' \in Seq(Nat) /\ process_list' # << >> /\ Descending(process_list')
      /\ Listed_pids' = Listed_pids \cup {n}
  <2>1. Range(process_list) \subseteq 1 .. n - 1
    BY <1>2 DEF Listed_pids
  <2> QED
    BY <1>1, <1>2, <1>3, <2>1, Prepended, ZenonT(60) DEF Listed_pids
<1>5. /\ DOMAIN proc' = Listed_pids \cup {n} /\ proc'[n] = NewProcess(parent, "NEW")
      /\ \A p \in Listed_pids : proc'[p] = proc[p]
  BY <1>3 DEF process_create
<1>6. SchedTypeOK'
  BY <1>1, <1>2, Zenon DEF SchedTypeOK
<1>7. NewProcess(parent, "NEW") \in ProcRecord
  BY <1>2, <1>3 DEF NewProcess, ProcRecord
<1>8. CurrentListed'
  <2>1. Listed_pids' \subseteq 1 .. MaxPid
    BY <1>1, <1>2, <1>3, <1>4
  <2>2. \A p \in Listed_pids' : proc'[p] \in ProcRecord
    BY <1>2, <1>4, <1>5, <1>7, Zenon
  <2>3. current_process' \in Listed_pids'
    <3>1. CASE current_process = 0
      BY <1>1, <1>4, <3>1
    <3>2. CASE current_process # 0
      <4>1. process_list # << >>
        BY <3>2, ProcParts, Zenon
      <4> QED
        BY <1>1, <1>2, <1>4, <3>2, <4>1, Zenon
    <3> QED
      BY <3>1, <3>2
  <2>4. current_process' \in 0 .. MaxPid /\ next_pid' \in 2 .. MaxPid + 1
    BY <1>1, <1>2, <1>3, <2>1, <2>3, SMTT(60)
  <2> QED
    BY <1>4, <1>5, <1>6, <2>1, <2>2, <2>3, <2>4, ZenonT(60) DEF CurrentListed, ProcTypeOK, ProcRecord
<1>9. NoProcessLost'
  <2>1. ASSUME NEW p \in 1 .. next_pid' - 1
        PROVE  (p \in Listed_pids') # (p \in DOMAIN reaped')
    <3>1. reaped' = reaped
      BY <1>1
    <3>2. CASE p = n
      <4>1. p \in Listed_pids' /\ p \notin DOMAIN reaped'
        BY <1>3, <1>4, <3>1, <3>2, SMTT(60)
      <4> QED
        BY <4>1, Zenon
    <3>3. CASE p # n
      <4>1. p \in 1 .. n - 1
        BY <1>1, <1>3, <3>3
      <4>2. (p \in Listed_pids) # (p \in DOMAIN reaped)
        BY <1>2, <4>1, Zenon
      <4>3. (p \in Listed_pids') <=> (p \in Listed_pids)
        BY <1>4, <3>3, Zenon
      <4>4. (p \in DOMAIN reaped') <=> (p \in DOMAIN reaped)
        BY <3>1
      <4> QED
        BY <4>2, <4>3, <4>4
    <3> QED
      BY <3>2, <3>3, Zenon
  <2> QED
    BY <1>4, <2>1, Zenon DEF NoProcessLost, Descending
<1>10. ThreadsOwned'
  <2>1. ThreadsOwned
    BY Zenon DEF ProcInv, ProcessesSound
  <2>2. proc'[n].thread = Nil
    BY <1>5 DEF NewProcess
  <2>3. Nil \notin Threads /\ allocated \subseteq Threads /\ allocated' = allocated
    BY <1>1, <1>2, SchedulerConstants DEF SchedTypeOK
  <2> SUFFICES ASSUME NEW p \in Listed_pids', NEW q \in Listed_pids', proc'[p].thread # Nil
               PROVE  /\ proc'[p].thread \in allocated'
                      /\ p # q => proc'[p].thread # proc'[q].thread
    BY Zenon DEF ThreadsOwned
  <2>4. p \in Listed_pids /\ proc'[p] = proc[p]
    BY <1>4, <1>5, <2>2, Zenon
  <2>5. CASE q = n
    BY <2>1, <2>2, <2>3, <2>4, <2>5, SMTT(60) DEF ThreadsOwned
  <2>6. CASE q \in Listed_pids
    <3>1. proc'[q] = proc[q]
      BY <1>5, <2>6, Zenon
    <3> QED
      BY <2>1, <2>3, <2>4, <2>6, <3>1, SMTT(60) DEF ThreadsOwned
  <2> QED
    BY <1>4, <2>5, <2>6, Zenon
<1>11. ZombiesStopped'
  <2>1. ZombiesStopped
    BY Zenon DEF ProcInv, ProcessesSound
  <2>2. proc'[n].thread = Nil
    BY <1>5 DEF NewProcess
  <2>3. state' = state
    BY <1>1
  <2> QED
    BY <1>4, <1>5, <2>1, <2>2, <2>3, ZenonT(60) DEF ZombiesStopped
<1>12. Listed_pids' \subseteq 1 .. next_pid' - 1 /\ DOMAIN reaped' \subseteq 1 .. next_pid' - 1
  BY <1>1, <1>2, <1>3, <1>4, SMTT(60)
<1> QED
  BY <1>4, <1>8, <1>9, <1>10, <1>11, <1>12, ZenonT(60) DEF ProcInv, ProcessesSound

LEMMA SetCurrentKeepsProc ==
  ASSUME ProcInv, NEW p \in Listed_pids, process_set_current(p)
  PROVE  ProcInv'
<1>1. /\ current_process' = p
      /\ UNCHANGED <<allocated, state, next, run_queue, current_thread, hung>>
      /\ UNCHANGED <<process_list, proc, next_pid, reaped>>
  BY DEF process_set_current, schedVars
<1>2. Listed_pids' = Listed_pids /\ SchedTypeOK' = SchedTypeOK
  BY <1>1, Zenon DEF Listed_pids, SchedTypeOK
<1>3. process_list # << >> /\ p \in 0 .. MaxPid
  <2>1. p \in 1 .. MaxPid /\ MaxPid \in Nat
    BY ProcParts, ProcessConstants
  <2> QED
    BY <2>1 DEF Listed_pids, Range
<1>4. CurrentListed'
  BY <1>1, <1>2, <1>3, SMTT(60) DEF CurrentListed, ProcTypeOK, ProcInv, ProcessesSound
<1>5. NoProcessLost'
  BY <1>1, <1>2, SMTT(60) DEF NoProcessLost, ProcInv, ProcessesSound
<1>6. ThreadsOwned' /\ ZombiesStopped'
  BY <1>1, <1>2, SMTT(60) DEF ThreadsOwned, ZombiesStopped, ProcInv, ProcessesSound
<1> QED
  BY <1>1, <1>2, <1>4, <1>5, <1>6, SMTT(60) DEF ProcInv, ProcessesSound

\* A step that leaves the list, the pids and the reports alone keeps the invariant
\* when it keeps the types, the ownership of threads and the zombies stopped.
LEMMA SameList ==
  ASSUME ProcInv, UNCHANGED <<process_list, current_process, next_pid, reaped>>,
         SchedTypeOK', DOMAIN proc' = Listed_pids,
         \A p \in Listed_pids : proc'[p] \in ProcRecord,
         \A p, q \in Listed_pids :
            proc'[p].thread # Nil => /\ proc'[p].thread \in allocated'
                                     /\ p # q => proc'[p].thread # proc'[q].thread,
         \A p \in Listed_pids : proc'[p].state = "ZOMBIE" /\ proc'[p].thread # Nil
            => state'[proc'[p].thread] = "EXITED"
  PROVE  ProcInv'
<1>1. Listed_pids' = Listed_pids
  BY DEF Listed_pids
<1>2. CurrentListed'
  BY <1>1, SMTT(60) DEF CurrentListed, ProcTypeOK, ProcRecord, ProcInv, ProcessesSound
<1>3. NoProcessLost'
  BY <1>1, SMTT(60) DEF NoProcessLost, ProcInv, ProcessesSound
<1>4. ThreadsOwned' /\ ZombiesStopped'
  BY <1>1 DEF ThreadsOwned, ZombiesStopped
<1> QED
  BY <1>1, <1>2, <1>3, <1>4, SMTT(60) DEF ProcInv, ProcessesSound

LEMMA ExecKeepsProc ==
  ASSUME ProcInv, NEW p \in Listed_pids, NEW t \in Threads, proc[p].state # "ZOMBIE",
         exec_image(p, t)
  PROVE  ProcInv'
<1>1. /\ SchedTypeOK /\ DOMAIN proc = Listed_pids /\ \A q \in Listed_pids : proc[q] \in ProcRecord
  BY ProcParts, Zenon
<1>2. ThreadsOwned /\ ZombiesStopped
  BY Zenon DEF ProcInv, ProcessesSound
<1>3. UNCHANGED <<process_list, current_process, next_pid, reaped>>
  BY SMTT(60) DEF exec_image
<1>4. Nil \notin Threads /\ allocated \subseteq Threads
  BY <1>1, SchedulerConstants, SMTT(60) DEF SchedTypeOK
<1>5. CASE proc[p].thread = Nil
  <2>1. /\ t \notin allocated /\ allocated' = allocated \cup {t} /\ Enqueue(t)
        /\ proc' = [proc EXCEPT ![p].thread = t, ![p].state = "READY"]
        /\ UNCHANGED current_thread
    BY <1>5, Zenon DEF exec_image
  <2>2. SchedTypeOK' /\ \A u \in Threads \ {t} : state'[u] = state[u]
    BY <1>1, <2>1, EnqueueRuns, Zenon
  <2>3. /\ DOMAIN proc' = Listed_pids
        /\ proc'[p] = [proc[p] EXCEPT !.thread = t, !.state = "READY"]
        /\ \A q \in Listed_pids \ {p} : proc'[q] = proc[q]
    BY <1>1, <2>1
  <2>4. proc'[p].thread = t /\ proc'[p].state = "READY" /\ proc'[p] \in ProcRecord
    BY <1>1, <2>3, Zenon DEF ProcRecord
  <2>5. \A q \in Listed_pids : proc'[q] \in ProcRecord
    BY <1>1, <2>3, <2>4, Zenon
  <2>6. ASSUME NEW q \in Listed_pids, NEW r \in Listed_pids, proc'[q].thread # Nil
        PROVE  /\ proc'[q].thread \in allocated'
               /\ q # r => proc'[q].thread # proc'[r].thread
    <3>1. CASE q = p
      <4>1. ASSUME r # p PROVE proc'[r].thread # t
        BY <1>2, <1>4, <2>1, <2>3, <4>1, SMTT(60) DEF ThreadsOwned
      <4> QED
        BY <2>1, <2>4, <3>1, <4>1, SMTT(60)
    <3>2. CASE q # p
      <4>1. proc'[q] = proc[q] /\ proc[q].thread \in allocated
        BY <1>2, <2>3, <2>6, <3>2, ZenonT(60) DEF ThreadsOwned
      <4>2. CASE r = p
        BY <2>1, <2>4, <4>1, <4>2, SMTT(60)
      <4>3. CASE r # p
        <5>1. proc'[r] = proc[r]
          BY <2>3, <4>3, Zenon
        <5> QED
          BY <1>2, <2>1, <2>6, <4>1, <5>1, SMTT(60) DEF ThreadsOwned
      <4> QED
        BY <4>2, <4>3
    <3> QED
      BY <3>1, <3>2
  <2>7. ASSUME NEW q \in Listed_pids, proc'[q].state = "ZOMBIE", proc'[q].thread # Nil
        PROVE  state'[proc'[q].thread] = "EXITED"
    <3>1. q # p
      BY <2>4, <2>7
    <3>2. proc'[q] = proc[q]
      BY <2>3, <3>1, Zenon
    <3>3. proc[q].thread \in allocated /\ state[proc[q].thread] = "EXITED"
      BY <1>2, <2>7, <3>2, Zenon DEF ThreadsOwned, ZombiesStopped
    <3>4. proc[q].thread \in Threads \ {t}
      BY <1>4, <2>1, <3>3, SMTT(60)
    <3> QED
      BY <2>2, <3>2, <3>3, <3>4, ZenonT(60)
  <2> QED
    BY <1>3, <2>2, <2>3, <2>5, <2>6, <2>7, SameList, ZenonT(60)
<1>6. CASE proc[p].thread # Nil
  <2>1. proc' = [proc EXCEPT ![p].state = "READY"] /\ UNCHANGED schedVars
    BY <1>6, Zenon DEF exec_image
  <2>2. SchedTypeOK' /\ allocated' = allocated /\ state' = state
    BY <1>1, <2>1 DEF schedVars, SchedTypeOK
  <2>3. /\ DOMAIN proc' = Listed_pids
        /\ proc'[p] = [proc[p] EXCEPT !.state = "READY"]
        /\ \A q \in Listed_pids \ {p} : proc'[q] = proc[q]
    BY <1>1, <2>1
  <2>4. /\ proc'[p].thread = proc[p].thread /\ proc'[p].state = "READY"
        /\ proc'[p] \in ProcRecord
    BY <1>1, <2>3 DEF ProcRecord
  <2>5. \A q \in Listed_pids : proc'[q] \in ProcRecord /\ proc'[q].thread = proc[q].thread
    BY <1>1, <2>3, <2>4, Zenon
  <2>6. \A q \in Listed_pids : proc'[q].state = "ZOMBIE" => proc[q].state = "ZOMBIE"
    BY <2>3, <2>4, ZenonT(60)
  <2>7. \A q, r \in Listed_pids :
          proc'[q].thread # Nil => /\ proc'[q].thread \in allocated'
                                   /\ q # r => proc'[q].thread # proc'[r].thread
    BY <1>2, <2>2, <2>5, SMTT(60) DEF ThreadsOwned
  <2>8. \A q \in Listed_pids : proc'[q].state = "ZOMBIE" /\ proc'[q].thread # Nil
            => state'[proc'[q].thread] = "EXITED"
    BY <1>2, <2>2, <2>5, <2>6, SMTT(60) DEF ZombiesStopped
  <2> QED
    BY <1>3, <2>2, <2>3, <2>5, <2>7, <2>8, SameList, ZenonT(60)
<1> QED
  BY <1>5, <1>6

LEMMA ExitKeepsProc ==
  ASSUME ProcInv, NEW c \in Codes, sys_exit(c)
  PROVE  ProcInv'
<1> DEFINE p == current_process
           st == ThreadsAfterExit(p)
<1>1. /\ SchedTypeOK /\ DOMAIN proc = Listed_pids /\ \A q \in Listed_pids : proc[q] \in ProcRecord
      /\ p # 0 => p \in Listed_pids
  BY ProcParts, Zenon
<1>2. ThreadsOwned /\ ZombiesStopped
  BY Zenon DEF ProcInv, ProcessesSound
<1>3. /\ p \in Listed_pids /\ YieldFrom(st)
      /\ proc' = [proc EXCEPT ![p].code = c, ![p].state = "ZOMBIE"]
      /\ UNCHANGED <<process_list, current_process, next_pid, reaped>>
  BY <1>1 DEF sys_exit, process_exit
<1>4. proc[p].thread \in Threads \cup {Nil} /\ state \in [Threads -> ThreadState]
  BY <1>1, <1>3, SMTT(60) DEF ProcRecord, SchedTypeOK
<1>5. /\ st \in [Threads -> ThreadState]
      /\ proc[p].thread # Nil => st[proc[p].thread] = "EXITED"
      /\ \A t \in Threads : state[t] = "EXITED" => st[t] = "EXITED"
  BY <1>4 DEF ThreadsAfterExit, ThreadState
<1> HIDE DEF st
<1>6. /\ SchedTypeOK' /\ allocated' = allocated
      /\ \A t \in Threads : st[t] = "EXITED" => state'[t] = "EXITED"
  BY <1>1, <1>3, <1>5, YieldRuns, ZenonT(60)
<1>7. /\ DOMAIN proc' = Listed_pids
      /\ proc'[p] = [proc[p] EXCEPT !.code = c, !.state = "ZOMBIE"]
      /\ \A q \in Listed_pids \ {p} : proc'[q] = proc[q]
  BY <1>1, <1>3, SMTT(60)
<1>8. proc'[p].thread = proc[p].thread /\ proc'[p] \in ProcRecord
  BY <1>1, <1>3, <1>7, ZenonT(60) DEF ProcRecord
<1> HIDE DEF p
<1>9. \A q \in Listed_pids : proc'[q] \in ProcRecord /\ proc'[q].thread = proc[q].thread
  BY <1>1, <1>7, <1>8, Zenon
<1>10. \A q, r \in Listed_pids :
          proc'[q].thread # Nil => /\ proc'[q].thread \in allocated'
                                   /\ q # r => proc'[q].thread # proc'[r].thread
  BY <1>2, <1>6, <1>9 DEF ThreadsOwned
<1>11. ASSUME NEW q \in Listed_pids, proc'[q].state = "ZOMBIE", proc'[q].thread # Nil
       PROVE  state'[proc'[q].thread] = "EXITED"
  <2>1. proc'[q].thread = proc[q].thread /\ proc[q].thread \in Threads
    BY <1>1, <1>9, <1>11 DEF ProcRecord
  <2>2. st[proc[q].thread] = "EXITED"
    <3>1. CASE q = p
      BY <1>5, <1>11, <2>1, <3>1, Zenon
    <3>2. CASE q # p
      <4>1. proc'[q] = proc[q]
        BY <1>7, <3>2, Zenon
      <4> QED
        BY <1>2, <1>5, <1>11, <2>1, <4>1, ZenonT(60) DEF ZombiesStopped
    <3> QED
      BY <3>1, <3>2
  <2> QED
    BY <1>6, <2>1, <2>2, Zenon
<1> QED
  BY <1>3, <1>6, <1>7, <1>9, <1>10, <1>11, SameList, ZenonT(60)

LEMMA YieldKeepsProc ==
  ASSUME ProcInv, sys_yield
  PROVE  ProcInv'
<1>1. /\ SchedTypeOK /\ DOMAIN proc = Listed_pids /\ \A q \in Listed_pids : proc[q] \in ProcRecord
  BY ProcParts, Zenon
<1>2. ThreadsOwned /\ ZombiesStopped
  BY Zenon DEF ProcInv, ProcessesSound
<1>3. YieldFrom(state) /\ proc' = proc /\ UNCHANGED <<process_list, current_process, next_pid, reaped>>
  BY DEF sys_yield, scheduler_yield, procVars
<1>4. state \in [Threads -> ThreadState]
  BY <1>1 DEF SchedTypeOK
<1>5. /\ SchedTypeOK' /\ allocated' = allocated
      /\ \A t \in Threads : state[t] = "EXITED" => state'[t] = "EXITED"
  BY <1>1, <1>3, <1>4, YieldRuns, Zenon
<1>6. \A q \in Listed_pids : proc'[q].state = "ZOMBIE" /\ proc'[q].thread # Nil
         => state'[proc'[q].thread] = "EXITED"
  <2> SUFFICES ASSUME NEW q \in Listed_pids, proc[q].state = "ZOMBIE", proc[q].thread # Nil
               PROVE  state'[proc[q].thread] = "EXITED"
    BY <1>3
  <2>1. proc[q].thread \in Threads
    BY <1>1 DEF ProcRecord
  <2> QED
    BY <1>2, <1>5, <2>1, Zenon DEF ZombiesStopped
<1>7. \A q, r \in Listed_pids :
         proc'[q].thread # Nil => /\ proc'[q].thread \in allocated'
                                  /\ q # r => proc'[q].thread # proc'[r].thread
  BY <1>2, <1>3, <1>5, SMTT(60) DEF ThreadsOwned
<1>8. DOMAIN proc' = Listed_pids /\ \A q \in Listed_pids : proc'[q] \in ProcRecord
  BY <1>1, <1>3, SMTT(60)
<1> QED
  BY <1>3, <1>5, <1>6, <1>7, <1>8, SameList, ZenonT(60)

\* What a wait does to the list and the reports.
LEMMA Reaps ==
  ASSUME ProcInv, NEW p, wait_for_pid(p)
  PROVE  /\ p \in Listed_pids /\ proc[p].state = "ZOMBIE"
         /\ process_list' = Unlink(process_list, p)
         /\ process_list' \in Seq(Nat) /\ Descending(process_list')
         /\ Listed_pids' = Listed_pids \ {p}
         /\ process_list' # << >> => Head(process_list') \in Listed_pids'
         /\ DOMAIN reaped' = DOMAIN reaped \cup {p} /\ reaped'[p] = proc[p].code
<1>1. /\ p \in Listed_pids /\ proc[p].state = "ZOMBIE"
      /\ reaped' = [q \in DOMAIN reaped \cup {p} |-> IF q = p THEN proc[p].code ELSE reaped[q]]
      /\ process_destroy(p)
  BY Zenon DEF wait_for_pid
<1>2. process_list' = Unlink(process_list, p)
  BY <1>1, Zenon DEF process_destroy, Unlink
<1>3. process_list \in Seq(Nat) /\ Descending(process_list) /\ p \in Range(process_list)
  BY <1>1, ProcParts, Zenon DEF Listed_pids
<1>4. /\ process_list' \in Seq(Nat) /\ Descending(process_list')
      /\ Listed_pids' = Listed_pids \ {p}
      /\ process_list' # << >> => Head(process_list') \in Listed_pids'
  BY <1>2, <1>3, Unlinked, ZenonT(60) DEF Listed_pids
<1>5. DOMAIN reaped' = DOMAIN reaped \cup {p} /\ reaped'[p] = proc[p].code
  BY <1>1
<1> QED
  BY <1>1, <1>2, <1>4, <1>5, SMTT(60)

LEMMA WaitKeepsProc ==
  ASSUME ProcInv, NEW p, wait_for_pid(p)
  PROVE  ProcInv'
<1>1. /\ p \in Listed_pids
      /\ process_list' \in Seq(Nat) /\ Descending(process_list')
      /\ Listed_pids' = Listed_pids \ {p}
      /\ process_list' # << >> => Head(process_list') \in Listed_pids'
      /\ DOMAIN reaped' = DOMAIN reaped \cup {p}
  BY Reaps, Zenon
<1>2. /\ SchedTypeOK /\ Listed_pids \subseteq 1 .. MaxPid
      /\ \A q \in Listed_pids : proc[q] \in ProcRecord
      /\ current_process \in 0 .. MaxPid /\ next_pid \in 2 .. MaxPid + 1
      /\ process_list # << >> => current_process \in Listed_pids
      /\ \A q \in 1 .. next_pid - 1 : (q \in Listed_pids) # (q \in DOMAIN reaped)
      /\ Listed_pids \subseteq 1 .. next_pid - 1 /\ DOMAIN reaped \subseteq 1 .. next_pid - 1
  BY ProcParts, Zenon
<1>3. ThreadsOwned /\ ZombiesStopped
  BY Zenon DEF ProcInv, ProcessesSound
<1>4. /\ proc' = [q \in Listed_pids \ {p} |-> proc[q]]
      /\ current_process' = IF current_process # p THEN current_process
                            ELSE IF process_list' = << >> THEN 0 ELSE Head(process_list')
      /\ IF proc[p].thread = Nil THEN UNCHANGED schedVars ELSE thread_destroy(proc[p].thread)
      /\ next_pid' = next_pid
  <2> DEFINE rest == Unlink(process_list, p)
  <2>1. process_destroy(p) /\ next_pid' = next_pid
    BY Zenon DEF wait_for_pid
  <2>2. /\ proc' = [q \in Listed_pids \ {p} |-> proc[q]]
        /\ current_process' = IF current_process # p THEN current_process
                              ELSE IF rest = << >> THEN 0 ELSE Head(rest)
        /\ IF proc[p].thread = Nil THEN UNCHANGED schedVars ELSE thread_destroy(proc[p].thread)
    BY <2>1 DEF process_destroy, Unlink
  <2>3. process_list' = rest
    BY Reaps, Zenon
  <2> HIDE DEF rest
  <2> QED
    BY <2>1, <2>2, <2>3, SMTT(60)
<1>5. DOMAIN proc' = Listed_pids' /\ \A q \in Listed_pids' : proc'[q] = proc[q]
  BY <1>1, <1>4
<1>6. /\ state' = state /\ SchedTypeOK'
      /\ allocated' = allocated \ {proc[p].thread}
  <2>1. CASE proc[p].thread = Nil
    BY <1>2, <1>4, <2>1, SchedulerConstants, SMTT(90) DEF schedVars, SchedTypeOK
  <2>2. CASE proc[p].thread # Nil
    BY <1>2, <1>4, <2>2, SMTT(60) DEF thread_destroy, SchedTypeOK
  <2> QED
    BY <2>1, <2>2, SMTT(60)
<1>7. CurrentListed'
  <2>1. process_list # << >>
    BY <1>1 DEF Listed_pids, Range
  <2>2. IF process_list' = << >> THEN current_process' = 0 ELSE current_process' \in Listed_pids'
    <3>1. CASE current_process # p
      <4>1. current_process' \in Listed_pids'
        BY <1>1, <1>2, <1>4, <2>1, <3>1, ZenonT(60)
      <4>2. process_list' # << >>
        BY <4>1 DEF Listed_pids, Range
      <4> QED
        BY <4>1, <4>2
    <3>2. CASE current_process = p
      BY <1>1, <1>4, <3>2, ZenonT(60)
    <3> QED
      BY <3>1, <3>2
  <2>3. Listed_pids' \subseteq 1 .. MaxPid
    BY <1>1, <1>2
  <2>4. current_process' \in 0 .. MaxPid
    <3>1. current_process' \in 1 .. MaxPid \/ current_process' = 0
      BY <2>2, <2>3, Zenon
    <3> QED
      BY <3>1, ProcessConstants
  <2>5. \A q \in Listed_pids' : proc'[q] \in ProcRecord
    BY <1>1, <1>2, <1>5, ZenonT(60)
  <2> QED
    BY <1>2, <1>4, <1>5, <1>6, <2>2, <2>3, <2>4, <2>5, ZenonT(60) DEF CurrentListed, ProcTypeOK, ProcRecord
<1>8. NoProcessLost'
  <2>1. ASSUME NEW q \in 1 .. next_pid' - 1
        PROVE  (q \in Listed_pids') # (q \in DOMAIN reaped')
    <3>1. (q \in Listed_pids) # (q \in DOMAIN reaped)
      BY <1>2, <1>4, Zenon
    <3>2. CASE q = p
      <4>1. q \notin Listed_pids' /\ q \in DOMAIN reaped'
        BY <1>1, <3>2, Zenon
      <4> QED
        BY <4>1, Zenon
    <3>3. CASE q # p
      <4>1. (q \in Listed_pids') <=> (q \in Listed_pids)
        BY <1>1, <3>3, Zenon
      <4>2. (q \in DOMAIN reaped') <=> (q \in DOMAIN reaped)
        BY <1>1, <3>3, ZenonT(60)
      <4> QED
        BY <3>1, <4>1, <4>2, SMTT(60)
    <3> QED
      BY <3>2, <3>3, Zenon
  <2> QED
    BY <1>1, <2>1, Zenon DEF NoProcessLost, Descending
<1>9. ThreadsOwned'
  <2> SUFFICES ASSUME NEW q \in Listed_pids', NEW r \in Listed_pids', proc'[q].thread # Nil
               PROVE  /\ proc'[q].thread \in allocated'
                      /\ q # r => proc'[q].thread # proc'[r].thread
    BY Zenon DEF ThreadsOwned
  <2>1. /\ q \in Listed_pids /\ r \in Listed_pids /\ q # p
        /\ proc'[q] = proc[q] /\ proc'[r] = proc[r]
    BY <1>1, <1>5, Zenon
  <2>2. proc[q].thread \in allocated /\ proc[q].thread # proc[p].thread
    BY <1>1, <1>3, <2>1, ZenonT(60) DEF ThreadsOwned
  <2>3. q # r => proc[q].thread # proc[r].thread
    BY <1>3, <2>1, ZenonT(60) DEF ThreadsOwned
  <2> QED
    BY <1>6, <2>1, <2>2, <2>3, SMTT(60)
<1>10. ZombiesStopped'
  BY <1>1, <1>3, <1>5, <1>6, SMTT(90) DEF ZombiesStopped
<1>11. Listed_pids' \subseteq 1 .. next_pid' - 1 /\ DOMAIN reaped' \subseteq 1 .. next_pid' - 1
  BY <1>1, <1>2, <1>4, SMTT(60)
<1> QED
  BY <1>1, <1>7, <1>8, <1>9, <1>10, <1>11, ZenonT(60) DEF ProcInv, ProcessesSound

LEMMA ProcStep == ProcInv /\ [ProcNext]_allVars => ProcInv'
<1> SUFFICES ASSUME ProcInv, [ProcNext]_allVars PROVE ProcInv'
  OBVIOUS
<1>1. CASE UNCHANGED allVars
  <2>1. /\ UNCHANGED <<allocated, state, next, run_queue, current_thread, hung>>
        /\ UNCHANGED <<process_list, proc, current_process, next_pid, reaped>>
    BY <1>1 DEF allVars, schedVars, procVars
  <2>2. Listed_pids' = Listed_pids /\ SchedTypeOK' = SchedTypeOK
    BY <2>1, ZenonT(60) DEF Listed_pids, SchedTypeOK
  <2>3. CurrentListed' /\ NoProcessLost'
    BY <2>1, <2>2, SMTT(90) DEF ProcInv, ProcessesSound, CurrentListed, ProcTypeOK, NoProcessLost
  <2>4. ThreadsOwned' /\ ZombiesStopped'
    BY <2>1, <2>2 DEF ProcInv, ProcessesSound, ThreadsOwned, ZombiesStopped
  <2> QED
    BY <2>1, <2>2, <2>3, <2>4, SMTT(60) DEF ProcInv, ProcessesSound
<1>2. CASE Step
  <2>1. ASSUME NEW p \in Listed_pids, process_create(p) PROVE ProcInv'
    BY <2>1, CreateKeepsProc, Zenon
  <2>2. ASSUME NEW p \in Listed_pids, process_set_current(p) PROVE ProcInv'
    BY <2>2, SetCurrentKeepsProc, Zenon
  <2>3. ASSUME NEW p \in Listed_pids, NEW t \in Threads, proc[p].state # "ZOMBIE", exec_image(p, t)
        PROVE  ProcInv'
    BY <2>3, ExecKeepsProc, Zenon
  <2>4. ASSUME NEW c \in Codes, sys_exit(c) PROVE ProcInv'
    BY <2>4, ExitKeepsProc, Zenon
  <2>5. CASE sys_wait
    BY <2>5, WaitKeepsProc, Zenon DEF sys_wait
  <2>6. ASSUME NEW p \in 1 .. MaxPid, sys_waitpid(p) PROVE ProcInv'
    BY <2>6, WaitKeepsProc, Zenon DEF sys_waitpid
  <2>7. CASE sys_yield
    BY <2>7, YieldKeepsProc, Zenon
  <2> QED
    BY <1>2, <2>1, <2>2, <2>3, <2>4, <2>5, <2>6, <2>7, ZenonT(60) DEF Step
<1> QED
  BY <1>1, <1>2, Zenon DEF ProcNext

\* For any number of pids and threads and any order of create, exec, exit, wait and
\* yield (process.c, wait.c, exec.c): current_process is on the list or null, a
\* process stays on the list until a wait reports it and never comes back, no two
\* processes share a main thread, and the thread of a zombie is never made runnable.
THEOREM ProcessSafety == ProcSpec => []ProcessesSound
<1>1. ProcInit => ProcInv
  BY ProcInitially
<1>2. ProcInv /\ [ProcNext]_allVars => ProcInv'
  BY ProcStep
<1>3. ProcInv => ProcessesSound
  BY Zenon DEF ProcInv
<1> QED
  BY <1>1, <1>2, <1>3, PTL DEF ProcSpec

\* A step that takes p off the list.
Leaves == \A p \in Listed_pids \ Listed_pids' :
              proc[p].state = "ZOMBIE" /\ reaped'[p] = proc[p].code

\* A process leaves the list only as a zombie, in the wait_for_pid that hands its
\* caller the code of the last exit.
THEOREM ProcessesReported == ProcSpec => ReportsExit
<1>1. ProcInit => ProcInv
  BY ProcInitially
<1>2. ProcInv /\ [ProcNext]_allVars => ProcInv'
  BY ProcStep
<1>3. ASSUME ProcInv, ProcNext PROVE Leaves
  <2>1. CASE process_list' = process_list
    BY <2>1 DEF Leaves, Listed_pids
  <2>2. ASSUME NEW p, wait_for_pid(p) PROVE Leaves
    BY <1>3, <2>2, Reaps, Zenon DEF Leaves
  <2>3. ASSUME NEW p \in Listed_pids, process_create(p) PROVE Leaves
    <3>1. /\ process_list \in Seq(Nat) /\ Descending(process_list) /\ next_pid \in Nat
          /\ Range(process_list) \subseteq 1 .. next_pid - 1
      BY <1>3, ProcParts, ProcessConstants, SMTT(60) DEF Listed_pids
    <3>2. process_list' = <<next_pid>> \o process_list
      BY <2>3, Zenon DEF process_create
    <3>3. Listed_pids \subseteq Listed_pids'
      BY <3>1, <3>2, Prepended, ZenonT(60) DEF Listed_pids
    <3> QED
      BY <3>3, Zenon DEF Leaves
  <2>4. ASSUME NEW p \in Listed_pids, NEW t \in Threads, exec_image(p, t)
        PROVE  process_list' = process_list
    BY <2>4, SMTT(60) DEF exec_image
  <2>5. \/ process_list' = process_list
        \/ \E p : wait_for_pid(p)
        \/ \E p \in Listed_pids : process_create(p)
    BY <1>3, <2>4, SMTT(60) DEF ProcNext, Step, process_set_current, sys_exit, sys_wait, sys_waitpid,
                      sys_yield, procVars
  <2> QED
    BY <2>1, <2>2, <2>3, <2>5, ZenonT(60)
<1>4. ProcInv /\ [ProcNext]_allVars => [Leaves]_allVars
  BY <1>3
<1>5. ReportsExit <=> [][Leaves]_allVars
  BY PTL DEF ReportsExit, Leaves
<1> QED
  BY <1>1, <1>2, <1>4, <1>5, PTL DEF ProcSpec
=============================================================================
