------------------------------ MODULE Scheduler ------------------------------
(***************************************************************************)
(* Threads and the run queue (kernel/proc/thread.c, scheduler.c): a singly *)
(* linked list of thread structures, the thread that had the last turn,    *)
(* and a search for the next runnable thread that goes once round the      *)
(* list.                                                                   *)
(*                                                                         *)
(* A thread is named by its address.  thread_destroy frees the structure   *)
(* and changes nothing in it, so state and next keep a value for every     *)
(* address; thread_create may reuse any free address.  A walk along a list *)
(* that has become circular never ends: hung is TRUE from then on.         *)
(*                                                                         *)
(* ClientNext is a client that keeps the contract the code relies on: a    *)
(* thread is added only while it is not queued and destroyed only after it *)
(* was removed.  Processes.tla drives the same operations as process.c,    *)
(* wait.c and exec.c do.                                                   *)
(***************************************************************************)
EXTENDS Naturals, Sequences, FiniteSetsExt, Functions

CONSTANTS
    Threads,     \* addresses kcalloc can return for a thread_t
    Nil          \* the null pointer

ASSUME SchedulerConstants == IsFiniteSet(Threads) /\ Threads # {} /\ Nil \notin Threads

VARIABLES
    allocated,       \* addresses that hold a live thread_t
    state,           \* address -> thread state
    next,            \* address -> the queue link in the structure
    run_queue,       \* head of the list
    current_thread,  \* thread of the last turn
    hung             \* a list walk did not end

schedVars == <<allocated, state, next, run_queue, current_thread, hung>>

ThreadState == {"NEW", "READY", "RUNNING", "BLOCKED", "EXITED"}

-----------------------------------------------------------------------------
(* Walks along the links.                                                  *)

\* The nodes visited by following nx from a, Nil once the end is reached.
Walk(a, nx) ==
    LET node[i \in 0 .. Cardinality(Threads)] ==
            IF i = 0 THEN a
            ELSE IF node[i - 1] = Nil THEN Nil ELSE nx[node[i - 1]]
    IN  node

OnList(a, nx) == Range(Walk(a, nx)) \ {Nil}

\* More steps than there are threads, and still no end.
Circular(a, nx) == Walk(a, nx)[Cardinality(Threads)] # Nil

\* The list as a sequence: the nodes of the walk before its end.
Listed(a, nx) ==
    LET before(node) ==
            LET n == CHOOSE i \in DOMAIN node : node[i] = Nil /\ \A j \in 0 .. i - 1 : node[j] # Nil
            IN  [i \in 1 .. n |-> node[i - 1]]
    IN  before(Walk(a, nx))

Queued == OnList(run_queue, next)

thread_is_runnable(t, st) == st[t] \in {"READY", "RUNNING"}

-----------------------------------------------------------------------------
SchedInit ==
    /\ allocated = {}
    /\ state = [t \in Threads |-> "NEW"]
    /\ next = [t \in Threads |-> Nil]
    /\ run_queue = Nil
    /\ current_thread = Nil
    /\ hung = FALSE

\* kcalloc zeroes the structure, its queue link included.
thread_create(t) ==
    /\ t \notin allocated
    /\ allocated' = allocated \cup {t}
    /\ state' = [state EXCEPT ![t] = "NEW"]
    /\ next' = [next EXCEPT ![t] = Nil]
    /\ UNCHANGED <<run_queue, current_thread, hung>>

thread_destroy(t) ==
    /\ allocated' = allocated \ {t}
    /\ UNCHANGED <<state, next, run_queue, current_thread, hung>>

thread_set_state(t, s) ==
    /\ state' = [state EXCEPT ![t] = s]
    /\ UNCHANGED <<allocated, next, run_queue, current_thread, hung>>

\* Mutant of scheduler_add: the new thread goes to the front.
scheduler_add_front(t) ==
    /\ state' = [state EXCEPT ![t] = "READY"]
    /\ next' = [next EXCEPT ![t] = run_queue]
    /\ run_queue' = t
    /\ UNCHANGED <<allocated, current_thread, hung>>

\* The link of t is cleared first, so a queue that holds t already is cut
\* there, and the walk to the tail ends at t or at the old tail.
Enqueue(t) ==
    LET nx == [next EXCEPT ![t] = Nil]
        tail == CHOOSE u \in OnList(run_queue, nx) : nx[u] = Nil
    IN  /\ state' = [state EXCEPT ![t] = "READY"]
        /\ run_queue' = IF run_queue = Nil THEN t ELSE run_queue
        /\ hung' = Circular(run_queue, nx)
        /\ next' = IF run_queue = Nil \/ Circular(run_queue, nx) THEN nx
                   ELSE [nx EXCEPT ![tail] = t]

scheduler_add(t) == Enqueue(t) /\ UNCHANGED <<allocated, current_thread>>

\* Mutants of scheduler_remove: the thread stays current; it keeps its link.
scheduler_remove_keeps_current(t) ==
    /\ t \in Queued
    /\ next' = [u \in Threads |-> IF u = t THEN Nil ELSE IF next[u] = t THEN next[t] ELSE next[u]]
    /\ run_queue' = IF run_queue = t THEN next[t] ELSE run_queue
    /\ UNCHANGED <<allocated, state, current_thread, hung>>

scheduler_remove_keeps_link(t) ==
    /\ t \in Queued
    /\ next' = [u \in Threads |-> IF next[u] = t THEN next[t] ELSE next[u]]
    /\ run_queue' = IF run_queue = t THEN next[t] ELSE run_queue
    /\ current_thread' = IF current_thread = t THEN Nil ELSE current_thread
    /\ UNCHANGED <<allocated, state, hung>>

\* Only the first node that points at t is re-linked; on a list without a
\* cycle there is no other.
scheduler_remove(t) ==
    /\ t \in Queued
    /\ next' = [u \in Threads |-> IF u = t THEN Nil
                                  ELSE IF u \in Queued /\ next[u] = t THEN next[t]
                                  ELSE next[u]]
    /\ run_queue' = IF run_queue = t THEN next[t] ELSE run_queue
    /\ current_thread' = IF current_thread = t THEN Nil ELSE current_thread
    /\ UNCHANGED <<allocated, state, hung>>

-----------------------------------------------------------------------------
(* The search for the next thread to run.                                  *)

\* Where the search starts: after the last turn, else at the head.
StartOf(cur) ==
    IF cur # Nil /\ next[cur] # Nil THEN next[cur] ELSE run_queue

\* The candidates in the order they are looked at, wrapping at the tail.
Candidates(start) ==
    LET node[i \in 0 .. Cardinality(Threads)] ==
            IF i = 0 THEN start
            ELSE IF next[node[i - 1]] # Nil THEN next[node[i - 1]] ELSE run_queue
    IN  node

\* Position i is looked at: the search has not come back to its start before.
LookedAt(node, i) == \A j \in 1 .. i : node[j] # node[0]

\* Mutant of scheduler_pick_next: it always searches from the head.
scheduler_pick_next_from_head(st) ==
    /\ IF \E t \in Queued : thread_is_runnable(t, st)
       THEN LET w == Walk(run_queue, next)
                i == Min({k \in DOMAIN w : w[k] # Nil /\ thread_is_runnable(w[k], st)})
            IN  current_thread' = w[i] /\ state' = [st EXCEPT ![w[i]] = "RUNNING"]
       ELSE current_thread' = current_thread /\ state' = st
    /\ hung' = FALSE

\* st is the thread states when the search begins.  When nothing is runnable
\* the thread of the last turn stays current.
scheduler_pick_next(st) ==
    LET node == Candidates(StartOf(current_thread))
        back == \E i \in DOMAIN node : i > 0 /\ node[i] = node[0]
    IN  IF run_queue = Nil
        THEN current_thread' = Nil /\ state' = st /\ hung' = FALSE
        ELSE \E hits \in {{i \in DOMAIN node : LookedAt(node, i) /\ thread_is_runnable(node[i], st)}} :
             IF hits # {}
             THEN /\ current_thread' = node[Min(hits)]
                  /\ state' = [st EXCEPT ![node[Min(hits)]] = "RUNNING"]
                  /\ hung' = FALSE
             ELSE current_thread' = current_thread /\ state' = st /\ hung' = ~back

\* A yield when the thread states are st: the running thread becomes READY
\* again and the search begins.
YieldFrom(st) ==
    /\ UNCHANGED <<allocated, next, run_queue>>
    /\ scheduler_pick_next(IF current_thread # Nil /\ st[current_thread] = "RUNNING"
                           THEN [st EXCEPT ![current_thread] = "READY"] ELSE st)

scheduler_yield == YieldFrom(state)

scheduler_runnable_count == Cardinality({t \in Queued : thread_is_runnable(t, state)})

-----------------------------------------------------------------------------
ClientNext ==
    \/ scheduler_yield
    \/ \E t \in Threads : thread_create(t)
    \/ \E t \in allocated \ Queued : scheduler_add(t) \/ thread_destroy(t)
    \/ \E t \in Queued : scheduler_remove(t)
    \/ \E t \in allocated, s \in {"READY", "BLOCKED", "EXITED"} : thread_set_state(t, s)

ClientSpec == SchedInit /\ [][ClientNext]_schedVars

\* Scheduling is cooperative: what is assumed of the running code is that it
\* gives up the processor again and again (sys_yield, sys_exit).
FairClientSpec == ClientSpec /\ WF_schedVars(scheduler_yield)

-----------------------------------------------------------------------------
SchedTypeOK ==
    /\ allocated \subseteq Threads
    /\ state \in [Threads -> ThreadState]
    /\ next \in [Threads -> Threads \cup {Nil}]
    /\ run_queue \in Threads \cup {Nil} /\ current_thread \in Threads \cup {Nil}
    /\ hung \in BOOLEAN

\* At most one queued thread is RUNNING, and it is the one scheduler_current
\* reports; a removed thread is not reported (yield, pick_next, remove).
OneRunning ==
    /\ \A t \in Queued : state[t] = "RUNNING" => t = current_thread
    /\ current_thread # Nil => current_thread \in Queued

\* The queue never becomes circular and never holds a freed thread, so no walk
\* of scheduler.c can run for ever or read freed memory; a thread outside the
\* queue has no link into it (add, remove).
QueueSound ==
    /\ SchedTypeOK /\ OneRunning
    /\ ~hung /\ ~Circular(run_queue, next)
    /\ Queued \subseteq allocated
    /\ \A t \in allocated \ Queued : next[t] = Nil

\* The linked list and its search implement the abstract round-robin line.
Line == INSTANCE RunQueue WITH
    line <- Listed(run_queue, next),
    ready <- {t \in Queued : thread_is_runnable(t, state)},
    turn <- current_thread

ImplementsRoundRobin == Line!RunQueueSpec

Waiting(t) == t \in Queued /\ thread_is_runnable(t, state)

GetsTurn(t) == Waiting(t) ~> (current_thread = t \/ ~Waiting(t))

\* Once no more threads join the queue, every thread that stays queued and
\* runnable gets a turn, although removing the current thread restarts the
\* search at the head (scheduler_yield, scheduler_remove).
TurnsComeRound ==
    (<>[][\A t \in Threads : ~scheduler_add(t)]_schedVars) => \A t \in Threads : GetsTurn(t)

\* What "round-robin" says without that proviso: a thread that stays queued and
\* runnable gets a turn.  scheduler_add puts a thread behind the one that runs,
\* not behind the ones that wait at the front, so threads that leave and join
\* again are served before them for ever.
RoundRobin == \A t \in Threads : GetsTurn(t)
==============================================================================
