--------------------------------- MODULE Ipc ----------------------------------
(* The objects threads and processes communicate through: message queues and *)
(* semaphores.                                                               *)
EXTENDS Integers, Sequences

-------------------------------------------------------------------------------
(***************************************************************************)
(* Message queues (kernel/ipc/msgqueue.c): an array of message slots used  *)
(* as a ring.  Calls are made with interrupts off, so each is one step.    *)
(*                                                                         *)
(* A payload is one value standing for the bytes that memcpy copies; a     *)
(* slot that was never written holds the zeroes of kcalloc.                *)
(***************************************************************************)

CONSTANTS
    QueueCapacities,    \* capacities asked for
    Types,         \* message types
    Payloads,      \* what callers send
    Zeroes,        \* payload of a slot fresh from kcalloc
    MaxPayload,    \* MSGQUEUE_MAX_PAYLOAD
    Lengths        \* payload lengths callers pass

ASSUME MsgQueueConstants ==
    /\ QueueCapacities \subseteq Nat /\ MaxPayload \in Nat /\ Lengths \subseteq Nat

VARIABLES messages, capacity, head, tail, count, received

queueVars == <<messages, capacity, head, tail, count, received>>

NoPayload == "NULL"

Fresh == [type |-> 0, length |-> 0, payload |-> Zeroes]

QueueSlots == 0 .. capacity - 1

QueueInit ==
    /\ messages = [i \in {} |-> Fresh]
    /\ capacity = 0 /\ head = 0 /\ tail = 0 /\ count = 0
    /\ received = << >>

\* Mutant of msgqueue_init: the indices of the queue's former life stay.
msgqueue_init_keeps_indices(n) ==
    /\ capacity = 0 /\ n > 0
    /\ messages' = [i \in 0 .. n - 1 |-> Fresh]
    /\ capacity' = n /\ count' = 0
    /\ UNCHANGED <<head, tail, received>>

\* A queue is set up once and again after it was destroyed.
msgqueue_init(n) ==
    /\ capacity = 0 /\ n > 0
    /\ messages' = [i \in 0 .. n - 1 |-> Fresh]
    /\ capacity' = n /\ head' = 0 /\ tail' = 0 /\ count' = 0
    /\ UNCHANGED received

msgqueue_destroy ==
    /\ messages' = [i \in {} |-> Fresh]
    /\ capacity' = 0 /\ count' = 0
    /\ UNCHANGED <<head, tail, received>>

\* The slot after a send: without a payload, or with an empty one, the bytes
\* of the slot's previous message stay where they are.
Filled(slot, type, payload, length) ==
    [type |-> type, length |-> length,
     payload |-> IF payload # NoPayload /\ length # 0 THEN payload ELSE slot.payload]

\* Refused: no queue, too long a payload, or no free slot.
msgqueue_send(type, payload, length) ==
    /\ capacity # 0 /\ length <= MaxPayload
    /\ count # capacity
    /\ messages' = [i \in QueueSlots |-> IF i = tail THEN Filled(messages[i], type, payload, length)
                                    ELSE messages[i]]
    /\ tail' = (tail + 1) % capacity
    /\ count' = count + 1
    /\ UNCHANGED <<capacity, head, received>>

\* Mutant of msgqueue_receive: the newest message is handed out.
msgqueue_receive_newest ==
    /\ capacity # 0 /\ count # 0
    /\ tail' = (tail + capacity - 1) % capacity
    /\ received' = <<messages[(tail + capacity - 1) % capacity]>>
    /\ count' = count - 1
    /\ UNCHANGED <<messages, capacity, head>>

msgqueue_receive ==
    /\ capacity # 0 /\ count # 0
    /\ received' = <<messages[head]>>
    /\ head' = (head + 1) % capacity
    /\ count' = count - 1
    /\ UNCHANGED <<messages, capacity, tail>>

QueueNext ==
    \/ \E n \in QueueCapacities : msgqueue_init(n)
    \/ msgqueue_destroy
    \/ \E type \in Types, payload \in Payloads \cup {NoPayload}, length \in Lengths :
          msgqueue_send(type, payload, length)
    \/ msgqueue_receive

QueueSpec == QueueInit /\ [][QueueNext]_queueVars

-----------------------------------------------------------------------------
QueueTypeOK ==
    /\ capacity \in Nat /\ count \in Nat
    /\ head \in Nat /\ tail \in Nat
    /\ DOMAIN messages = QueueSlots

\* The ring is consistent through any sequence of sends, receives, destroys and
\* new inits (msgqueue_init, msgqueue_send, msgqueue_receive): the indices lie inside the array, at most capacity
\* messages are queued, and tail is count slots after head, going round.
MsgQueueSound ==
    /\ QueueTypeOK
    /\ capacity # 0 =>
          /\ head < capacity /\ tail < capacity /\ count <= capacity
          /\ tail = IF head + count < capacity THEN head + count ELSE head + count - capacity
    /\ capacity = 0 => count = 0

\* The slot of the i-th message from index h on in a ring of c slots.
Place(h, i, c) == IF h + i - 1 < c THEN h + i - 1 ELSE h + i - 1 - c

\* The n messages from index h on in the ring m of c slots.
Ringed(m, h, n, c) == [i \in 1 .. n |-> m[Place(h, i, c)]]

\* The queued messages, oldest first.
QueueContents == Ringed(messages, head, count, capacity)

QueuePromise == INSTANCE Fifo WITH items <- QueueContents, room <- capacity, taken <- received

\* Messages come out once each and in the order they were sent, also when the
\* indices wrap, and none is overwritten (msgqueue_send, msgqueue_receive).
QueueIsFifo == QueuePromise!FifoSpec

-------------------------------------------------------------------------------
(***************************************************************************)
(* Counting semaphores (kernel/ipc/semaphore.c), at the granularity of its *)
(* memory accesses: a call loads the count, decides, and then tries to     *)
(* swap in the new value, starting over when another thread was faster.    *)
(***************************************************************************)

CONSTANTS
    Threads,    \* callers
    Initials,   \* initial counts passed to semaphore_init
    Limits      \* limits passed to semaphore_init

ASSUME SemaphoreConstants == Initials \subseteq Int /\ Limits \subseteq Int

VARIABLES
    sem_count, sem_limit,   \* the semaphore_t structure
    pc,             \* where each thread is
    seen,           \* the count each thread loaded
    result          \* how each thread's last call ended

semVars == <<sem_count, sem_limit, pc, seen, result>>

\* What semaphore_init makes of its arguments.
ClampLimit(n) == IF n <= 0 THEN 1 ELSE n
ClampInitial(n, lim) == IF n < 0 THEN 0 ELSE IF n > lim THEN lim ELSE n

semaphore_init(initial, lim) ==
    /\ sem_limit = ClampLimit(lim)
    /\ sem_count = ClampInitial(initial, sem_limit)

SemaphoreInit ==
    /\ \E initial \in Initials, lim \in Limits : semaphore_init(initial, lim)
    /\ pc = [t \in Threads |-> "idle"]
    /\ seen = [t \in Threads |-> 0]
    /\ result = [t \in Threads |-> "none"]

Goto(t, l) == pc' = [pc EXCEPT ![t] = l]
Answer(t, r) == result' = [result EXCEPT ![t] = r]

\* A thread calls semaphore_try_wait, semaphore_wait or semaphore_post.
Call(t, f) ==
    /\ pc[t] = "idle"
    /\ Goto(t, f) /\ Answer(t, "none")
    /\ UNCHANGED <<sem_count, sem_limit, seen>>

\* The load of semaphore_try_wait: nothing left means FALSE, which makes
\* semaphore_wait try again.
try_wait_load(t) ==
    /\ pc[t] \in {"try_wait", "wait"}
    /\ IF sem_count <= 0
       THEN IF pc[t] = "try_wait"
            THEN Goto(t, "idle") /\ Answer(t, "empty") /\ UNCHANGED seen
            ELSE UNCHANGED <<pc, seen, result>>
       ELSE /\ Goto(t, IF pc[t] = "wait" THEN "wait_swap" ELSE "try_wait_swap")
            /\ seen' = [seen EXCEPT ![t] = sem_count]
            /\ UNCHANGED result
    /\ UNCHANGED <<sem_count, sem_limit>>

\* Mutant of try_wait_swap: the new count is stored without comparing.
try_wait_swap_blind(t) ==
    /\ pc[t] \in {"try_wait_swap", "wait_swap"}
    /\ sem_count' = seen[t] - 1
    /\ Goto(t, "idle") /\ Answer(t, "taken")
    /\ UNCHANGED <<sem_limit, seen>>

\* Its compare-and-swap.
try_wait_swap(t) ==
    /\ pc[t] \in {"try_wait_swap", "wait_swap"}
    /\ IF sem_count = seen[t]
       THEN sem_count' = seen[t] - 1 /\ Goto(t, "idle") /\ Answer(t, "taken")
       ELSE /\ Goto(t, IF pc[t] = "wait_swap" THEN "wait" ELSE "try_wait")
            /\ UNCHANGED <<sem_count, result>>
    /\ UNCHANGED <<sem_limit, seen>>

\* Mutant of post_load: the limit itself is still let through.
post_load_late(t) ==
    /\ pc[t] = "post"
    /\ IF sem_count > sem_limit
       THEN Goto(t, "idle") /\ Answer(t, "full") /\ UNCHANGED seen
       ELSE Goto(t, "post_swap") /\ seen' = [seen EXCEPT ![t] = sem_count] /\ UNCHANGED result
    /\ UNCHANGED <<sem_count, sem_limit>>

\* semaphore_post: load, test against the limit, compare-and-swap.
post_load(t) ==
    /\ pc[t] = "post"
    /\ IF sem_count >= sem_limit
       THEN Goto(t, "idle") /\ Answer(t, "full") /\ UNCHANGED seen
       ELSE Goto(t, "post_swap") /\ seen' = [seen EXCEPT ![t] = sem_count] /\ UNCHANGED result
    /\ UNCHANGED <<sem_count, sem_limit>>

post_swap(t) ==
    /\ pc[t] = "post_swap"
    /\ IF sem_count = seen[t]
       THEN sem_count' = seen[t] + 1 /\ Goto(t, "idle") /\ Answer(t, "given")
       ELSE Goto(t, "post") /\ UNCHANGED <<sem_count, result>>
    /\ UNCHANGED <<sem_limit, seen>>

Step(t) == try_wait_load(t) \/ try_wait_swap(t) \/ post_load(t) \/ post_swap(t)

SemaphoreNext ==
    \E t \in Threads :
       \/ \E f \in {"try_wait", "wait", "post"} : Call(t, f)
       \/ Step(t)

SemaphoreSpec == SemaphoreInit /\ [][SemaphoreNext]_semVars

-----------------------------------------------------------------------------
SemaphoreTypeOK ==
    /\ sem_count \in Int /\ sem_limit \in Int
    /\ pc \in [Threads -> {"idle", "try_wait", "wait", "post",
                           "try_wait_swap", "wait_swap", "post_swap"}]
    /\ seen \in [Threads -> Int]
    /\ result \in [Threads -> {"none", "taken", "empty", "given", "full"}]

\* However the calls interleave, the count stays between zero and the limit
\* (so it never leaves int32_t), and a thread about to swap holds a count its
\* swap may act on (semaphore_try_wait, semaphore_post).
CountInRange ==
    /\ SemaphoreTypeOK
    /\ sem_limit > 0 /\ sem_count >= 0 /\ sem_count <= sem_limit
    /\ \A t \in Threads :
          /\ pc[t] \in {"try_wait_swap", "wait_swap"} => seen[t] > 0
          /\ pc[t] = "post_swap" => seen[t] < sem_limit

SemaphorePromise == INSTANCE Counting WITH value <- sem_count, most <- sem_limit, answer <- result

\* Every call of the load-and-swap code takes effect at one instant between its
\* start and its end: no unit is lost or invented, and a call answers "empty" or
\* "full" only if at some instant of the call it was so.
ImplementsCounting == SemaphorePromise!CountingSpec
===============================================================================
