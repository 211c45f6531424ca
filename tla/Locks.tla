--------------------------------- MODULE Locks ---------------------------------
(***************************************************************************)
(* Spin locks, mutexes and condition variables (kernel/lib/spinlock.c,     *)
(* kernel/ipc/mutex.c, condvar.c) at the granularity of their memory       *)
(* accesses.  Pipes and message queues take a mutex around each operation  *)
(* (pipe.c, msgqueue.c); the others have no caller yet.  Threads are       *)
(* arbitrary callers that unlock what they locked.                         *)
(*                                                                         *)
(* current_owner_token is 1 for everybody, so a mutex held by one thread   *)
(* looks like a recursive lock to every other one: a mutex counts, it does *)
(* not exclude.  What remains true is that nobody is kept out for ever.    *)
(***************************************************************************)
EXTENDS Integers, FiniteSets

CONSTANTS
    LockThreads,
    RecursionMod,  \* recursion is a 32-bit counter that wraps
    MaxLocks       \* bound on the mutex_lock calls made

ASSUME LockConstants == RecursionMod \in Nat \ {0} /\ MaxLocks \in Nat

VARIABLES
    mutex,         \* locked, owner, recursion
    sequence,      \* of the condition variable
    spin,          \* locked word of the spin lock
    pc,            \* where each thread is in its call
    back,          \* where the call returns to
    reg,           \* value a thread read and will use; 0 once it is of no more use
    depth,         \* locks each thread holds
    calls          \* mutex_lock calls made

lockVars == <<mutex, sequence, spin, pc, back, reg, depth, calls>>

Token == 1

LocksInit ==
    /\ mutex = [locked |-> 0, owner |-> 0, recursion |-> 0]
    /\ sequence = 0 /\ spin = 0
    /\ pc = [t \in LockThreads |-> "ready"] /\ back = [t \in LockThreads |-> <<"ready">>]
    /\ reg = [t \in LockThreads |-> 0] /\ depth = reg /\ calls = 0

Goto(t, label) == pc' = [pc EXCEPT ![t] = label]
Acquired(t) == Goto(t, "ready") /\ depth' = [depth EXCEPT ![t] = @ + 1]
Released(t) ==
    /\ Goto(t, IF back[t] = <<"ready">> THEN "ready" ELSE "wait_loop")
    /\ depth' = [depth EXCEPT ![t] = @ - 1]

\* A thread may lock again what it holds.
mutex_lock(t) ==
    /\ pc[t] = "ready" /\ calls < MaxLocks
    /\ Goto(t, "test_locked")
    /\ calls' = calls + 1
    /\ UNCHANGED <<mutex, sequence, spin, back, reg, depth>>

\* mutex_try_lock: the word, the owner, then one more level or the swap; a swap
\* that fails begins again.
try_lock_step(t) ==
    /\ \/ /\ pc[t] = "test_locked"
          /\ Goto(t, IF mutex.locked = 1 THEN "test_owner" ELSE "swap")
          /\ UNCHANGED <<mutex, reg, depth>>
       \/ /\ pc[t] = "test_owner"
          /\ Goto(t, IF mutex.owner = Token THEN "read_more" ELSE "swap")
          /\ UNCHANGED <<mutex, reg, depth>>
       \/ /\ pc[t] = "read_more"
          /\ reg' = [reg EXCEPT ![t] = mutex.recursion]
          /\ Goto(t, "write_more") /\ UNCHANGED <<mutex, depth>>
       \/ /\ pc[t] = "write_more"
          /\ mutex' = [mutex EXCEPT !.recursion = (reg[t] + 1) % RecursionMod]
          /\ Acquired(t) /\ reg' = [reg EXCEPT ![t] = 0]
       \/ /\ pc[t] = "swap"
          /\ IF mutex.locked = 0
             THEN mutex' = [mutex EXCEPT !.locked = 1] /\ Goto(t, "set_owner")
             ELSE Goto(t, "test_locked") /\ UNCHANGED mutex
          /\ UNCHANGED <<reg, depth>>
       \/ /\ pc[t] = "set_owner"
          /\ mutex' = [mutex EXCEPT !.owner = Token]
          /\ Goto(t, "set_count") /\ UNCHANGED <<reg, depth>>
       \/ /\ pc[t] = "set_count"
          /\ mutex' = [mutex EXCEPT !.recursion = 1]
          /\ Acquired(t) /\ UNCHANGED reg
    /\ UNCHANGED <<sequence, spin, back, calls>>

\* A holder unlocks and goes on, or waits on the condition variable, which reads
\* the sequence before it lets go.
mutex_unlock(t) ==
    /\ pc[t] = "ready" /\ depth[t] > 0
    /\ Goto(t, "test_unlock") /\ back' = [back EXCEPT ![t] = <<"ready">>]
    /\ UNCHANGED <<mutex, sequence, spin, reg, depth, calls>>

\* Mutant of condvar_wait: the sequence is read after the mutex was released.
condvar_wait_late(t) ==
    /\ pc[t] = "ready" /\ depth[t] > 0
    /\ Goto(t, "test_unlock") /\ back' = [back EXCEPT ![t] = <<"observe">>]
    /\ UNCHANGED <<mutex, sequence, spin, reg, depth, calls>>

condvar_wait(t) ==
    /\ pc[t] = "ready" /\ depth[t] > 0
    /\ Goto(t, "test_unlock") /\ back' = [back EXCEPT ![t] = <<"waiting", sequence>>]
    /\ UNCHANGED <<mutex, sequence, spin, reg, depth, calls>>

unlock_step(t) ==
    /\ \/ /\ pc[t] = "test_unlock"
          /\ IF mutex.locked = 0 THEN Released(t) ELSE Goto(t, "test_mine") /\ UNCHANGED depth
          /\ UNCHANGED <<mutex, reg>>
       \/ /\ pc[t] = "test_mine"
          /\ IF mutex.owner # Token THEN Released(t) ELSE Goto(t, "read_less") /\ UNCHANGED depth
          /\ UNCHANGED <<mutex, reg>>
       \/ /\ pc[t] = "read_less"
          /\ reg' = [reg EXCEPT ![t] = mutex.recursion]
          /\ Goto(t, "write_less") /\ UNCHANGED <<mutex, depth>>
       \/ /\ pc[t] = "write_less"
          /\ mutex' = [mutex EXCEPT !.recursion = (reg[t] - 1) % RecursionMod]
          /\ IF reg[t] = 1 THEN Goto(t, "clear_owner") /\ UNCHANGED depth ELSE Released(t)
          /\ reg' = [reg EXCEPT ![t] = 0]
       \/ /\ pc[t] = "clear_owner"
          /\ mutex' = [mutex EXCEPT !.owner = 0]
          /\ Goto(t, "clear_locked") /\ UNCHANGED <<reg, depth>>
       \/ /\ pc[t] = "clear_locked"
          /\ mutex' = [mutex EXCEPT !.locked = 0]
          /\ Released(t) /\ UNCHANGED reg
    /\ UNCHANGED <<sequence, spin, back, calls>>

\* The loop of condvar_wait, then mutex_lock.
wait_step(t) ==
    /\ pc[t] = "wait_loop"
    /\ IF back[t] = <<"observe">>
       THEN back' = [back EXCEPT ![t] = <<"waiting", sequence>>] /\ UNCHANGED pc
       ELSE /\ sequence # back[t][2]
            /\ Goto(t, "test_locked") /\ back' = [back EXCEPT ![t] = <<"ready">>]
    /\ UNCHANGED <<mutex, sequence, spin, reg, depth, calls>>

\* condvar_signal and condvar_broadcast are the same; a thread need not hold the
\* mutex.  One signal suffices to wake everybody who observed an older sequence.
condvar_signal(t) ==
    /\ pc[t] = "ready" /\ sequence = 0
    /\ sequence' = sequence + 1
    /\ UNCHANGED <<mutex, spin, pc, back, reg, depth, calls>>

\* Mutant of spin_trylock: a test and a store instead of the swap.
spin_trylock_split(t) ==
    /\ \/ pc[t] = "ready" /\ depth[t] = 0 /\ spin = 0 /\ Goto(t, "spin_store") /\ UNCHANGED spin
       \/ pc[t] = "spin_store" /\ spin' = 1 /\ Goto(t, "spin_held")
    /\ UNCHANGED <<mutex, sequence, back, reg, depth, calls>>

\* spin_lock repeats this until it succeeds.
spin_trylock(t) ==
    /\ pc[t] = "ready" /\ depth[t] = 0 /\ spin = 0
    /\ spin' = 1 /\ Goto(t, "spin_held")
    /\ UNCHANGED <<mutex, sequence, back, reg, depth, calls>>

spin_unlock(t) ==
    /\ pc[t] = "spin_held"
    /\ spin' = 0 /\ Goto(t, "ready")
    /\ UNCHANGED <<mutex, sequence, back, reg, depth, calls>>

\* Nobody is left to signal: the waiters spin.
AllWait == (\A t \in LockThreads : pc[t] = "wait_loop") /\ UNCHANGED lockVars

LockStep(t) == try_lock_step(t) \/ unlock_step(t) \/ wait_step(t)

LocksNext ==
    \/ \E t \in LockThreads :
          \/ mutex_lock(t) \/ mutex_unlock(t) \/ condvar_wait(t) \/ condvar_signal(t)
          \/ spin_trylock(t) \/ spin_unlock(t) \/ LockStep(t)
    \/ AllWait

\* At most one thread is between spin_trylock and spin_unlock.
SpinExcludes == Cardinality({t \in LockThreads : pc[t] = "spin_held"}) <= 1

Acquiring == {"test_locked", "test_owner", "read_more", "write_more", "swap", "set_owner", "set_count"}
Releasing == {"test_unlock", "test_mine", "read_less", "write_less", "clear_owner", "clear_locked"}

\* A mutex_lock and a mutex_unlock return, through every
\* race on the owner and the count, once the other threads call no more.  A signal
\* that comes after condvar_wait was called wakes the waiter, even when it comes
\* before the waiter has let go of the mutex (mutex_try_lock, condvar_wait,
\* condvar_signal).
LocksServe ==
    \A t \in LockThreads :
       /\ pc[t] \in Acquiring ~> pc[t] = "ready"
       /\ pc[t] \in Releasing ~> pc[t] \in {"ready", "wait_loop"}
       /\ back[t] # <<"ready">> /\ sequence = 0 /\ <>(sequence = 1) ~> back[t] = <<"ready">>
================================================================================
