------------------------------ MODULE Processes ------------------------------
(***************************************************************************)
(* Processes (kernel/proc/process.c, wait.c, exec.c and the exit, wait,    *)
(* waitpid and yield handlers of syscall_handlers.c) on top of the         *)
(* scheduler.  A process is named by its pid.  A system call is made by    *)
(* current_process; handlers run with interrupts off, so each is one step. *)
(*                                                                         *)
(* The kernel's own code creates one process; creation, exec and the       *)
(* choice of the current process are otherwise an interface, driven here   *)
(* by a caller that creates children of listed processes, gives an image   *)
(* to processes that have not exited, and makes listed ones current.       *)
(***************************************************************************)
EXTENDS Scheduler

CONSTANTS
    MaxPid,      \* bound: pids handed out
    Codes        \* exit codes

ASSUME ProcessConstants == MaxPid \in Nat /\ MaxPid > 0 /\ Codes # {}

VARIABLES
    process_list,     \* pids in list order, newest first
    proc,             \* listed pid -> [parent, state, code, thread]
    current_process,  \* pid of the current process, 0 for none
    next_pid,
    reaped  \* history: reaped pid -> the exit code its waiter got

procVars == <<process_list, proc, current_process, next_pid, reaped>>

allVars == <<schedVars, procVars>>

Listed_pids == Range(process_list)

NewProcess(parent, st) == [parent |-> parent, state |-> st, code |-> 0, thread |-> Nil]

\* process_system_init, then the process the kernel itself runs as.
ProcInit ==
    /\ SchedInit
    /\ process_list = <<1>>
    /\ proc = [p \in {1} |-> NewProcess(0, "RUNNING")]
    /\ current_process = 1
    /\ next_pid = 2
    /\ reaped = [p \in {} |-> 0]

process_create(parent) ==
    /\ next_pid <= MaxPid
    /\ proc' = [p \in Listed_pids \cup {next_pid} |->
                  IF p = next_pid THEN NewProcess(parent, "NEW") ELSE proc[p]]
    /\ process_list' = <<next_pid>> \o process_list
    /\ next_pid' = next_pid + 1
    /\ current_process' = IF current_process = 0 THEN next_pid ELSE current_process
    /\ UNCHANGED <<schedVars, reaped>>

process_set_current(p) ==
    /\ current_process' = p
    /\ UNCHANGED <<schedVars, process_list, proc, next_pid, reaped>>

\* exec_image with an image elf_load_process accepts.  The first exec creates
\* the main thread (at any free address t) and queues it.
exec_image(p, t) ==
    /\ IF proc[p].thread = Nil
       THEN /\ t \notin allocated
            /\ allocated' = allocated \cup {t}
            /\ Enqueue(t)
            /\ proc' = [proc EXCEPT ![p].thread = t, ![p].state = "READY"]
            /\ UNCHANGED current_thread
       ELSE proc' = [proc EXCEPT ![p].state = "READY"] /\ UNCHANGED schedVars
    /\ UNCHANGED <<process_list, current_process, next_pid, reaped>>

-----------------------------------------------------------------------------
(* exit and wait                                                           *)

process_exit(p, code) ==
    proc' = [proc EXCEPT ![p].code = code, ![p].state = "ZOMBIE"]

\* Mutant of ThreadsAfterExit: the main thread stays runnable.
ThreadsAfterExit_runnable(p) == state

\* The thread states once p's main thread is marked EXITED.
ThreadsAfterExit(p) ==
    IF proc[p].thread = Nil THEN state ELSE [state EXCEPT ![proc[p].thread] = "EXITED"]

\* The call returns to its caller: the current process stays the same.
sys_exit(code) ==
    /\ current_process # 0
    /\ process_exit(current_process, code)
    /\ YieldFrom(ThreadsAfterExit(current_process))
    /\ UNCHANGED <<process_list, current_process, next_pid, reaped>>

\* Mutant of process_destroy: the process is unlinked together with all that
\* follow it.
process_destroy_cuts(p) ==
    LET i == CHOOSE i \in DOMAIN process_list : process_list[i] = p
        rest == SubSeq(process_list, 1, i - 1)
    IN  /\ process_list' = rest
        /\ proc' = [q \in Range(rest) |-> proc[q]]
        /\ current_process' = IF current_process \in Range(rest) THEN current_process
                              ELSE IF rest = << >> THEN 0 ELSE Head(rest)
        /\ IF proc[p].thread = Nil THEN UNCHANGED schedVars ELSE thread_destroy(proc[p].thread)

\* The first node that is p is unlinked.  The thread is freed where it is: it is
\* not taken off the run queue.
process_destroy(p) ==
    LET i == CHOOSE i \in DOMAIN process_list : process_list[i] = p
        rest == SubSeq(process_list, 1, i - 1)
                    \o SubSeq(process_list, i + 1, Len(process_list))
    IN  /\ process_list' = rest
        /\ proc' = [q \in Listed_pids \ {p} |-> proc[q]]
        /\ current_process' = IF current_process # p THEN current_process
                              ELSE IF rest = << >> THEN 0 ELSE Head(rest)
        /\ IF proc[p].thread = Nil THEN UNCHANGED schedVars ELSE thread_destroy(proc[p].thread)

\* Mutant of wait_for_pid: a process that still runs is reaped.
wait_for_pid_any_state(p) ==
    /\ p \in Listed_pids
    /\ reaped' = [q \in DOMAIN reaped \cup {p} |->
                    IF q = p THEN proc[p].code ELSE reaped[q]]
    /\ process_destroy(p)
    /\ UNCHANGED next_pid

\* Succeeds at once or not at all; whose child p is does not matter.
wait_for_pid(p) ==
    /\ p \in Listed_pids /\ proc[p].state = "ZOMBIE"
    /\ reaped' = [q \in DOMAIN reaped \cup {p} |->
                    IF q = p THEN proc[p].code ELSE reaped[q]]
    /\ process_destroy(p)
    /\ UNCHANGED next_pid

\* The zombies wait_any_child can find, as positions in the list.
ZombieChildren(parent) ==
    {i \in DOMAIN process_list : /\ proc[process_list[i]].parent = parent
                                 /\ proc[process_list[i]].state = "ZOMBIE"}

sys_wait ==
    /\ ZombieChildren(current_process) # {}
    /\ wait_for_pid(process_list[Min(ZombieChildren(current_process))])

sys_waitpid(p) == wait_for_pid(p)

sys_yield == scheduler_yield /\ UNCHANGED procVars

-----------------------------------------------------------------------------
Step ==
    \/ \E p \in Listed_pids : process_create(p) \/ process_set_current(p)
    \/ \E p \in Listed_pids, t \in Threads : proc[p].state # "ZOMBIE" /\ exec_image(p, t)
    \/ \E c \in Codes : sys_exit(c)
    \/ sys_wait
    \/ \E p \in 1 .. MaxPid : sys_waitpid(p)
    \/ sys_yield

ProcNext == ~hung /\ Step

ProcSpec == ProcInit /\ [][ProcNext]_allVars

-----------------------------------------------------------------------------
ProcTypeOK ==
    /\ SchedTypeOK
    /\ Listed_pids \subseteq 1 .. MaxPid
    /\ DOMAIN proc = Listed_pids
    /\ \A p \in Listed_pids :
          proc[p] \in [parent : 0 .. MaxPid, state : {"NEW", "READY", "RUNNING", "ZOMBIE"},
                      code : Codes \cup {0}, thread : Threads \cup {Nil}]
    /\ current_process \in 0 .. MaxPid /\ next_pid \in 2 .. MaxPid + 1

\* current_process is never a freed process: it is on the list, or null when the
\* list is empty, even after a process reaps itself or the last one goes
\* (process_destroy, process_create).
CurrentListed ==
    /\ ProcTypeOK
    /\ IF process_list = << >> THEN current_process = 0 ELSE current_process \in Listed_pids

\* A process that was created is on the list exactly once until a wait has
\* reported it, and never comes back after that; the list is ordered newest
\* first (process_create, process_destroy, wait_for_pid).
NoProcessLost ==
    /\ \A p \in 1 .. next_pid - 1 : (p \in Listed_pids) # (p \in DOMAIN reaped)
    /\ \A i, j \in DOMAIN process_list : i < j => process_list[i] > process_list[j]

\* No two processes share a main thread, although freed structures are reused
\* and their addresses may still be on the run queue.
ThreadsOwned ==
    \A p, q \in Listed_pids :
        proc[p].thread # Nil => /\ proc[p].thread \in allocated
                                /\ p # q => proc[p].thread # proc[q].thread

\* The main thread of a process that has exited is never runnable again, so the
\* search can not pick it (process_exit, exec_image).
ZombiesStopped ==
    \A p \in Listed_pids : proc[p].state = "ZOMBIE" /\ proc[p].thread # Nil
        => state[proc[p].thread] = "EXITED"

\* The list, the process that runs and the main threads stay consistent under any
\* order of fork, exec, exit and wait.
ProcessesSound == CurrentListed /\ NoProcessLost /\ ThreadsOwned /\ ZombiesStopped

\* A process is taken off the list only as a zombie, and the waiter is told the
\* code of its last exit (wait_for_pid reads the fields before destroying it).
ReportsExit ==
    [][\A p \in Listed_pids \ Listed_pids' :
          proc[p].state = "ZOMBIE" /\ reaped'[p] = proc[p].code]_allVars

-----------------------------------------------------------------------------
(* What docs/syscall_table.md says of sys_exit, and the code does not do.  *)

\* "terminate process": the process whose calls are served has not exited.
ExitTerminates == current_process # 0 => proc[current_process].state # "ZOMBIE"
==============================================================================
