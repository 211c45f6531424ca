------------------------------ MODULE MCStreams ------------------------------
(* What passes bytes and messages from one side to the other: the message     *)
(* queue, the pipe, the ring buffer, the counting semaphore, console input,   *)
(* the kernel log and the network stack.  They share no state, so a behaviour *)
(* exercises one of them and leaves the others where they started.            *)
(*                                                                            *)
(* Queue: one slot, so that head = tail in every state, and three slots, set  *)
(* up again and again.  Pipe and ring: one byte, and three so that operations *)
(* of up to four bytes wrap and are cut short.  Semaphore: three threads, and *)
(* limits and initial counts on both sides of what semaphore_init clamps.     *)
(* Console and log: rings of three bytes, with the keyboard handler running   *)
(* between the steps of kernel code.  Network: three hosts and three ports    *)
(* for tables of two.                                                         *)
EXTENDS Ipc, ByteBuffers, Console, Network, TLC

CONSTANTS a, b, zero, b1, b2, junk, t1, t2, t3, h1, h2, h3, m1, m2, f1, f2

VARIABLE component

MCPayloads == {a, b}
MCBytes == {b1, b2}
MCThreads == {t1, t2, t3}
MCInitials == -1 .. 3
MCLimits == -1 .. 2
MCHosts == {h1, h2, h3}
MCMacs == {m1, m2}
MCHandlers == {f1, f2}
MCSymmetry == Permutations(MCThreads)

Init ==
    /\ QueueInit /\ PipeInit /\ RingInit /\ SemaphoreInit /\ ConsoleInit /\ KlogInit /\ NetInit
    /\ \/ component = "semaphore"
       \/ /\ component \in {"queue", "pipe", "ring", "console", "klog", "link", "ports", "sockets"}
          /\ sem_count = 1 /\ sem_limit = 1

Next ==
    /\ \/ /\ component = "queue" /\ QueueNext
          /\ UNCHANGED <<pipeVars, ringVars, semVars, consoleVars, klogVars, netVars>>
       \/ /\ component = "pipe" /\ PipeNext
          /\ UNCHANGED <<queueVars, ringVars, semVars, consoleVars, klogVars, netVars>>
       \/ /\ component = "ring" /\ RingNext
          /\ UNCHANGED <<queueVars, pipeVars, semVars, consoleVars, klogVars, netVars>>
       \/ /\ component = "semaphore" /\ SemaphoreNext
          /\ UNCHANGED <<queueVars, pipeVars, ringVars, consoleVars, klogVars, netVars>>
       \/ /\ component = "console" /\ ConsoleNext
          /\ UNCHANGED <<queueVars, pipeVars, ringVars, semVars, klogVars, netVars>>
       \/ /\ component = "klog" /\ KlogNext
          /\ UNCHANGED <<queueVars, pipeVars, ringVars, semVars, consoleVars, netVars>>
       \/ /\ \/ component = "link" /\ LinkNext
             \/ component = "ports" /\ PortNext
             \/ component = "sockets" /\ SocketNext
          /\ UNCHANGED <<queueVars, pipeVars, ringVars, semVars, consoleVars, klogVars>>
    /\ UNCHANGED component

Spec ==
    Init /\ [][Next]_<<queueVars, pipeVars, ringVars, semVars, consoleVars, klogVars, netVars, component>>

\* The stack's tables and frames, and the helpers net_checksum and
\* dns_build_query, whose arguments range over all short inputs.
StackExact ==
    /\ NetworkExact
    /\ component = "sockets" /\ (\A fd \in Fds : ~sockets[fd].open) => ChecksumSwapped /\ QueryFits
==============================================================================
