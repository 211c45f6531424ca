------------------------------ MODULE MCControl ------------------------------
(* Who runs next in the kernel: the scheduler, the interrupt path with the    *)
(* timer and its sleepers, the signal dispatch loop, the mouse driver and the *)
(* locks that threads may share.                                              *)
(* They share no state, so a behaviour exercises one of them and leaves the   *)
(* others where they started.                                                 *)
(*                                                                            *)
(* Scheduler: three threads and a client that keeps the contract.             *)
(* Interrupts: the timer, the cascade and two lines of the second controller. *)
(* Signals: a smaller range of the same shape, with two ordinary signals,     *)
(* SIGKILL (2), SIGSTOP (3) and the invalid numbers on both sides.            *)
(* Mouse: movements with bit 3 clear and set in either data byte.             *)
(* Locks: two threads and two calls that lock.                                *)
EXTENDS Scheduler, Interrupts, Locks

CONSTANTS t1, t2, t3,
    Components  \* the components a run exercises

VARIABLE component

MCThreads == {t1, t2, t3}
MCOneThread == {t1}
MCLockThreads == {t1, t2}

Byte(bit3) == [bit3 |-> bit3]
MCMovements == {<<Byte(TRUE), Byte(x), Byte(y)>> : x \in BOOLEAN, y \in BOOLEAN}
MCNoMovements == {}

Init ==
    /\ component \in Components
    /\ SchedInit /\ IrqInit /\ SignalInit /\ MouseInit /\ LocksInit

Next ==
    /\ \/ component = "scheduler" /\ ClientNext /\ UNCHANGED <<irqVars, signalVars, mouseVars, lockVars>>
       \/ component = "interrupts" /\ IrqNext /\ UNCHANGED <<schedVars, signalVars, mouseVars, lockVars>>
       \/ component = "signals" /\ SignalNext /\ UNCHANGED <<schedVars, irqVars, mouseVars, lockVars>>
       \/ component = "mouse" /\ MouseNext /\ UNCHANGED <<schedVars, irqVars, signalVars, lockVars>>
       \/ component = "locks" /\ LocksNext /\ UNCHANGED <<schedVars, irqVars, signalVars, mouseVars>>
    /\ UNCHANGED component

\* The fairness of FairClientSpec, IrqSpec and SignalSpec, each for the
\* behaviours its component takes part in; and a thread inside a lock call goes on,
\* since the calls spin and never sleep.
Spec ==
    /\ Init /\ [][Next]_<<schedVars, irqVars, signalVars, mouseVars, lockVars, component>>
    /\ WF_schedVars(component = "scheduler" /\ scheduler_yield)
    /\ \A l \in Lines : SF_irqVars(component = "interrupts" /\ irq_dispatch(l))
    /\ WF_irqVars(component = "interrupts" /\ Raise(TimerLine))
    /\ WF_irqVars(component = "interrupts" /\ sysret)
    /\ WF_irqVars(component = "interrupts" /\ sleep_over)
    /\ WF_signalVars(component = "signals" /\ dispatch_next)
    /\ WF_signalVars(component = "signals" /\ handler_return)
    /\ \A t \in LockThreads : WF_lockVars(component = "locks" /\ LockStep(t))

\* Every ready thread gets its turn, every raised line its handler, every pending
\* signal its delivery: the promises of scheduler_yield, irq_dispatch and
\* signal_dispatch, together.
ControlServes == TurnsComeRound /\ InterruptsServed /\ SignalsDelivered

\* No request is dropped on its way: an interrupt only goes to a line with a handler
\* and leaves nothing in service (irq_dispatch, pic_send_eoi), and a signal stays
\* pending until it is delivered (signal_send, signal_dispatch).  And at most one
\* thread is between spin_trylock and spin_unlock.
ControlSound == PicSound /\ NeverLost /\ SpinExcludes
==============================================================================
