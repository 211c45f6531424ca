------------------------------ MODULE Interrupts ------------------------------
(* What breaks into a running thread: interrupts, the mouse's among them,    *)
(* and signals.                                                              *)
EXTENDS Integers, FiniteSets, Sequences

-------------------------------------------------------------------------------
(***************************************************************************)
(* Hardware interrupts: the two cascaded interrupt controllers (pic.c),    *)
(* the table of handlers (irq.c), the timer (timer.c) and the processor,   *)
(* which takes an interrupt only while its interrupt flag is set.  The     *)
(* flag is set in the kernel's monitor loop and clear in system calls      *)
(* (syscall.c masks it) and in handlers (every gate is an interrupt gate). *)
(*                                                                         *)
(* A dispatch, from the acknowledge to the end-of-interrupt command, runs  *)
(* with the flag clear and is one step.                                    *)
(***************************************************************************)

CONSTANTS
    Lines,         \* interrupt lines that devices use, 0 .. 15
    Registrable,   \* the lines drivers register handlers for
    Hz,            \* timer frequency set by timer_init
    Sleeps,        \* milliseconds kernel code passes to timer_sleep_ms
    Naps,          \* milliseconds in the requests of sys_nanosleep
    MaxTicks       \* bound on the ticks of a behaviour

ASSUME InterruptConstants ==
    /\ Lines \subseteq 0 .. 15 /\ Registrable \subseteq Lines
    /\ Hz \in Nat \ {0} /\ MaxTicks \in Nat
    /\ Sleeps \subseteq Nat /\ Naps \subseteq Nat

VARIABLES
    masked,     \* lines masked in their controller
    irr,        \* lines with a latched request
    isr,        \* lines in service: acknowledged, not ended
    slots,      \* lines whose irq_slots entry holds a handler
    cpu,        \* "kernel" (interrupt flag set) or "syscall" (clear)
    asleep,     \* in the hlt loop of timer_sleep_ms
    ticks,      \* the timer's tick count
    wake        \* uptime at which the current sleep ends

irqVars == <<masked, irr, isr, slots, cpu, asleep, ticks, wake>>

Cascade == 2     \* the master's input the slave is wired to
TimerLine == 0
MouseLine == 12

Slave(l) == l >= 8

\* irq_init: everything masked, no handlers; then interrupts go on.
IrqInit ==
    /\ masked = Lines \cup {Cascade}
    /\ irr = {} /\ isr = {} /\ slots = {}
    /\ cpu = "kernel" /\ asleep = FALSE /\ ticks = 0 /\ wake = 0

pic_mask_irq(l) == masked' = masked \cup {l}
pic_unmask_irq(l) == masked' = masked \ {l}

irq_register(l) ==
    /\ cpu = "kernel" /\ ~ asleep
    /\ slots' = slots \cup {l}
    /\ pic_unmask_irq(l)
    /\ UNCHANGED <<irr, isr, cpu, asleep, ticks, wake>>

\* Mutant of irq_unregister: the line stays open.
irq_unregister_unmasked(l) ==
    /\ cpu = "kernel" /\ ~ asleep
    /\ slots' = slots \ {l}
    /\ UNCHANGED <<masked, irr, isr, cpu, asleep, ticks, wake>>

irq_unregister(l) ==
    /\ cpu = "kernel" /\ ~ asleep
    /\ pic_mask_irq(l)
    /\ slots' = slots \ {l}
    /\ UNCHANGED <<irr, isr, cpu, asleep, ticks, wake>>

\* The controllers (hardware).  A slave line reaches the processor through the
\* master's cascade input, so with that input's place in the order.
Rank(l) == IF Slave(l) THEN Cascade ELSE l

Requests == {l \in irr : l \notin masked /\ (Slave(l) => Cascade \notin masked)}

Deliverable(l) ==
    /\ l \in Requests
    /\ \A k \in isr : Rank(l) < Rank(k)
    /\ \A k \in Requests : Rank(l) < Rank(k) \/ (Rank(l) = Rank(k) /\ l <= k)

\* A device raises its line; a request already latched is not counted twice.
Raise(l) ==
    /\ l = TimerLine => ticks < MaxTicks
    /\ irr' = irr \cup {l}
    /\ UNCHANGED <<masked, isr, slots, cpu, asleep, ticks, wake>>

\* Mutants of Ended: the slave's own command, or the master's, is left out.
Ended_master_only(l, service) == service \ (IF Slave(l) THEN {Cascade} ELSE {l})
Ended_slave_only(l, service) == IF Slave(l) THEN service \ {l, Cascade} ELSE service

\* pic_send_eoi: an end-of-interrupt command ends the service with the highest
\* priority in the controller it is sent to.
Ended(l, service) ==
    LET first(s) == {k \in s : \A j \in s : k <= j}
        slaves == {k \in service : Slave(k)}
        masters == service \ slaves
    IN  service \ (first(masters) \cup (IF Slave(l) THEN first(slaves) ELSE {}))

timer_uptime_ms == (ticks * 1000) \div Hz

\* irq_dispatch: acknowledge, run the handler if there is one, end.
irq_dispatch(l) ==
    /\ cpu = "kernel"
    /\ Deliverable(l)
    /\ irr' = irr \ {l}
    /\ isr' = Ended(l, isr \cup {l} \cup (IF Slave(l) THEN {Cascade} ELSE {}))
    /\ ticks' = IF l = TimerLine /\ l \in slots THEN ticks + 1 ELSE ticks
    /\ UNCHANGED <<masked, slots, cpu, asleep, wake>>

syscall_entry ==
    /\ cpu = "kernel" /\ ~ asleep
    /\ cpu' = "syscall"
    /\ UNCHANGED <<masked, irr, isr, slots, asleep, ticks, wake>>

sysret ==
    /\ cpu = "syscall" /\ ~ asleep
    /\ cpu' = "kernel"
    /\ UNCHANGED <<masked, irr, isr, slots, asleep, ticks, wake>>

\* The loop halts until an interrupt and looks at the uptime again.  A deadline
\* after the last tick of the behaviour is left out.
timer_sleep_ms(ms) ==
    /\ ~ asleep /\ timer_uptime_ms + ms <= (MaxTicks * 1000) \div Hz
    /\ wake' = timer_uptime_ms + ms
    /\ asleep' = (timer_uptime_ms < wake')
    /\ UNCHANGED <<masked, irr, isr, slots, cpu, ticks>>

sleep_over ==
    /\ asleep /\ timer_uptime_ms >= wake
    /\ asleep' = FALSE
    /\ UNCHANGED <<masked, irr, isr, slots, cpu, ticks, wake>>

IrqNext ==
    \/ \E l \in Registrable : irq_register(l) \/ irq_unregister(l)
    \/ \E l \in Lines : Raise(l) \/ irq_dispatch(l)
    \/ syscall_entry \/ sysret \/ sleep_over
    \/ \E ms \in Sleeps : cpu = "kernel" /\ timer_sleep_ms(ms)
    \/ \E ms \in Naps : cpu = "syscall" /\ timer_sleep_ms(ms)

\* The processor takes a pending interrupt at the next instruction after it
\* may, the timer keeps ticking, and code in a system call runs.
IrqFairness ==
    /\ \A l \in Lines : SF_irqVars(irq_dispatch(l))
    /\ WF_irqVars(Raise(TimerLine))
    /\ WF_irqVars(sysret) /\ WF_irqVars(sleep_over)

IrqSpec == IrqInit /\ [][IrqNext]_irqVars /\ IrqFairness

-----------------------------------------------------------------------------
\* Between dispatches no service is left open, exactly the lines with a handler
\* are unmasked, and a request can only be delivered to a handler
\* (irq_register, irq_unregister, pic_send_eoi).
PicSound ==
    /\ irr \subseteq Lines /\ ticks \in 0 .. MaxTicks + 1
    /\ isr = {}
    /\ \A l \in Lines : l \in slots <=> l \notin masked
    /\ Requests \subseteq slots

\* A line whose handler stays registered and whose way to the processor stays
\* open is served: no missing end-of-interrupt command blocks it
\* (irq_dispatch, pic_send_eoi).
ServedEventually ==
    \A l \in Lines :
       LET open == l \in slots /\ (Slave(l) => Cascade \in slots) IN
       (l \in irr /\ open) ~> (l \notin irr \/ ~ open)

\* What driver_model.md says of line 12: with the mouse's handler registered
\* and kept, a byte from the mouse reaches it.
MouseServed ==
    []<>(MouseLine \notin slots \/ MouseLine \notin irr)

\* A sleep begun while interrupts are on ends, as long as the timer has its
\* handler (timer_sleep_ms, timer_irq).
KernelSleepEnds == (asleep /\ cpu = "kernel" /\ TimerLine \in slots) ~> ~ asleep

\* Requests reach their handlers, and the timer's end the sleeps.
InterruptsServed == ServedEventually /\ KernelSleepEnds

\* What syscall_table.md says of sys_nanosleep: it sleeps, so with a running
\* timer it returns.
NanosleepEnds == (asleep /\ cpu = "syscall" /\ TimerLine \in slots) ~> ~ asleep

-------------------------------------------------------------------------------
(***************************************************************************)
(* The signals of one process (ipc/signal.c, sys_kill): pending and        *)
(* blocked sets, handlers, and the dispatch loop.  A handler runs inside   *)
(* the loop and may itself send, block and unblock signals.                *)
(***************************************************************************)

CONSTANTS
    Sent,         \* the numbers callers pass, valid or not
    SIGKILL, SIGSTOP, SIG_MAX,
    MaxSends      \* bound on the signals sent in a behaviour

ASSUME SignalConstants ==
    /\ SIG_MAX \in Nat /\ Sent \subseteq Int
    /\ SIGKILL \in 1 .. SIG_MAX - 1 /\ SIGSTOP \in 1 .. SIG_MAX - 1
    /\ MaxSends \in Nat

VARIABLES
    pending, blocked,   \* the masks, as sets of signals
    handlers,           \* signals with a handler
    dispatching,        \* in the loop of signal_dispatch
    running,            \* the signal whose handler runs, or 0
    owed,               \* history: sends not yet answered by a delivery
    sends               \* history: number of sends

signalVars == <<pending, blocked, handlers, dispatching, running, owed, sends>>

valid_signal(s) == s > 0 /\ s < SIG_MAX

\* signal_state_init.
SignalInit ==
    /\ pending = {} /\ blocked = {} /\ handlers = {}
    /\ dispatching = FALSE /\ running = 0
    /\ owed = {} /\ sends = 0

\* By another process (sys_kill) or by a running handler.
signal_send(s) ==
    /\ valid_signal(s) /\ sends < MaxSends
    /\ pending' = pending \cup {s}
    /\ owed' = owed \cup {s} /\ sends' = sends + 1
    /\ UNCHANGED <<blocked, handlers, dispatching, running>>

\* Mutant of signal_block: SIGSTOP can be blocked.
signal_block_stop(s) ==
    /\ valid_signal(s) /\ s # SIGKILL
    /\ blocked' = blocked \cup {s}
    /\ UNCHANGED <<pending, handlers, dispatching, running, owed, sends>>

signal_block(s) ==
    /\ valid_signal(s) /\ s # SIGKILL /\ s # SIGSTOP
    /\ blocked' = blocked \cup {s}
    /\ UNCHANGED <<pending, handlers, dispatching, running, owed, sends>>

signal_unblock(s) ==
    /\ valid_signal(s)
    /\ blocked' = blocked \ {s}
    /\ UNCHANGED <<pending, handlers, dispatching, running, owed, sends>>

signal_set_handler(s, set) ==
    /\ valid_signal(s)
    /\ handlers' = IF set THEN handlers \cup {s} ELSE handlers \ {s}
    /\ UNCHANGED <<pending, blocked, dispatching, running, owed, sends>>

deliverable == pending \ blocked

\* Mutant of Cleared: delivering a signal clears the whole mask.
Cleared_all(s) == {}

\* Mutant of Cleared: the bit is left set.
Cleared_none(s) == pending

\* The pending mask after signal_next returned s.
Cleared(s) == pending \ {s}

Lowest == CHOOSE s \in deliverable : \A t \in deliverable : s <= t

signal_dispatch ==
    /\ ~ dispatching
    /\ dispatching' = TRUE
    /\ UNCHANGED <<pending, blocked, handlers, running, owed, sends>>

\* One turn of the loop: signal_next, then the handler if there is one.
dispatch_next ==
    /\ dispatching /\ running = 0
    /\ IF deliverable = {}
       THEN dispatching' = FALSE /\ UNCHANGED <<pending, running, owed>>
       ELSE /\ pending' = Cleared(Lowest)
            /\ running' = IF Lowest \in handlers THEN Lowest ELSE 0
            /\ owed' = owed \ {Lowest}
            /\ UNCHANGED dispatching
    /\ UNCHANGED <<blocked, handlers, sends>>

handler_return ==
    /\ running # 0
    /\ running' = 0
    /\ UNCHANGED <<pending, blocked, handlers, dispatching, owed, sends>>

SignalNext ==
    \/ \E s \in Sent :
          signal_send(s) \/ signal_block(s) \/ signal_unblock(s) \/ signal_set_handler(s, TRUE)
             \/ signal_set_handler(s, FALSE)
    \/ signal_dispatch \/ dispatch_next \/ handler_return

\* The loop runs; handlers return.
SignalFairness == WF_signalVars(dispatch_next) /\ WF_signalVars(handler_return)

SignalSpec == SignalInit /\ [][SignalNext]_signalVars /\ SignalFairness

-----------------------------------------------------------------------------
\* A signal that was sent is pending until it is delivered: neither a delivery
\* of another signal, nor a handler that sends, blocks or unblocks inside the
\* loop loses it (signal_send, signal_next, signal_dispatch).
NeverLost == pending = owed /\ pending \subseteq 1 .. SIG_MAX - 1

\* SIGKILL and SIGSTOP get through: after the loop has ended neither is pending,
\* whatever handlers and other callers blocked before (signal_block,
\* signal_dispatch).
KillGetsThrough ==
    [][dispatching /\ ~ dispatching' => {SIGKILL, SIGSTOP} \cap pending = {}]_signalVars

\* The loop ends, also when handlers send signals, as long as they do not send
\* for ever (signal_dispatch).
DispatchEnds == dispatching ~> ~ dispatching

\* The loop ends, and with nothing owed that can not be blocked.
SignalsDelivered == KillGetsThrough /\ DispatchEnds

-------------------------------------------------------------------------------
(***************************************************************************)
(* The mouse driver's packet assembly (kernel/drivers/mouse.c).  The mouse *)
(* sends three bytes per movement; an interrupt delivers one byte, and a   *)
(* byte is lost when its interrupt comes too late.  The driver finds its   *)
(* place again by bit 3, which is set in every first byte and, depending   *)
(* on the movement, in others.                                             *)
(***************************************************************************)

CONSTANTS
    Movements,     \* packets the mouse sends: <<first, dx, dy>>
    MaxPackets,
    MaxLost        \* bound on lost bytes

ASSUME MouseConstants ==
    /\ MaxPackets \in Nat /\ MaxLost \in Nat
    /\ \A m \in Movements : Len(m) = 3 /\ m[1].bit3

VARIABLES
    wire,          \* bytes of the packet being sent, not yet taken
    packet, packet_index,
    reported,      \* events given to the handler, with the index of the packet of each byte
    sent,          \* the movements so far
    lost,          \* number of lost bytes
    lost_in        \* history: the last packet that lost a byte

mouseVars == <<wire, packet, packet_index, reported, sent, lost, lost_in>>

MouseInit ==
    /\ wire = << >> /\ packet = << >> /\ packet_index = 0
    /\ reported = << >> /\ sent = << >> /\ lost = 0 /\ lost_in = 0

\* The hardware (external): a movement puts three bytes on the wire.
Moves(m) ==
    /\ wire = << >> /\ Len(sent) < MaxPackets
    /\ sent' = Append(sent, m)
    /\ wire' = [i \in 1 .. 3 |-> [byte |-> m[i], of |-> Len(sent) + 1, pos |-> i]]
    /\ UNCHANGED <<packet, packet_index, reported, lost, lost_in>>

Loses ==
    /\ wire # << >> /\ lost < MaxLost
    /\ wire' = Tail(wire) /\ lost' = lost + 1 /\ lost_in' = Len(sent)
    /\ UNCHANGED <<packet, packet_index, reported, sent>>

\* Mutant of mouse_irq: a first byte is not examined.
mouse_irq_trusting ==
    /\ wire # << >>
    /\ wire' = Tail(wire)
    /\ LET p == Append(packet, Head(wire))
       IN  IF packet_index < 2
           THEN packet' = p /\ packet_index' = packet_index + 1 /\ UNCHANGED reported
           ELSE packet' = << >> /\ packet_index' = 0 /\ reported' = Append(reported, p)
    /\ UNCHANGED <<sent, lost, lost_in>>

\* A byte without bit 3 cannot begin a packet and is dropped; the third byte
\* completes the packet and calls the handler.
mouse_irq ==
    /\ wire # << >>
    /\ wire' = Tail(wire)
    /\ LET value == Head(wire)
           p == Append(packet, value)
       IN  IF packet_index = 0 /\ ~value.byte.bit3
           THEN UNCHANGED <<packet, packet_index, reported>>
           ELSE IF packet_index < 2
           THEN packet' = p /\ packet_index' = packet_index + 1 /\ UNCHANGED reported
           ELSE packet' = << >> /\ packet_index' = 0 /\ reported' = Append(reported, p)
    /\ UNCHANGED <<sent, lost, lost_in>>

Still == wire = << >> /\ UNCHANGED mouseVars

MouseNext == (\E m \in Movements : Moves(m)) \/ Loses \/ mouse_irq \/ Still

\* The event is packet p, byte for byte.
Exact(e, p) == \A i \in 1 .. 3 : e[i].of = p /\ e[i].pos = i
Finished == Len(sent) - (IF wire = << >> THEN 0 ELSE 1)
Plain(m) == ~m[2].bit3 /\ ~m[3].bit3

\* Without losses every packet is reported once and in order.  After a loss one
\* whole packet whose movement has bit 3 clear brings the driver back in step:
\* every later packet is reported byte for byte (mouse_irq).
MouseRecovers ==
    /\ lost = 0 => /\ Len(reported) = Finished
                   /\ \A i \in DOMAIN reported : Exact(reported[i], i)
    /\ \A p \in lost_in + 2 .. Finished :
          (\E q \in lost_in + 1 .. p - 1 : Plain(sent[q])) => \E i \in DOMAIN reported : Exact(reported[i], p)
===============================================================================
