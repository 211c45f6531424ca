----------------------------- MODULE ControlProofs -----------------------------
(***************************************************************************)
(* Proofs about who runs next: the scheduler, interrupts, signals, the     *)
(* mouse driver and the spin lock.  Each component's invariant is proved   *)
(* from its own steps; the last section carries the results over to the    *)
(* composition of MCControl, for every value of its constants.             *)
(***************************************************************************)
EXTENDS MCControl, SchedulerProofs

-----------------------------------------------------------------------------
(* Interrupts.                                                             *)

\* A request of the timer is latched only while a tick is left.
PicInv ==
    /\ irr \subseteq Lines /\ isr = {}
    /\ ticks \in 0 .. MaxTicks /\ (TimerLine \in irr => ticks < MaxTicks)
    /\ \A l \in Lines : l \in slots <=> l \notin masked

LEMMA PicInvImplies == PicInv => PicSound
<1> SUFFICES ASSUME PicInv PROVE PicSound
  OBVIOUS
<1>1. Requests \subseteq slots
  BY DEF PicInv, Requests
<1>2. ticks \in 0 .. MaxTicks + 1
  BY InterruptConstants DEF PicInv
<1> QED
  BY <1>1, <1>2 DEF PicInv, PicSound

LEMMA PicInitially == IrqInit => PicInv
  BY InterruptConstants DEF IrqInit, PicInv

\* The end-of-interrupt commands end what a dispatch put into service, and
\* nothing is left for a second one.
LEMMA EndedEndsAll ==
  ASSUME NEW l \in Lines
  PROVE  Ended(l, {l} \cup (IF Slave(l) THEN {Cascade} ELSE {})) = {}
<1>1. l \in 0 .. 15
  BY InterruptConstants
<1>2. CASE Slave(l)
  BY <1>1, <1>2 DEF Ended, Slave, Cascade
<1>3. CASE ~Slave(l)
  BY <1>1, <1>3, SMTT(60) DEF Ended, Slave, Cascade
<1> QED
  BY <1>2, <1>3

LEMMA PicStep == PicInv /\ [IrqNext]_irqVars => PicInv'
<1> SUFFICES ASSUME PicInv, [IrqNext]_irqVars PROVE PicInv'
  OBVIOUS
<1> USE InterruptConstants DEF PicInv
<1>1. ASSUME NEW l \in Registrable, irq_register(l) PROVE PicInv'
  BY <1>1 DEF irq_register, pic_unmask_irq
<1>2. ASSUME NEW l \in Registrable, irq_unregister(l) PROVE PicInv'
  BY <1>2 DEF irq_unregister, pic_mask_irq
<1>3. ASSUME NEW l \in Lines, Raise(l) PROVE PicInv'
  BY <1>3 DEF Raise
<1>4. ASSUME NEW l \in Lines, irq_dispatch(l) PROVE PicInv'
  <2>1. isr' = {}
    <3>1. isr \cup {l} \cup (IF Slave(l) THEN {Cascade} ELSE {})
             = {l} \cup (IF Slave(l) THEN {Cascade} ELSE {})
      OBVIOUS
    <3> QED
      BY <1>4, <3>1, EndedEndsAll DEF irq_dispatch
  <2>2. l \in irr
    BY <1>4 DEF irq_dispatch, Deliverable, Requests
  <2>3. ticks' \in 0 .. MaxTicks /\ (TimerLine \in irr' => ticks' < MaxTicks)
    BY <1>4, <2>2 DEF irq_dispatch
  <2> QED
    BY <1>4, <2>1, <2>3, SMTT(60) DEF irq_dispatch
<1>5. CASE syscall_entry \/ sysret \/ sleep_over \/ UNCHANGED irqVars
  BY <1>5, Zenon DEF syscall_entry, sysret, sleep_over, irqVars
<1>6. ASSUME NEW ms, timer_sleep_ms(ms) PROVE PicInv'
  BY <1>6 DEF timer_sleep_ms
<1> QED
  BY <1>1, <1>2, <1>3, <1>4, <1>5, <1>6, SMTT(60) DEF IrqNext

\* However lines are registered, raised, dispatched and unregistered, between
\* dispatches nothing is left in service, the open lines are those with a
\* handler, and a request goes only to a handler (irq.c, pic_send_eoi).
THEOREM InterruptSafety == IrqSpec => []PicSound
  BY PicInitially, PicStep, PicInvImplies, PTL DEF IrqSpec

-----------------------------------------------------------------------------
(* Signals.                                                                *)

SignalInv ==
    /\ NeverLost
    /\ {SIGKILL, SIGSTOP} \cap blocked = {}

LEMMA SignalInitially == SignalInit => SignalInv
  BY DEF SignalInit, SignalInv, NeverLost

LEMMA SignalStep == SignalInv /\ [SignalNext]_signalVars => SignalInv'
<1> SUFFICES ASSUME SignalInv, [SignalNext]_signalVars PROVE SignalInv'
  OBVIOUS
<1> USE SignalConstants DEF SignalInv, NeverLost
<1>1. ASSUME NEW s \in Sent, signal_send(s) PROVE SignalInv'
  BY <1>1 DEF signal_send, valid_signal
<1>2. ASSUME NEW s \in Sent, signal_block(s) PROVE SignalInv'
  BY <1>2 DEF signal_block
<1>3. ASSUME NEW s \in Sent, signal_unblock(s) PROVE SignalInv'
  BY <1>3 DEF signal_unblock
<1>4. ASSUME NEW s \in Sent, NEW set, signal_set_handler(s, set) PROVE SignalInv'
  BY <1>4 DEF signal_set_handler
<1>5. CASE dispatch_next
  BY <1>5, Zenon DEF dispatch_next, Cleared
<1>6. CASE signal_dispatch \/ handler_return \/ UNCHANGED signalVars
  BY <1>6, Zenon DEF signal_dispatch, handler_return, signalVars
<1> QED
  BY <1>1, <1>2, <1>3, <1>4, <1>5, <1>6, ZenonT(60) DEF SignalNext

\* The step that ends the dispatch loop finds neither SIGKILL nor SIGSTOP
\* pending.
LEMMA KillStep ==
  SignalInv /\ [SignalNext]_signalVars
     => [dispatching /\ ~dispatching' => {SIGKILL, SIGSTOP} \cap pending = {}]_signalVars
<1> SUFFICES ASSUME SignalInv, SignalNext, dispatching, ~dispatching'
             PROVE  {SIGKILL, SIGSTOP} \cap pending = {}
  OBVIOUS
<1>1. dispatch_next
  BY Zenon DEF SignalNext, signal_send, signal_block, signal_unblock, signal_set_handler,
         signal_dispatch, handler_return
<1>2. deliverable = {}
  BY <1>1, Zenon DEF dispatch_next
<1> QED
  BY <1>2 DEF SignalInv, deliverable

\* A signal that was sent stays pending until it is delivered, whatever handlers
\* do inside the loop (signal_send, signal_next, signal_dispatch).
THEOREM SignalsKept == SignalSpec => []NeverLost
<1>1. SignalInv => NeverLost
  BY DEF SignalInv
<1> QED
  BY <1>1, SignalInitially, SignalStep, PTL DEF SignalSpec

\* The dispatch loop never ends with SIGKILL or SIGSTOP pending, for every range
\* of signals (signal_block, signal_dispatch).
THEOREM KillIsDelivered == SignalSpec => KillGetsThrough
  BY SignalInitially, SignalStep, KillStep, PTL DEF SignalSpec, KillGetsThrough

-----------------------------------------------------------------------------
(* The mouse driver.  Its place in a packet is known (InStep) while no byte  *)
(* was lost, and again once a whole packet with bit 3 clear in its movement  *)
(* has gone by: such a packet cannot be taken for the beginning of another,  *)
(* so wherever the driver was when it began, it is at a beginning afterwards. *)

LEMMA TakeHead ==
  ASSUME NEW S, NEW s \in Seq(S), s # << >>
  PROVE  /\ Len(s) \in Nat \ {0} /\ Head(s) = s[1] /\ s[1] \in S
         /\ Tail(s) \in Seq(S) /\ Len(Tail(s)) = Len(s) - 1
         /\ \A i \in 1 .. Len(s) - 1 : Tail(s)[i] = s[i + 1]
OBVIOUS

LEMMA PutLast ==
  ASSUME NEW S, NEW s \in Seq(S), NEW e \in S
  PROVE  /\ Append(s, e) \in Seq(S) /\ Len(Append(s, e)) = Len(s) + 1 /\ Len(s) \in Nat
         /\ Append(s, e)[Len(s) + 1] = e
         /\ \A i \in 1 .. Len(s) : Append(s, e)[i] = s[i]
OBVIOUS

WireBytes == [byte : {m[i] : m \in Movements, i \in 1 .. 3}, of : Nat, pos : 1 .. 3]

\* Byte k of the last packet of s.
Sending(s, k) == [byte |-> s[Len(s)][k], of |-> Len(s), pos |-> k]

\* w is what is left of the last packet of s.
RestOf(s, w) == \A i \in 1 .. Len(w) : w[i] = Sending(s, 3 - Len(w) + i)

\* What the driver holds is what it took of the packet that is being sent.
InStep ==
    /\ wire = << >> => packet = << >>
    /\ wire # << >> =>
          /\ Len(packet) = 3 - Len(wire)
          /\ \A i \in 1 .. Len(packet) : packet[i].of = Len(sent) /\ packet[i].pos = i

\* Since the last loss a whole packet with bit 3 clear has been among the first n.
PlainSince(n) == \E q \in lost_in + 1 .. n : Plain(sent[q])

MouseTypeOK ==
    /\ sent \in Seq(Movements)
    /\ wire \in Seq(WireBytes) /\ packet \in Seq(WireBytes) /\ reported \in Seq(Seq(WireBytes))
    /\ packet_index = Len(packet) /\ packet_index \in 0 .. 2
    /\ Len(wire) \in 0 .. 3 /\ (wire # << >> => sent # << >>)
    /\ RestOf(sent, wire)
    /\ lost \in Nat /\ lost_in \in 0 .. Len(sent) /\ (lost = 0 => lost_in = 0)

MouseInv ==
    /\ MouseTypeOK
    /\ MouseRecovers
    /\ lost = 0 => InStep
    /\ PlainSince(Finished) => InStep
    /\ lost_in < Len(sent) /\ Len(wire) = 1 /\ Plain(sent[Len(sent)]) => Len(packet) \in {0, 2}

LEMMA MouseInitially == MouseInit => MouseInv
<1> SUFFICES ASSUME MouseInit PROVE MouseInv
  OBVIOUS
<1>1. MouseTypeOK
  BY DEF MouseInit, MouseTypeOK, RestOf
<1>2. Finished = 0
  BY DEF MouseInit, Finished
<1> QED
  <2>1. lost_in = 0 /\ reported = << >> /\ wire = << >> /\ packet = << >> /\ sent = << >>
    BY DEF MouseInit
  <2>2. MouseRecovers
    BY <1>2, <2>1 DEF MouseRecovers
  <2>3. InStep
    BY <2>1 DEF InStep
  <2> QED
    BY <1>1, <2>1, <2>2, <2>3, SMTT(60) DEF MouseInv

LEMMA MovesKeeps ==
  ASSUME MouseInv, NEW m \in Movements, Moves(m)
  PROVE  MouseInv'
<1> USE DEF MouseInv
<1>1. Len(sent') = Len(sent) + 1 /\ \A q \in 1 .. Len(sent) : sent'[q] = sent[q]
  BY DEF Moves, MouseTypeOK
<1>2. sent'[Len(sent')] = m /\ sent' \in Seq(Movements)
  BY DEF Moves, MouseTypeOK
<1>3. wire' \in Seq(WireBytes) /\ Len(wire') = 3
  BY SMTT(60) DEF Moves, MouseTypeOK, WireBytes
<1>4. ASSUME NEW i \in 1 .. Len(wire')
      PROVE  wire'[i] = Sending(sent', 3 - Len(wire') + i)
  <2>1. i \in 1 .. 3 /\ 3 - Len(wire') + i = i
    BY <1>3
  <2>2. wire'[i] = [byte |-> m[i], of |-> Len(sent) + 1, pos |-> i]
    BY <2>1, SMTT(60) DEF Moves
  <2> QED
    BY <2>1, <2>2, <1>1, <1>2, SMTT(60) DEF Sending
<1>5. MouseTypeOK'
  <2>1. Len(sent) \in Nat
    BY DEF MouseTypeOK
  <2>2. sent' # << >>
    BY <1>1, <2>1, SMTT(60)
  <2>3. RestOf(sent', wire')
    BY <1>4, SMTT(60) DEF RestOf
  <2> QED
    BY <1>1, <1>2, <1>3, <2>1, <2>2, <2>3, SMTT(60) DEF Moves, MouseTypeOK
<1>6. wire = << >> /\ wire' # << >> /\ Finished = Len(sent) /\ Finished' = Len(sent)
  BY <1>1, <1>3, SMTT(60) DEF Moves, MouseTypeOK, Finished
<1>7. MouseRecovers'
  <2>1. lost' = lost /\ lost_in' = lost_in /\ reported' = reported /\ lost_in \in Nat /\ Len(sent) \in Nat
    BY DEF Moves, MouseTypeOK
  <2>2. \A p \in lost_in + 2 .. Len(sent) : \A q \in lost_in + 1 .. p - 1 : sent'[q] = sent[q]
    BY <1>1, <2>1, SMTT(60)
  <2> QED
    BY <2>1, <2>2, <1>6, SMTT(60) DEF MouseRecovers
<1>8. InStep => InStep'
  BY <1>3, <1>6, SMTT(60) DEF Moves, MouseTypeOK, InStep
<1>9. PlainSince(Finished)' => PlainSince(Finished)
  BY <1>1, <1>6, SMTT(60) DEF Moves, MouseTypeOK, PlainSince, Plain
<1> QED
  BY <1>3, <1>5, <1>7, <1>8, <1>9, SMTT(60) DEF Moves

\* What a handler finds that takes the next byte off the wire.
LEMMA TakeByte ==
  ASSUME MouseTypeOK, wire # << >>
  PROVE  /\ Len(wire) \in 1 .. 3 /\ sent # << >> /\ Len(sent) \in Nat \ {0}
         /\ sent[Len(sent)] \in Movements
         /\ Head(wire) = Sending(sent, 4 - Len(wire)) /\ Head(wire) \in WireBytes
         /\ Tail(wire) \in Seq(WireBytes) /\ Len(Tail(wire)) = Len(wire) - 1
         /\ RestOf(sent, Tail(wire))
<1>1. wire \in Seq(WireBytes) /\ sent \in Seq(Movements) /\ sent # << >>
  BY DEF MouseTypeOK
<1>2. Len(wire) \in 1 .. 3
  BY <1>1, TakeHead, SMTT(60) DEF MouseTypeOK
<1>3. Len(sent) \in Nat \ {0} /\ sent[Len(sent)] \in Movements
  BY <1>1, TakeHead, SMTT(60)
<1>4. /\ Head(wire) = wire[1] /\ Head(wire) \in WireBytes
      /\ Tail(wire) \in Seq(WireBytes) /\ Len(Tail(wire)) = Len(wire) - 1
      /\ \A i \in 1 .. Len(wire) - 1 : Tail(wire)[i] = wire[i + 1]
  BY <1>1, TakeHead
<1>5. \A i \in 1 .. Len(wire) : wire[i] = Sending(sent, 3 - Len(wire) + i)
  BY DEF MouseTypeOK, RestOf
<1>6. Head(wire) = Sending(sent, 4 - Len(wire))
  <2>1. wire[1] = Sending(sent, 3 - Len(wire) + 1)
    BY <1>2, <1>5
  <2>2. 3 - Len(wire) + 1 = 4 - Len(wire)
    BY <1>2
  <2> QED
    BY <1>4, <2>1, <2>2, SMTT(60)
<1>7. RestOf(sent, Tail(wire))
  <2> SUFFICES ASSUME NEW i \in 1 .. Len(Tail(wire))
               PROVE  Tail(wire)[i] = Sending(sent, 3 - Len(Tail(wire)) + i)
    BY DEF RestOf
  <2>1. i + 1 \in 1 .. Len(wire) /\ i \in 1 .. Len(wire) - 1
        /\ 3 - Len(wire) + (i + 1) = 3 - Len(Tail(wire)) + i
    BY <1>2, <1>4
  <2> QED
    BY <1>4, <1>5, <2>1, SMTT(60)
<1> QED
  BY <1>1, <1>2, <1>3, <1>4, <1>6, <1>7, SMTT(60)

LEMMA LosesKeeps ==
  ASSUME MouseInv, Loses
  PROVE  MouseInv'
<1>1. MouseTypeOK /\ wire # << >>
  BY DEF MouseInv, Loses
<1>2. /\ Len(wire) \in 1 .. 3 /\ sent # << >> /\ Len(sent) \in Nat
      /\ Len(wire') = Len(wire) - 1 /\ wire' \in Seq(WireBytes)
  BY <1>1, TakeByte, SMTT(60) DEF Loses
<1>3. RestOf(sent', wire')
  BY <1>1, TakeByte, SMTT(60) DEF Loses
<1>4. lost' \in Nat /\ lost' # 0 /\ lost_in' = Len(sent)
  BY <1>1 DEF Loses, MouseTypeOK
<1>5. UNCHANGED <<packet, packet_index, reported, sent>>
  BY DEF Loses
<1>6. MouseTypeOK'
  <2>1. /\ sent' \in Seq(Movements)
        /\ packet' \in Seq(WireBytes) /\ reported' \in Seq(Seq(WireBytes))
        /\ packet_index' = Len(packet') /\ packet_index' \in 0 .. 2
    BY ONLY <1>1, <1>5 DEF MouseTypeOK
  <2>2. wire' \in Seq(WireBytes) /\ Len(wire') \in 0 .. 3 /\ sent' # << >>
    BY ONLY <1>2, <1>5
  <2>3. lost' \in Nat /\ lost' # 0 /\ lost_in' \in 0 .. Len(sent')
    BY ONLY <1>2, <1>4, <1>5, SMTT(60)
  <2> QED
    BY ONLY <1>3, <2>1, <2>2, <2>3, SMTT(60) DEF MouseTypeOK
<1>7. Finished' <= Len(sent) /\ Finished' \in Int
  BY <1>2, <1>5, SMTT(60) DEF Finished
<1>8. MouseRecovers'
  <2>1. (lost_in + 2 .. Finished)' = {}
    BY ONLY <1>2, <1>4, <1>7, SMTT(60)
  <2> QED
    BY ONLY <1>4, <2>1, SMTT(60) DEF MouseRecovers
<1>9. ~ PlainSince(Finished)'
  BY ONLY <1>2, <1>4, <1>7, SMTT(60) DEF PlainSince
<1> QED
  BY ONLY <1>2, <1>4, <1>5, <1>6, <1>8, <1>9, SMTT(60) DEF MouseInv

\* A driver that is in step takes the byte in step, and the third byte makes it
\* report the packet that is being sent.
LEMMA InStepTakes ==
  ASSUME MouseTypeOK, InStep, mouse_irq
  PROVE  /\ InStep'
         /\ Len(wire) > 1 => reported' = reported
         /\ Len(wire) = 1 => /\ reported' = Append(reported, Append(packet, Head(wire)))
                             /\ Exact(Append(packet, Head(wire)), Len(sent))
<1> DEFINE v == Head(wire)
<1>1. wire # << >> /\ wire' = Tail(wire) /\ sent' = sent
  BY DEF mouse_irq
<1>2. /\ Len(wire) \in 1 .. 3 /\ v = Sending(sent, 4 - Len(wire)) /\ v \in WireBytes
      /\ wire' \in Seq(WireBytes) /\ Len(wire') = Len(wire) - 1
      /\ sent[Len(sent)] \in Movements
  BY <1>1, TakeByte, SMTT(60)
<1>3. /\ packet \in Seq(WireBytes) /\ packet_index = 3 - Len(wire) /\ Len(packet) = 3 - Len(wire)
      /\ \A i \in 1 .. Len(packet) : packet[i].of = Len(sent) /\ packet[i].pos = i
  BY <1>1, SMTT(60) DEF InStep, MouseTypeOK
<1>4. v.of = Len(sent) /\ v.pos = 4 - Len(wire) /\ v.byte = sent[Len(sent)][4 - Len(wire)]
  BY <1>2, SMTT(60) DEF Sending
<1>5. packet_index = 0 => v.byte.bit3
  <2> SUFFICES ASSUME packet_index = 0 PROVE v.byte.bit3
    OBVIOUS
  <2>1. 4 - Len(wire) = 1
    <3>1. Len(wire) \in 1 .. 3
      BY ONLY <1>2, SMTT(60)
    <3>2. 3 - Len(wire) = 0
      BY ONLY packet_index = 0, <1>3, SMTT(60)
    <3>3. Len(wire) = 3
      BY ONLY <3>1, <3>2, SMTT(60)
    <3> QED
      BY ONLY <3>3
  <2>2. v.byte = sent[Len(sent)][1]
    BY ONLY <1>4, <2>1, SMTT(60)
  <2> QED
    BY ONLY <1>2, <2>2, MouseConstants, SMTT(60)
<1>6. /\ Append(packet, v) \in Seq(WireBytes) /\ Len(Append(packet, v)) = 4 - Len(wire)
      /\ \A i \in 1 .. 4 - Len(wire) : Append(packet, v)[i].of = Len(sent) /\ Append(packet, v)[i].pos = i
  <2>1. /\ Append(packet, v) \in Seq(WireBytes) /\ Len(Append(packet, v)) = 4 - Len(wire)
        /\ Append(packet, v)[4 - Len(wire)] = v
        /\ \A i \in 1 .. 3 - Len(wire) : Append(packet, v)[i] = packet[i]
    BY <1>2, <1>3, SMTT(60)
  <2>2. \A i \in 1 .. 4 - Len(wire) : i = 4 - Len(wire) \/ i \in 1 .. 3 - Len(wire)
    BY <1>2, SMTT(60)
  <2> QED
    BY <1>3, <1>4, <2>1, <2>2, SMTT(60)
<1>7. CASE Len(wire) > 1
  <2>1. packet' = Append(packet, v) /\ reported' = reported
    BY <1>2, <1>3, <1>5, <1>7, SMTT(60) DEF mouse_irq
  <2>2. wire' # << >>
    BY <1>2, <1>7, SMTT(60)
  <2>3. 3 - Len(wire') = 4 - Len(wire)
    BY <1>2, SMTT(60)
  <2> QED
    BY <1>1, <1>2, <1>6, <1>7, <2>1, <2>2, <2>3, SMTT(90) DEF InStep
<1>8. CASE Len(wire) = 1
  <2>1. packet' = << >> /\ reported' = Append(reported, Append(packet, v))
    BY <1>2, <1>3, <1>8, SMTT(60) DEF mouse_irq
  <2>2. wire' = << >>
    BY <1>2, <1>8, SMTT(60)
  <2>3. Exact(Append(packet, v), Len(sent))
    BY <1>6, <1>8, SMTT(60) DEF Exact
  <2> QED
    BY <1>8, <2>1, <2>2, <2>3, SMTT(60) DEF InStep
<1> QED
  BY <1>2, <1>7, <1>8, SMTT(60)

\* What every interrupt keeps, in step or not.
LEMMA MouseIrqTypes ==
  ASSUME MouseTypeOK, mouse_irq
  PROVE  /\ MouseTypeOK'
         /\ reported' = reported \/ \E e \in Seq(WireBytes) : reported' = Append(reported, e)
<1> DEFINE v == Head(wire)
           p == Append(packet, v)
<1>1. wire # << >> /\ wire' = Tail(wire) /\ UNCHANGED <<sent, lost, lost_in>>
  BY DEF mouse_irq
<1>2. /\ v \in WireBytes /\ Len(wire) \in 1 .. 3 /\ sent # << >>
      /\ wire' \in Seq(WireBytes) /\ Len(wire') = Len(wire) - 1 /\ RestOf(sent', wire')
  BY <1>1, TakeByte, SMTT(60)
<1>3. packet \in Seq(WireBytes) /\ reported \in Seq(Seq(WireBytes)) /\ packet_index = Len(packet)
      /\ packet_index \in 0 .. 2
  BY SMTT(60) DEF MouseTypeOK
<1>4. p \in Seq(WireBytes) /\ Len(p) = packet_index + 1
  BY <1>2, <1>3
<1>5. /\ packet' \in Seq(WireBytes) /\ packet_index' = Len(packet') /\ packet_index' \in 0 .. 2
      /\ reported' = reported \/ reported' = Append(reported, p)
  <2>1. CASE packet_index = 0 /\ ~v.byte.bit3
    BY <1>3, <2>1, ZenonT(60) DEF mouse_irq
  <2>2. CASE ~(packet_index = 0 /\ ~v.byte.bit3) /\ packet_index < 2
    <3>1. packet' = p /\ packet_index' = packet_index + 1 /\ reported' = reported
      BY <2>2, SMTT(60) DEF mouse_irq
    <3> HIDE DEF p
    <3> QED
      BY <1>3, <1>4, <2>2, <3>1, SMTT(60)
  <2>3. CASE ~(packet_index = 0 /\ ~v.byte.bit3) /\ ~(packet_index < 2)
    <3>1. packet' = << >> /\ packet_index' = 0 /\ reported' = Append(reported, p)
      BY <2>3 DEF mouse_irq
    <3> QED
      BY <3>1, SMTT(60)
  <2> QED
    BY <2>1, <2>2, <2>3, SMTT(60)
<1> HIDE DEF p
<1>6. reported' \in Seq(Seq(WireBytes))
  <2>1. Append(reported, p) \in Seq(Seq(WireBytes))
    BY ONLY <1>3, <1>4, PutLast, SMTT(60)
  <2> QED
    BY ONLY <1>3, <1>5, <2>1, ZenonT(60)
<1>7. Len(wire') \in 0 .. 3
  BY <1>2, SMTT(60)
<1>8. /\ sent' \in Seq(Movements) /\ lost' \in Nat /\ lost_in' \in 0 .. Len(sent')
      /\ (lost' = 0 => lost_in' = 0) /\ sent' # << >>
  BY <1>1, <1>2, SMTT(60) DEF MouseTypeOK
<1>9. MouseTypeOK'
  BY ONLY <1>2, <1>5, <1>6, <1>7, <1>8, ZenonT(60) DEF MouseTypeOK
<1> QED
  BY <1>4, <1>5, <1>9, SMTT(60)

\* A packet with bit 3 clear in its movement leaves the driver at a beginning.
LEMMA PlainTakes ==
  ASSUME MouseInv, mouse_irq, lost_in < Len(sent), Plain(sent[Len(sent)])
  PROVE  /\ Len(wire) = 2 => Len(packet') \in {0, 2}
         /\ Len(wire) = 1 => packet' = << >>
<1> DEFINE v == Head(wire)
<1>1. MouseTypeOK /\ wire # << >>
  BY DEF MouseInv, mouse_irq
<1>2. Len(wire) \in 1 .. 3 /\ v = Sending(sent, 4 - Len(wire)) /\ v \in WireBytes
  BY <1>1, TakeByte, SMTT(60)
<1>3. packet \in Seq(WireBytes) /\ packet_index = Len(packet) /\ packet_index \in 0 .. 2
  BY <1>1, SMTT(60) DEF MouseTypeOK
<1>4. v.byte = sent[Len(sent)][4 - Len(wire)]
  BY <1>2 DEF Sending
<1>5. CASE Len(wire) = 2
  <2>1. 4 - Len(wire) = 2
    BY ONLY <1>5, SMTT(60)
  <2>2. ~v.byte.bit3
    BY ONLY <1>4, <2>1, Plain(sent[Len(sent)]), SMTT(60) DEF Plain
  <2>4. packet_index = 0 => packet' = packet
    BY <2>2 DEF mouse_irq
  <2>5. packet_index = 1 => Len(packet') = 2
    <3>1. packet_index = 1 => packet' = Append(packet, v)
      BY DEF mouse_irq
    <3>2. Len(Append(packet, v)) = Len(packet) + 1
      BY ONLY <1>2, <1>3, PutLast, SMTT(60)
    <3> QED
      BY <1>3, <3>1, <3>2, SMTT(60)
  <2>6. packet_index = 2 => packet' = << >>
    BY DEF mouse_irq
  <2> QED
    BY <1>3, <1>5, <2>4, <2>5, <2>6, SMTT(60)
<1>6. CASE Len(wire) = 1
  <2>1. 4 - Len(wire) = 3
    BY ONLY <1>6, SMTT(60)
  <2>2. ~v.byte.bit3
    BY ONLY <1>4, <2>1, Plain(sent[Len(sent)]), SMTT(60) DEF Plain
  <2>3. Len(packet) \in {0, 2}
    BY <1>6, SMTT(60) DEF MouseInv
  <2>4. packet_index = 0 => packet' = packet
    BY <2>2 DEF mouse_irq
  <2>5. packet_index = 2 => packet' = << >>
    BY DEF mouse_irq
  <2> QED
    BY <1>3, <1>6, <2>3, <2>4, <2>5, SMTT(60)
<1> QED
  BY <1>2, <1>5, <1>6, SMTT(60)

LEMMA MouseIrqKeeps ==
  ASSUME MouseInv, mouse_irq
  PROVE  MouseInv'
<1>1. MouseTypeOK /\ wire # << >> /\ UNCHANGED <<sent, lost, lost_in>>
  BY SMTT(60) DEF MouseInv, mouse_irq
<1>2. /\ Len(wire) \in 1 .. 3 /\ Len(sent) \in Nat \ {0}
      /\ wire' = Tail(wire) /\ wire' \in Seq(WireBytes) /\ Len(wire') = Len(wire) - 1
  BY <1>1, TakeByte, SMTT(60) DEF mouse_irq
<1>3. MouseTypeOK' /\ (reported' = reported \/ \E e \in Seq(WireBytes) : reported' = Append(reported, e))
  BY <1>1, MouseIrqTypes, SMTT(60)
<1>4. /\ InStep => InStep'
      /\ InStep /\ Len(wire) > 1 => reported' = reported
      /\ InStep /\ Len(wire) = 1 => /\ reported' = Append(reported, Append(packet, Head(wire)))
                                    /\ Exact(Append(packet, Head(wire)), Len(sent))
  BY <1>1, InStepTakes, SMTT(60)
<1>5. /\ Finished = Len(sent) - 1
      /\ Len(wire) = 1 => wire' = << >> /\ Finished' = Len(sent)
      /\ Len(wire) > 1 => wire' # << >> /\ Finished' = Len(sent) - 1
  <2>1. Len(wire) = 1 => wire' = << >>
    BY ONLY <1>2
  <2>2. Len(wire) > 1 => wire' # << >>
    BY ONLY <1>2
  <2> QED
    BY <1>1, <1>2, <2>1, <2>2, SMTT(60) DEF Finished
<1>6. lost_in \in Nat /\ reported \in Seq(Seq(WireBytes)) /\ Append(packet, Head(wire)) \in Seq(WireBytes)
  <2>1. packet \in Seq(WireBytes) /\ Head(wire) \in WireBytes
    BY <1>1, TakeByte, SMTT(60) DEF MouseTypeOK
  <2>2. Append(packet, Head(wire)) \in Seq(WireBytes)
    BY ONLY <2>1, PutLast, SMTT(60)
  <2> QED
    BY <1>1, <2>2, SMTT(60) DEF MouseTypeOK
<1>7. \A i \in DOMAIN reported : i \in DOMAIN reported' /\ reported'[i] = reported[i]
  <2>1. CASE reported' = reported
    BY <2>1, SMTT(60)
  <2>2. ASSUME NEW e \in Seq(WireBytes), reported' = Append(reported, e)
        PROVE  \A i \in DOMAIN reported : i \in DOMAIN reported' /\ reported'[i] = reported[i]
    BY <1>6, <2>2, SMTT(60)
  <2> QED
    BY <1>3, <2>1, <2>2, SMTT(60)
<1>8. InStep /\ Len(wire) = 1 =>
         /\ Len(reported') = Len(reported) + 1 /\ Len(reported) \in Nat
         /\ Len(reported) + 1 \in DOMAIN reported'
         /\ Exact(reported'[Len(reported) + 1], Len(sent))
         /\ \A i \in DOMAIN reported' : i \in DOMAIN reported \/ i = Len(reported) + 1
  <2> SUFFICES ASSUME InStep, Len(wire) = 1
               PROVE  /\ Len(reported') = Len(reported) + 1 /\ Len(reported) \in Nat
                      /\ Len(reported) + 1 \in DOMAIN reported'
                      /\ Exact(reported'[Len(reported) + 1], Len(sent))
                      /\ \A i \in DOMAIN reported' : i \in DOMAIN reported \/ i = Len(reported) + 1
    OBVIOUS
  <2> DEFINE e == Append(packet, Head(wire))
  <2>1. reported' = Append(reported, e) /\ Exact(e, Len(sent)) /\ e \in Seq(WireBytes)
    BY <1>4, <1>6, SMTT(60)
  <2> HIDE DEF e
  <2>2. /\ reported' \in Seq(Seq(WireBytes)) /\ Len(reported') = Len(reported) + 1
        /\ reported'[Len(reported) + 1] = e /\ Len(reported) \in Nat
    BY ONLY <1>6, <2>1, PutLast, SMTT(60)
  <2>3. DOMAIN reported' = 1 .. Len(reported) + 1 /\ DOMAIN reported = 1 .. Len(reported)
    BY ONLY <1>6, <2>2, SMTT(60)
  <2> QED
    BY ONLY <2>1, <2>2, <2>3, SMTT(60)
<1>9. PlainSince(Finished)' =>
         \/ PlainSince(Finished)
         \/ Len(wire) = 1 /\ lost_in < Len(sent) /\ Plain(sent[Len(sent)])
  BY ONLY <1>1, <1>2, <1>5, <1>6, SMTT(60) DEF PlainSince
<1>10. PlainSince(Finished)' => InStep'
  <2>1. CASE PlainSince(Finished)
    BY <1>4, <2>1, SMTT(60) DEF MouseInv
  <2>2. CASE Len(wire) = 1 /\ lost_in < Len(sent) /\ Plain(sent[Len(sent)])
    BY <1>5, <2>2, PlainTakes, SMTT(60) DEF InStep
  <2> QED
    BY <1>9, <2>1, <2>2, SMTT(60)
<1>11. lost' = 0 => InStep'
  BY <1>1, <1>4, SMTT(60) DEF MouseInv
<1>12. (lost_in < Len(sent) /\ Len(wire) = 1 /\ Plain(sent[Len(sent)]) => Len(packet) \in {0, 2})'
  BY <1>1, <1>2, PlainTakes, SMTT(60)
<1>13. MouseRecovers'
  <2>1. ASSUME lost' = 0
        PROVE  Len(reported') = Finished' /\ \A i \in DOMAIN reported' : Exact(reported'[i], i)
    <3>1. InStep /\ Len(reported) = Len(sent) - 1 /\ \A i \in DOMAIN reported : Exact(reported[i], i)
      BY <1>1, <1>5, <2>1, SMTT(60) DEF MouseInv, MouseRecovers
    <3>2. CASE Len(wire) > 1
      BY <1>4, <1>5, <3>1, <3>2, SMTT(90)
    <3>3. CASE Len(wire) = 1
      <4>1. Len(reported) + 1 = Len(sent)
        BY <1>2, <3>1, SMTT(60)
      <4> QED
        BY <1>5, <1>7, <1>8, <3>1, <3>3, <4>1, SMTT(90)
    <3> QED
      BY <1>2, <3>2, <3>3, SMTT(60)
  <2>2. ASSUME NEW p \in lost_in + 2 .. Finished', NEW q \in lost_in + 1 .. p - 1, Plain(sent[q])
        PROVE  \E i \in DOMAIN reported' : Exact(reported'[i], p)
    <3>1. CASE p <= Finished
      <4>1. p \in lost_in + 2 .. Finished
        BY <1>2, <1>5, <1>6, <3>1, SMTT(60)
      <4>2. PICK i \in DOMAIN reported : Exact(reported[i], p)
        BY <2>2, <4>1, SMTT(60) DEF MouseInv, MouseRecovers
      <4> QED
        BY <1>7, <4>2, SMTT(60)
    <3>2. CASE ~ (p <= Finished)
      <4>1. p = Len(sent) /\ Len(wire) = 1 /\ q \in lost_in + 1 .. Finished
        BY <1>2, <1>5, <1>6, <3>2, SMTT(60)
      <4>2. PlainSince(Finished)
        BY <2>2, <4>1, SMTT(60) DEF PlainSince
      <4> QED
        BY <1>8, <4>1, <4>2, SMTT(60) DEF MouseInv
    <3> QED
      BY <3>1, <3>2, SMTT(60)
  <2> QED
    BY <1>1, <2>1, <2>2, SMTT(60) DEF MouseRecovers
<1> QED
  BY <1>3, <1>10, <1>11, <1>12, <1>13, SMTT(60) DEF MouseInv

LEMMA MouseStep == MouseInv /\ [MouseNext]_mouseVars => MouseInv'
<1> SUFFICES ASSUME MouseInv, [MouseNext]_mouseVars PROVE MouseInv'
  OBVIOUS
<1>1. CASE UNCHANGED mouseVars
  BY <1>1 DEF mouseVars, MouseInv, MouseTypeOK, MouseRecovers, InStep, PlainSince, Finished, RestOf
<1>2. CASE \E m \in Movements : Moves(m)
  BY <1>2, MovesKeeps, SMTT(60)
<1>3. CASE Loses
  BY <1>3, LosesKeeps, SMTT(60)
<1>4. CASE mouse_irq
  BY <1>4, MouseIrqKeeps, SMTT(60)
<1> QED
  BY <1>1, <1>2, <1>3, <1>4, SMTT(90) DEF MouseNext, Still

-----------------------------------------------------------------------------
(* The spin lock: the word is set while somebody holds it, so the swap of a  *)
(* second thread finds it set.                                               *)

\* The places of a thread that does not hold the spin lock.
Outside == Acquiring \cup Releasing \cup {"ready", "wait_loop"}

SpinInv ==
    /\ pc \in [LockThreads -> Outside \cup {"spin_held"}]
    /\ \A t \in LockThreads : pc[t] = "spin_held" => spin = 1
    /\ \A t, u \in LockThreads : pc[t] = "spin_held" /\ pc[u] = "spin_held" => t = u

LEMMA SpinInitially == LocksInit => SpinInv
  BY SMTT(60) DEF LocksInit, SpinInv, Outside

\* No step but those of the spin lock touches its word, or begins or ends in
\* the section it protects.
LEMMA OutsideSpin ==
  ASSUME NEW t \in LockThreads, pc \in [LockThreads -> Outside \cup {"spin_held"}],
         \/ mutex_lock(t) \/ mutex_unlock(t) \/ condvar_wait(t) \/ condvar_signal(t)
         \/ LockStep(t)
  PROVE  /\ spin' = spin
         /\ pc[t] # "spin_held"
         /\ \E l \in Outside : pc' = [pc EXCEPT ![t] = l]
<1>1. CASE mutex_lock(t) \/ mutex_unlock(t) \/ condvar_wait(t)
  BY <1>1, SMTT(60) DEF mutex_lock, mutex_unlock, condvar_wait, Goto, Outside, Acquiring, Releasing
<1>2. CASE condvar_signal(t)
  <2>1. pc' = [pc EXCEPT ![t] = "ready"]
    BY <1>2, SMTT(60) DEF condvar_signal
  <2> QED
    BY <1>2, <2>1, SMTT(60) DEF condvar_signal, Outside
<1>3. CASE try_lock_step(t)
  BY <1>3, SMTT(60) DEF try_lock_step, Goto, Acquired, Outside, Acquiring
<1>4. CASE unlock_step(t)
  <2>1. Released(t) => \E l \in Outside : pc' = [pc EXCEPT ![t] = l]
    BY Zenon DEF Released, Goto, Outside
  <2> QED
    BY <1>4, <2>1, SMTT(30) DEF unlock_step, Goto, Outside, Releasing
<1>5. CASE wait_step(t)
  <2>1. CASE back[t] = <<"observe">>
    <3>1. pc' = [pc EXCEPT ![t] = "wait_loop"]
      BY <1>5, <2>1, SMTT(90) DEF wait_step
    <3> QED
      BY <1>5, <3>1, ZenonT(60) DEF wait_step, Outside
  <2>2. CASE back[t] # <<"observe">>
    BY <1>5, <2>2, SMTT(60) DEF wait_step, Goto, Outside, Acquiring
  <2> QED
    BY <2>1, <2>2, Zenon
<1> QED
  BY <1>1, <1>2, <1>3, <1>4, <1>5, SMTT(90) DEF LockStep

LEMMA SpinStep == SpinInv /\ [LocksNext]_lockVars => SpinInv'
<1> SUFFICES ASSUME SpinInv, [LocksNext]_lockVars PROVE SpinInv'
  OBVIOUS
<1>1. CASE UNCHANGED lockVars
  BY <1>1, SMTT(60) DEF SpinInv, lockVars
<1>2. ASSUME NEW t \in LockThreads,
             \/ mutex_lock(t) \/ mutex_unlock(t) \/ condvar_wait(t) \/ condvar_signal(t)
             \/ LockStep(t)
      PROVE  SpinInv'
  BY <1>2, OutsideSpin, SMTT(60) DEF SpinInv, Outside, Acquiring, Releasing
<1>3. ASSUME NEW t \in LockThreads, spin_trylock(t)
      PROVE  SpinInv'
  BY <1>3, SMTT(60) DEF SpinInv, spin_trylock, Goto
<1>4. ASSUME NEW t \in LockThreads, spin_unlock(t)
      PROVE  SpinInv'
  BY <1>4 DEF SpinInv, spin_unlock, Goto, Outside
<1> QED
  BY <1>1, <1>2, <1>3, <1>4, SMTT(60) DEF LocksNext, AllWait

LEMMA SpinInvImplies == SpinInv => SpinExcludes
<1> SUFFICES ASSUME SpinInv PROVE SpinExcludes
  OBVIOUS
<1> DEFINE H == {t \in LockThreads : pc[t] = "spin_held"}
<1>1. CASE H = {}
  BY <1>1, FS_EmptySet, SMTT(60) DEF SpinExcludes
<1>2. ASSUME NEW t \in H
      PROVE  SpinExcludes
  <2>1. H = {t}
    BY DEF SpinInv
  <2> QED
    BY <2>1, FS_Singleton, SMTT(60) DEF SpinExcludes
<1> QED
  BY <1>1, <1>2, SMTT(60)

-----------------------------------------------------------------------------
(* The composition: a step of one component leaves the others alone.         *)

ControlInv == SchedInv /\ PicInv /\ SignalInv /\ MouseInv /\ SpinInv

controlVars == <<schedVars, irqVars, signalVars, mouseVars, lockVars, component>>

LEMMA OneMoves ==
  ASSUME [Next]_controlVars
  PROVE  /\ [ClientNext]_schedVars /\ [IrqNext]_irqVars /\ [SignalNext]_signalVars
         /\ [MouseNext]_mouseVars /\ [LocksNext]_lockVars
  BY DEF Next, controlVars

LEMMA ControlSafety == Spec => []ControlInv
<1>1. Init => ControlInv
  BY SchedInitially, PicInitially, SignalInitially, MouseInitially, SpinInitially, SMTT(90) DEF Init, ControlInv
<1>2. ControlInv /\ [Next]_controlVars => ControlInv'
  BY OneMoves, SchedStep, PicStep, SignalStep, MouseStep, SpinStep, SMTT(60) DEF ControlInv
<1> QED
  BY <1>1, <1>2, PTL DEF Spec, controlVars

\* No request of a line or a signal is dropped, and one thread at most is between
\* spin_trylock and spin_unlock, for any lines, signals and threads (irq_dispatch,
\* pic_send_eoi, signal_send, signal_dispatch, spin_lock).
THEOREM ControlIsSound == Spec => []ControlSound
<1>1. ControlInv => ControlSound
  BY PicInvImplies, SpinInvImplies, SMTT(60) DEF ControlInv, SignalInv, ControlSound
<1> QED
  BY <1>1, ControlSafety, PTL

\* The linked list of scheduler.c stays a list of live threads in which one thread
\* at most is RUNNING, and every search of it ends, for any number of threads.
THEOREM ControlQueueSound == Spec => []QueueSound
<1>1. ControlInv => QueueSound
  BY SchedInvImplies DEF ControlInv
<1> QED
  BY <1>1, ControlSafety, PTL

\* The linked list with its search implements the round-robin line: a join goes to
\* its end, a removal leaves the order of the others alone, and every turn goes to
\* the nearest ready thread behind the last turn (scheduler_add, scheduler_remove,
\* scheduler_yield).
THEOREM ControlImplementsRoundRobin == Spec => ImplementsRoundRobin
<1>1. Init => Line!RunQueueInit
  BY SchedInitially, SMTT(60) DEF Init
<1>2. ControlInv /\ [Next]_controlVars => LineStep
  BY OneMoves, SchedStep, SMTT(60) DEF ControlInv
<1>3. LineStep => [Line!RunQueueNext]_<<Listed(run_queue, next),
                                        {t \in Queued : thread_is_runnable(t, state)}, current_thread>>
  BY SMTT(60) DEF LineStep, Ready
<1> QED
  BY <1>1, <1>2, <1>3, ControlSafety, PTL DEF Spec, controlVars, ImplementsRoundRobin, Line!RunQueueSpec

\* The mouse driver reports every packet exactly while no byte is lost, and again
\* from the packet after the first whole one whose data bytes have bit 3 clear, for
\* any number of packets and losses (mouse_irq).
THEOREM MouseResynchronises == Spec => []MouseRecovers
<1>1. ControlInv => MouseRecovers
  BY DEF ControlInv, MouseInv
<1> QED
  BY <1>1, ControlSafety, PTL
================================================================================
