------------------------------- MODULE Console --------------------------------
(* What the kernel prints: the log, and the consoles it goes to.             *)
EXTENDS Integers, Sequences

-------------------------------------------------------------------------------
(***************************************************************************)
(* Keyboard input (drivers/keyboard.c, drivers/console.c).  The keyboard's *)
(* interrupt handler puts characters into a ring that console_read empties *)
(* outside the handler; when the ring is empty console_read also polls the *)
(* keyboard itself.  The handler runs between any two memory or port       *)
(* accesses of console_read, unless interrupts are off.                    *)
(*                                                                         *)
(* A character is a record: the serial number of its key press, whether    *)
(* shift was down, and whether it is a newline.                            *)
(***************************************************************************)

CONSTANTS
    InputCapacity,     \* CONSOLE_INPUT_CAPACITY
    ReadCounts,       \* sizes of the buffers passed to console_read
    Keys,         \* keys on the keyboard, of the kinds below
    MaxPresses    \* bound on the presses and releases of a behaviour

ASSUME ConsoleConstants ==
    /\ InputCapacity \in Nat \ {0, 1} /\ ReadCounts \subseteq Nat \ {0}
    /\ Keys \subseteq {"letter", "enter", "backspace", "shift"}
    /\ MaxPresses \in Nat

VARIABLES
    input_buffer, input_head, input_tail,     \* console.c
    shift_down,                               \* keyboard.c
    port, full, request,     \* the controller's output byte, its status bit, the latched interrupt
    flag,                    \* the interrupt flag
    read_pc, read_ch, read_count, blocking, out,    \* console_read: position, character, arguments, what is read
    presses, line, handed, twice, raced, stale      \* history, see below

device == <<port, full, request, presses>>
reader == <<read_pc, read_ch, read_count, blocking, out, flag>>
input_ring == <<input_buffer, input_head, input_tail>>
history == <<line, handed, twice, raced, stale>>
consoleVars == <<input_ring, shift_down, device, reader, history>>

NoChar == [n |-> 0, shifted |-> FALSE, newline |-> FALSE]
NoCode == [key |-> "none", down |-> FALSE, n |-> 0]

ConsoleInit ==
    /\ input_buffer = [i \in 0 .. InputCapacity - 1 |-> NoChar]
    /\ input_head = 0 /\ input_tail = 0
    /\ shift_down = FALSE
    /\ port = NoCode /\ full = FALSE /\ request = FALSE /\ presses = 0
    /\ read_pc = "idle" /\ read_ch = NoChar /\ read_count = 0 /\ blocking = TRUE /\ out = << >> /\ flag = TRUE
    /\ line = << >> /\ handed = {} /\ twice = FALSE /\ raced = FALSE /\ stale = FALSE

next_index(i) == (i + 1) % InputCapacity

\* The keyboard puts a scancode into the controller's output byte, once the
\* previous one was read, and the controller requests an interrupt.
Press(key, down) ==
    /\ ~ full /\ presses < MaxPresses
    /\ presses' = presses + 1
    /\ port' = [key |-> key, down |-> down, n |-> presses + 1]
    /\ full' = TRUE /\ request' = TRUE
    /\ UNCHANGED <<input_ring, shift_down, reader, history>>

\* inb(KBD_DATA): the status bit is cleared; a byte read twice is still there.
ReadPort == full' = FALSE /\ stale' = (stale \/ ~ full)

CharOf(code) == [n |-> code.n, shifted |-> shift_down, newline |-> code.key = "enter"]

\* Mutant of console_keyboard_event: a full ring is not noticed.
console_keyboard_event_no_full(code) ==
    IF ~ code.down THEN UNCHANGED <<input_ring, line, raced>>
    ELSE IF code.key = "backspace"
         THEN IF input_head # input_tail
              THEN /\ input_head' = IF input_head = 0 THEN InputCapacity - 1 ELSE input_head - 1
                   /\ line' = SubSeq(line, 1, Len(line) - 1)
                   /\ raced' = (raced \/ (read_pc \in {"load", "advance"} /\ Len(line) = 1))
                   /\ UNCHANGED <<input_buffer, input_tail>>
              ELSE UNCHANGED <<input_ring, line, raced>>
         ELSE /\ input_buffer' = [input_buffer EXCEPT ![input_head] = CharOf(code)]
              /\ input_head' = next_index(input_head)
              /\ line' = Append(line, CharOf(code))
              /\ UNCHANGED <<input_tail, raced>>

\* The console's part of the handler.  Erasing the only character while
\* console_read has found it and not yet advanced the tail is recorded in raced.
console_keyboard_event(code) ==
    IF ~ code.down THEN UNCHANGED <<input_ring, line, raced>>
    ELSE IF code.key = "backspace"
         THEN IF input_head # input_tail
              THEN /\ input_head' = IF input_head = 0 THEN InputCapacity - 1 ELSE input_head - 1
                   /\ line' = SubSeq(line, 1, Len(line) - 1)
                   /\ raced' = (raced \/ (read_pc \in {"load", "advance"} /\ Len(line) = 1))
                   /\ UNCHANGED <<input_buffer, input_tail>>
              ELSE UNCHANGED <<input_ring, line, raced>>
         ELSE IF next_index(input_head) = input_tail
              THEN UNCHANGED <<input_ring, line, raced>>
              ELSE /\ input_buffer' = [input_buffer EXCEPT ![input_head] = CharOf(code)]
                   /\ input_head' = next_index(input_head)
                   /\ line' = Append(line, CharOf(code))
                   /\ UNCHANGED <<input_tail, raced>>

keyboard_irq ==
    /\ flag /\ request
    /\ request' = FALSE
    /\ ReadPort
    /\ IF port.key = "shift"
       THEN shift_down' = port.down /\ UNCHANGED <<input_ring, line, raced>>
       ELSE UNCHANGED shift_down /\ console_keyboard_event(port)
    /\ UNCHANGED <<port, presses, reader, handed, twice>>

\* console_read is called by the monitor with interrupts on, by sys_read off.
console_read(n, block, interrupts) ==
    /\ read_pc = "idle"
    /\ read_pc' = "check" /\ read_count' = n /\ blocking' = block /\ flag' = interrupts
    /\ out' = << >>
    /\ UNCHANGED <<input_ring, shift_down, device, read_ch, history>>

\* A character is handed to the caller.
HandOut(c) ==
    /\ out' = Append(out, c)
    /\ handed' = handed \cup {c.n} /\ twice' = (twice \/ c.n \in handed)

Return == read_pc' = "idle" /\ flag' = TRUE

\* while (input_tail == input_head), and the loop around it.
check ==
    /\ read_pc = "check"
    /\ CASE Len(out) = read_count -> Return
         [] Len(out) < read_count /\ input_tail # input_head -> read_pc' = "load" /\ UNCHANGED flag
         [] Len(out) < read_count /\ input_tail = input_head ->
               IF ~ blocking \/ Len(out) > 0 THEN Return ELSE read_pc' = "status" /\ UNCHANGED flag
    /\ UNCHANGED <<input_ring, shift_down, device, read_ch, read_count, blocking, out, history>>

\* keyboard_poll_char: the status bit, then the byte.
poll_status ==
    /\ read_pc = "status"
    /\ read_pc' = IF full THEN "data" ELSE "check"
    /\ UNCHANGED <<input_ring, shift_down, device, read_ch, read_count, blocking, out, flag, history>>

\* Reading the byte takes the interrupt request back, or too late.
poll_data ==
    /\ read_pc = "data"
    /\ ReadPort /\ request' \in {request, FALSE}
    /\ shift_down' = IF port.key = "shift" THEN port.down ELSE shift_down
    /\ IF port.key = "shift" \/ ~ port.down
       THEN read_pc' = "check" /\ UNCHANGED <<out, flag, handed, twice>>
       ELSE /\ HandOut(CharOf(port))
            /\ IF port.key = "enter" \/ Len(out) + 1 = read_count THEN Return
               ELSE read_pc' = "check" /\ UNCHANGED flag
    /\ UNCHANGED <<input_ring, port, presses, read_ch, read_count, blocking, line, raced>>

load ==
    /\ read_pc = "load"
    /\ read_ch' = input_buffer[input_tail]
    /\ read_pc' = "advance"
    /\ UNCHANGED <<input_ring, shift_down, device, read_count, blocking, out, flag, history>>

\* Mutant of advance: a newline leaves the loop before the tail moves.
advance_break_first ==
    /\ read_pc = "advance"
    /\ input_tail' = IF read_ch.newline THEN input_tail ELSE next_index(input_tail)
    /\ HandOut(read_ch)
    /\ IF read_ch.newline THEN Return ELSE read_pc' = "check" /\ UNCHANGED flag
    /\ line' = IF line = << >> THEN line ELSE Tail(line)
    /\ UNCHANGED <<input_buffer, input_head, shift_down, device, read_ch, read_count, blocking, raced, stale>>

advance ==
    /\ read_pc = "advance"
    /\ input_tail' = next_index(input_tail)
    /\ HandOut(read_ch)
    /\ IF read_ch.newline THEN Return ELSE read_pc' = "check" /\ UNCHANGED flag
    /\ line' = IF line = << >> THEN line ELSE Tail(line)
    /\ UNCHANGED <<input_buffer, input_head, shift_down, device, read_ch, read_count, blocking, raced, stale>>

ConsoleNext ==
    \/ \E key \in Keys, down \in BOOLEAN : Press(key, down)
    \/ keyboard_irq
    \/ \E n \in ReadCounts, block \in BOOLEAN, interrupts \in BOOLEAN : console_read(n, block, interrupts)
    \/ check \/ poll_status \/ poll_data \/ load \/ advance

ConsoleSpec == ConsoleInit /\ [][ConsoleNext]_consoleVars

-----------------------------------------------------------------------------
console_pending ==
    IF input_head >= input_tail THEN input_head - input_tail
    ELSE InputCapacity - input_tail + input_head

InputContents == [i \in 1 .. console_pending |-> input_buffer[(input_tail + i - 1) % InputCapacity]]

\* The ring holds exactly the characters that were accepted and neither erased
\* nor read, in the order they were typed, and the character console_read is
\* about to hand out is the oldest of them: no interleaving with the handler
\* breaks that, except a backspace that erases the only character between the
\* test for one and the move of the tail (console_keyboard_event, console_read).
RingIsLine ==
    /\ input_head \in 0 .. InputCapacity - 1 /\ input_tail \in 0 .. InputCapacity - 1
    /\ ~ raced => /\ InputContents = line
                  /\ read_pc = "advance" => line # << >> /\ read_ch = Head(line)

\* A key press is handed out at most once, and not while it is still in the
\* ring, unless the handler and the poll both read the same byte or a backspace
\* hit the window above (keyboard_poll_char, console_read).
EachOnce ==
    ~ raced /\ ~ stale => ~ twice /\ \A i \in 1 .. Len(line) : line[i].n \notin handed

\* Both, for every interleaving of the handler with a read.
InputExact == RingIsLine /\ EachOnce

-------------------------------------------------------------------------------
(***************************************************************************)
(* The kernel log (lib/klog.c), a ring that drops its oldest byte, written *)
(* by kernel code and by the keyboard handler (which echoes through        *)
(* kputchar), and the monitor's dmesg command that replays it.             *)
(*                                                                         *)
(* klog_putc is split at the memory accesses the optimised build makes of  *)
(* it: both indices are loaded once and kept in registers.  The handler    *)
(* runs to its end between any two of them.  A chunk of dmesg is copied in *)
(* one step.  A byte is the serial number of its output.                   *)
(***************************************************************************)

CONSTANTS
    LogCapacity,     \* KLOG_CAPACITY
    Chunk,        \* size of dmesg's buffer
    MaxBytes      \* bound on the bytes output in a behaviour

ASSUME KlogConstants == LogCapacity \in Nat \ {0} /\ Chunk \in Nat \ {0} /\ MaxBytes \in Nat

VARIABLES
    storage, start, length,       \* klog.c
    put_pc, put_ch, len, first,           \* klog_putc: position, byte, registers
    offset, snapshot, shown,      \* command_dmesg
    clock,                        \* serial number of the last byte output
    printed, torn,                \* history: bytes put, and whether a put was interrupted
    before, keyed                 \* history: the log dmesg began with, a key during dmesg

log == <<storage, start, length>>
putter == <<put_pc, put_ch, len, first>>
dmesg == <<offset, snapshot, shown, before>>
klogVars == <<log, putter, dmesg, clock, printed, torn, keyed>>

\* The retained bytes, oldest first.
LogContents == [i \in 1 .. length |-> storage[(start + i - 1) % LogCapacity]]

\* klog_clear, at boot.
KlogInit ==
    /\ storage = [i \in 0 .. LogCapacity - 1 |-> 0]
    /\ start = 0 /\ length = 0
    /\ put_pc = "idle" /\ put_ch = 0 /\ len = 0 /\ first = 0
    /\ offset = 0 /\ snapshot = 0 /\ shown = << >> /\ before = << >>
    /\ clock = 0 /\ printed = << >> /\ torn = FALSE /\ keyed = FALSE

\* Mutant of klog_putc: the byte that fills the ring also moves its start.
klog_putc_early(c) ==
    IF length + 1 < LogCapacity
    THEN /\ storage' = [storage EXCEPT ![(start + length) % LogCapacity] = c]
         /\ length' = length + 1 /\ start' = start
    ELSE /\ storage' = [storage EXCEPT ![start] = c]
         /\ start' = (start + 1) % LogCapacity /\ length' = length

\* klog_putc in one piece, as the handler runs it.
klog_putc(c) ==
    IF length < LogCapacity
    THEN /\ storage' = [storage EXCEPT ![(start + length) % LogCapacity] = c]
         /\ length' = length + 1 /\ start' = start
    ELSE /\ storage' = [storage EXCEPT ![start] = c]
         /\ start' = (start + 1) % LogCapacity /\ length' = length

\* The keyboard handler echoes a key; it may interrupt anything below.
echo ==
    /\ clock < MaxBytes /\ clock' = clock + 1
    /\ klog_putc(clock')
    /\ printed' = Append(printed, clock')
    /\ torn' = (torn \/ put_pc \in {"start", "branch", "byte", "index"})
    /\ keyed' = (keyed \/ put_pc = "dmesg")
    /\ UNCHANGED <<putter, dmesg>>

\* Kernel code outputs a byte: klog_putc in four accesses.
put_load_length ==
    /\ put_pc = "idle" /\ clock < MaxBytes
    /\ clock' = clock + 1 /\ put_ch' = clock' /\ len' = length
    /\ put_pc' = "start"
    /\ UNCHANGED <<log, first, dmesg, printed, torn, keyed>>

put_load_start ==
    /\ put_pc = "start"
    /\ first' = start /\ put_pc' = "branch"
    /\ UNCHANGED <<log, put_ch, len, dmesg, clock, printed, torn, keyed>>

\* Not full: the new length is stored first, then the byte.  Full: the byte
\* is stored first, then the new start.
put_first_store ==
    /\ put_pc = "branch"
    /\ IF len < LogCapacity
       THEN length' = len + 1 /\ put_pc' = "byte" /\ UNCHANGED storage
       ELSE storage' = [storage EXCEPT ![first] = put_ch] /\ put_pc' = "index" /\ UNCHANGED length
    /\ UNCHANGED <<start, put_ch, len, first, dmesg, clock, printed, torn, keyed>>

put_second_store ==
    /\ \/ /\ put_pc = "byte"
          /\ storage' = [storage EXCEPT ![(first + len) % LogCapacity] = put_ch] /\ UNCHANGED start
       \/ /\ put_pc = "index"
          /\ start' = (first + 1) % LogCapacity /\ UNCHANGED storage
    /\ put_pc' = "idle"
    /\ printed' = Append(printed, put_ch)
    /\ UNCHANGED <<length, put_ch, len, first, dmesg, clock, torn, keyed>>

\* Mutant of klog_read: the offset is taken from the start of the storage.
klog_read_unrotated(off, n) ==
    IF off >= length THEN << >>
    ELSE [i \in 1 .. (IF n > length - off THEN length - off ELSE n)
             |-> storage[(off + i - 1) % LogCapacity]]

klog_read(off, n) ==
    IF off >= length THEN << >>
    ELSE [i \in 1 .. (IF n > length - off THEN length - off ELSE n)
             |-> storage[(start + off + i - 1) % LogCapacity]]

\* command_dmesg: take the size, then read and show chunk after chunk.
dmesg_begin ==
    /\ put_pc = "idle"
    /\ put_pc' = "dmesg" /\ offset' = 0 /\ snapshot' = length /\ shown' = << >>
    /\ before' = LogContents /\ keyed' = FALSE
    /\ UNCHANGED <<log, put_ch, len, first, clock, printed, torn>>

dmesg_chunk ==
    /\ put_pc = "dmesg"
    /\ LET bytes == klog_read(offset, Chunk) IN
       IF offset < snapshot /\ bytes # << >>
       THEN /\ shown' = shown \o bytes
            /\ offset' = offset + Len(bytes)
            /\ put_pc' = put_pc
       ELSE put_pc' = "shown" /\ UNCHANGED <<offset, shown>>
    /\ UNCHANGED <<log, put_ch, len, first, snapshot, before, clock, printed, torn, keyed>>

dmesg_end ==
    /\ put_pc = "shown" /\ put_pc' = "idle"
    /\ UNCHANGED <<log, put_ch, len, first, dmesg, clock, printed, torn, keyed>>

KlogNext ==
    \/ echo
    \/ put_load_length \/ put_load_start \/ put_first_store \/ put_second_store
    \/ dmesg_begin \/ dmesg_chunk \/ dmesg_end

KlogSpec == KlogInit /\ [][KlogNext]_klogVars

-----------------------------------------------------------------------------
Putting == put_pc \in {"start", "branch", "byte", "index"}

\* The indices stay in range whatever the handler interrupts, and until a put
\* is interrupted the log is exactly the last bytes output, in order
\* (klog_putc).
LogIsTail ==
    /\ start \in 0 .. LogCapacity - 1 /\ length \in 0 .. LogCapacity
    /\ ~ torn /\ ~ Putting =>
          LogContents = SubSeq(printed, IF Len(printed) > LogCapacity
                                     THEN Len(printed) - LogCapacity + 1 ELSE 1, Len(printed))

\* With no key in between, dmesg shows exactly the log it began with, for any
\* ratio of the log to its buffer (command_dmesg, klog_read).
QuietReplay == put_pc = "shown" /\ ~ keyed => shown = before

\* Both: the log holds the tail of what was output, and shows what it holds.
LogExact == LogIsTail /\ QuietReplay

\* What is typed and what is printed, together: input is handed out once and in
\* order, and the log holds and shows the end of the output (console_read,
\* klog_putc, klog_read).
InputAndLogExact == InputExact /\ LogExact
===============================================================================
