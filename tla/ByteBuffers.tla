----------------------------- MODULE ByteBuffers ------------------------------
(* The two ring buffers of bytes: a pipe's, which blocks, and the plain one. *)
EXTENDS Integers, Sequences

-------------------------------------------------------------------------------
(***************************************************************************)
(* Pipes (kernel/ipc/pipe.c): a byte ring with closing flags.  A call      *)
(* copies byte by byte until it runs out of bytes or of room; calls are    *)
(* made with interrupts off, so each is one step.                          *)
(***************************************************************************)

CONSTANTS
    PipeCapacities,    \* capacities asked for; 0 asks for the default one
    DefaultCapacity,       \* IPC_PIPE_DEFAULT_CAPACITY
    PipeBytes,         \* byte values
    PipeGarbage,       \* what memory fresh from kmalloc holds
    MaxCount       \* largest count passed to a read or a write

ASSUME PipeConstants ==
    /\ PipeCapacities \subseteq Nat /\ DefaultCapacity \in Nat \ {0} /\ MaxCount \in Nat

VARIABLES
    pipe,          \* the ipc_pipe_t structure
    pipe_out       \* what the last pipe_read copied out

pipeVars == <<pipe, pipe_out>>

PipeInit ==
    /\ pipe = [buffer |-> << >>, capacity |-> 0, read_index |-> 0, write_index |-> 0,
               size |-> 0, reader_closed |-> FALSE, writer_closed |-> FALSE]
    /\ pipe_out = << >>

\* kmalloc does not clear, so the buffer starts with any bytes at all.
pipe_init(n) ==
    /\ pipe.capacity = 0
    /\ LET capacity == IF n = 0 THEN DefaultCapacity ELSE n IN
       pipe' = [buffer |-> [i \in 0 .. capacity - 1 |-> PipeGarbage], capacity |-> capacity,
                read_index |-> 0, write_index |-> 0, size |-> 0,
                reader_closed |-> FALSE, writer_closed |-> FALSE]
    /\ UNCHANGED pipe_out

pipe_destroy ==
    /\ pipe' = [pipe EXCEPT !.buffer = << >>, !.capacity = 0, !.size = 0]
    /\ UNCHANGED pipe_out

\* One turn of the copying loop of pipe_read: the pipe and what was copied.
ReadByte(r) ==
    IF r.p.size = 0 THEN r
    ELSE [p |-> [r.p EXCEPT !.read_index = (@ + 1) % r.p.capacity, !.size = @ - 1],
          copied |-> Append(r.copied, r.p.buffer[r.p.read_index])]

ReadLoop(p, count) ==
    LET turn[k \in 0 .. count] ==
            IF k = 0 THEN [p |-> p, copied |-> << >>] ELSE ReadByte(turn[k - 1])
    IN  turn[count]

pipe_read(count) ==
    /\ count # 0
    /\ pipe' = ReadLoop(pipe, count).p
    /\ pipe_out' = ReadLoop(pipe, count).copied

\* Mutant of WriteByte: the byte is stored before the test for room.
WriteByte_stores_first(p, byte) ==
    IF p.size >= p.capacity THEN [p EXCEPT !.buffer[p.write_index] = byte]
    ELSE [p EXCEPT !.buffer[p.write_index] = byte,
                   !.write_index = (@ + 1) % p.capacity,
                   !.size = @ + 1]

\* One turn of the copying loop of pipe_write.
WriteByte(p, byte) ==
    IF p.size >= p.capacity THEN p
    ELSE [p EXCEPT !.buffer[p.write_index] = byte,
                   !.write_index = (@ + 1) % p.capacity,
                   !.size = @ + 1]

WriteLoop(p, data) ==
    LET turn[k \in 0 .. Len(data)] == IF k = 0 THEN p ELSE WriteByte(turn[k - 1], data[k])
    IN  turn[Len(data)]

\* Mutant of pipe_write: the reader's flag is not looked at.
pipe_write_ignores_close(data) ==
    /\ data # << >>
    /\ pipe' = WriteLoop(pipe, data)
    /\ UNCHANGED pipe_out

pipe_write(data) ==
    /\ data # << >> /\ ~ pipe.reader_closed
    /\ pipe' = WriteLoop(pipe, data)
    /\ UNCHANGED pipe_out

pipe_close_reader ==
    pipe' = [pipe EXCEPT !.reader_closed = TRUE] /\ UNCHANGED pipe_out

pipe_close_writer ==
    pipe' = [pipe EXCEPT !.writer_closed = TRUE] /\ UNCHANGED pipe_out

pipe_available == pipe.size

pipe_space == IF pipe.capacity >= pipe.size THEN pipe.capacity - pipe.size ELSE 0

\* What a write may pass.
PipeData == UNION {[1 .. n -> PipeBytes] : n \in 1 .. MaxCount}

PipeNext ==
    \/ \E n \in PipeCapacities : pipe_init(n)
    \/ pipe_destroy
    \/ \E count \in 1 .. MaxCount : pipe_read(count)
    \/ \E data \in PipeData : pipe_write(data)
    \/ pipe_close_reader
    \/ pipe_close_writer

PipeSpec == PipeInit /\ [][PipeNext]_pipeVars

-----------------------------------------------------------------------------
\* The bytes in the pipe, oldest first.
PipeContents == [i \in 1 .. pipe.size |-> pipe.buffer[(pipe.read_index + i - 1) % pipe.capacity]]

\* The structure is consistent between calls and holds only bytes that were
\* written: the uninitialised bytes of the buffer are never among the contents
\* (pipe_read, pipe_write, after any number of wraps and new inits).
PipeSound ==
    /\ pipe.capacity \in Nat /\ pipe.size \in 0 .. pipe.capacity
    /\ pipe_out \in Seq(PipeBytes)
    /\ pipe.capacity # 0 =>
          /\ DOMAIN pipe.buffer = 0 .. pipe.capacity - 1
          /\ pipe.read_index \in 0 .. pipe.capacity - 1
          /\ pipe.write_index = (pipe.read_index + pipe.size) % pipe.capacity
    /\ PipeContents \in Seq(PipeBytes)

PipePromise == INSTANCE Fifo WITH items <- PipeContents, room <- pipe.capacity, taken <- pipe_out

\* Once the reader has closed, the pipe only drains until it is set up again
\* (pipe_close_reader, pipe_write).
DrainsAfterClose ==
    [][pipe.reader_closed /\ pipe'.reader_closed => pipe'.size <= pipe.size]_pipeVars

\* Bytes come out once each and in the order they went in, whatever the sizes
\* of the reads and writes, and none go in once the reader has closed (pipe_read,
\* pipe_write).
PipeIsFifo == PipePromise!FifoSpec /\ []PipeSound /\ DrainsAfterClose

-------------------------------------------------------------------------------
(***************************************************************************)
(* The byte ring of kernel/lib/ring_buf.c, over storage its owner supplies. *)
(* An owner passes no storage or storage of at least one byte: a ring with  *)
(* storage and capacity 0 never counts as full, and a push divides by zero. *)
(***************************************************************************)

CONSTANTS
    RingCapacities,    \* sizes of the storage owners supply
    RingBytes,         \* byte values
    RingGarbage,       \* what the storage holds before it is used
    MaxLength      \* largest length passed to a read or a write

ASSUME RingBufConstants == RingCapacities \subseteq Nat \ {0} /\ MaxLength \in Nat

VARIABLES
    ring,          \* the ring_buf_t structure; data is << >> without storage
    ring_out       \* what the last pop or read handed out

ringVars == <<ring, ring_out>>

NoStorage == [data |-> << >>, capacity |-> 0, head |-> 0, tail |-> 0, count |-> 0]

RingInit == ring = NoStorage /\ ring_out = << >>

ring_buf_init(n) ==
    /\ ring' = [data |-> [i \in 0 .. n - 1 |-> RingGarbage], capacity |-> n,
                head |-> 0, tail |-> 0, count |-> 0]
    /\ UNCHANGED ring_out

ring_buf_reset ==
    ring' = [ring EXCEPT !.head = 0, !.tail = 0, !.count = 0] /\ UNCHANGED ring_out

ring_buf_full(r) == r.capacity > 0 /\ r.count = r.capacity

ring_buf_empty(r) == r.count = 0

ring_buf_space(r) == r.capacity - r.count

CanPush(r) == r.data # << >> /\ ~ ring_buf_full(r)

CanPop(r) == r.data # << >> /\ ~ ring_buf_empty(r)

Pushed(r, value) ==
    [r EXCEPT !.data[r.head] = value, !.head = (@ + 1) % r.capacity, !.count = @ + 1]

\* Mutant of Popped: the newest byte's place is given back.
Popped_from_head(r) ==
    [r EXCEPT !.head = (@ + r.capacity - 1) % r.capacity, !.count = @ - 1]

Popped(r) == [r EXCEPT !.tail = (@ + 1) % r.capacity, !.count = @ - 1]

ring_buf_push(value) == CanPush(ring) /\ ring' = Pushed(ring, value) /\ UNCHANGED ring_out

ring_buf_pop ==
    /\ CanPop(ring)
    /\ ring' = Popped(ring)
    /\ ring_out' = <<ring.data[ring.tail]>>

\* A write pushes until a push fails, a read pops until a pop fails.  A turn after
\* the failing one would fail as well.
PushOnto(r, value) == IF CanPush(r) THEN Pushed(r, value) ELSE r

PushLoop(r, data) ==
    LET turn[k \in 0 .. Len(data)] == IF k = 0 THEN r ELSE PushOnto(turn[k - 1], data[k])
    IN  turn[Len(data)]

ring_buf_write(data) == ring' = PushLoop(ring, data) /\ UNCHANGED ring_out

PopOnto(s) ==
    IF CanPop(s.r) THEN [r |-> Popped(s.r), got |-> Append(s.got, s.r.data[s.r.tail])] ELSE s

PopLoop(r, length) ==
    LET turn[k \in 0 .. length] ==
            IF k = 0 THEN [r |-> r, got |-> << >>] ELSE PopOnto(turn[k - 1])
    IN  turn[length]

ring_buf_read(length) ==
    ring' = PopLoop(ring, length).r /\ ring_out' = PopLoop(ring, length).got

RingData == UNION {[1 .. n -> RingBytes] : n \in 0 .. MaxLength}

RingNext ==
    \/ \E n \in RingCapacities : ring_buf_init(n)
    \/ ring_buf_reset
    \/ \E value \in RingBytes : ring_buf_push(value)
    \/ ring_buf_pop
    \/ \E data \in RingData : ring_buf_write(data)
    \/ \E length \in 0 .. MaxLength : ring_buf_read(length)

RingSpec == RingInit /\ [][RingNext]_ringVars

-----------------------------------------------------------------------------
\* The bytes in the ring, oldest first.
RingContents == [i \in 1 .. ring.count |-> ring.data[(ring.tail + i - 1) % ring.capacity]]

\* head is always count places after tail, going round, ring_buf_space never
\* wraps below zero, and a byte of the storage's former life is never among the
\* contents, also after a reset of a ring in use (ring_buf_reset, ring_buf_push).
RingSound ==
    /\ ring.count \in 0 .. ring.capacity /\ ring_buf_space(ring) >= 0
    /\ ring.data # << >> =>
          /\ ring.tail \in 0 .. ring.capacity - 1
          /\ ring.head = (ring.tail + ring.count) % ring.capacity
    /\ RingContents \in Seq(RingBytes) /\ ring_out \in Seq(RingBytes)

RingPromise == INSTANCE Fifo WITH items <- RingContents, room <- ring.capacity, taken <- ring_out

\* The ring is a bounded first-in first-out queue for any mix of single and
\* block operations (ring_buf_push, ring_buf_pop, ring_buf_write, ring_buf_read).
RingIsFifo == RingPromise!FifoSpec /\ []RingSound

\* The pipe and the ring buffer hand on what was put in, in order (pipe_read,
\* ring_buf_read).
BytesAreFifo == PipeIsFifo /\ RingIsFifo
===============================================================================
