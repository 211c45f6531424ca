# A TLA+ model of nv0ken

nv0ken is a small x86_64 operating system in C: a kernel with memory management,
cooperative threads, processes, interrupts, inter-process communication, a
network stack and a file system in memory; a graphics stack of compositor, window
manager, desktop, widgets and applications; and a userland of init, shell, C
library and utilities. This directory models its stateful parts in TLA+, checks
them with TLC on small instances, and proves the properties that matter most with
TLAPS for every size.

Everything is translated from the C source. `PROJECT.json` maps each definition
to the lines it stands for, lists the hazards the code is exposed to with the
properties that would catch them, and names a plausible bug for each property
that the property is known to detect. The map is kept at the granularity of the
source's functions and types: a helper that names part of what a listed definition
already stands for has no entry of its own.

## How the system runs, and what that means for the models

* System calls run with the interrupt flag cleared (`MSR_SFMASK`, syscall.c:40)
  and nothing preempts the kernel: `scheduler_yield` only moves the current
  thread pointer. A system call handler is therefore **one atomic step**.
* Interrupt handlers are reached through interrupt gates, so a handler is one
  step too. It can run between any two memory or port accesses of kernel code
  that runs with the flag set: the monitor, its line input and its log output.
  These are modelled **at the granularity of their accesses** (`Console`).
* Semaphore, mutex, condition variable and spin lock use atomic operations. Only
  the mutex has callers, the pipes and the message queues, which run inside system
  calls. All are modelled at the granularity of those operations, for callers that
  run concurrently (`Ipc`, `Locks`).
* Processes interleave at system calls. The window protocol, whose two ends are
  two processes, is modelled **at the granularity of its reads and writes**
  (`WindowProtocol`), the browser's client at that of its socket calls
  (`Browser`), init at that of its forks and waits (`InitProcess`).
* `waitpid` does not wait: the kernel reports a zombie or an error at once, looks
  neither at the options nor at the parent, takes -1 for a process number, and
  hands over the bare exit code as the status word, which the macros of `wait.h`
  take apart as if the code were in the second byte. init and the shell are
  modelled over that call.
* `fork`, `execve`, `rename`, `symlink`, `chmod`, `send` and `recv` have no handler
  in the kernel. init and the shell are modelled with a `fork` that may fail; the
  file manager with a `rename` that always does.
* The other graphics parts and the applications are single-threaded. Their
  handlers are steps; the order in which they are called is arbitrary.

## The parts and their modules

| part of the system | source | module | abstract specification |
|---|---|---|---|
| kernel heap | kernel/mm/heap.c | `Heap` | `Allocator` |
| frame allocator, memory map, boot order | kernel/mm/pmm.c, mmap.c, lib/bitmap.c, main.c | `Pmm` | |
| page tables, program images, shared memory | kernel/mm/vmm.c, proc/elf_loader.c, ipc/shm.c and its calls | `AddressSpace` | |
| slab cache, hash table, path strings | kernel/mm/slab.c, lib/hashmap.c, fs/path.c | `KernelLib` | a function for the table (in the module) |
| threads and run queue | kernel/proc/thread.c, scheduler.c | `Scheduler` | `RunQueue` |
| processes, exec, exit, wait | kernel/proc/process.c, exec.c, wait.c, syscall_handlers.c | `Processes` (on `Scheduler`) | |
| interrupt controllers, handlers, timer, sleeping; signals; mouse packets | kernel/arch/x86_64/pic.c, irq.c, drivers/timer.c, mouse.c, ipc/signal.c | `Interrupts` | |
| mutex, condition variable, spin lock | kernel/ipc/mutex.c, condvar.c, lib/spinlock.c | `Locks` | |
| message queue | kernel/ipc/msgqueue.c | `Ipc` | `Fifo` |
| semaphore | kernel/ipc/semaphore.c | `Ipc` | `Counting` |
| pipe, ring buffer | kernel/ipc/pipe.c, lib/ring_buf.c | `ByteBuffers` | `Fifo` |
| keyboard, console input, kernel log and dmesg | kernel/drivers/keyboard.c, console.c, lib/klog.c, monitor.c | `Console` | |
| network stack | kernel/net/* | `Network` | |
| file tree, files, descriptors, initrd | kernel/fs/*, file calls of syscall_handlers.c | `Files` | |
| compositor, window manager | graphics/server/compositor.c, wm/wm.c | `WindowManager` | |
| drawing, clipping, damage, cursor, blits | graphics/draw/draw.c, clip.c, server/damage.c, cursor.c, surface.c | `Drawing` (on `WindowManager`) | the point sets of the shapes (in the module) |
| window protocol, both ends | graphics/server/ipc_server.c, libnv0/src/ipc.c | `WindowProtocol` | |
| keyboard, pointer and timers of the server; windows and event dispatch of an application | graphics/server/event_loop.c, libnv0/src/window.c, app.c | `GuiEvents` | |
| desktop, taskbar, launcher, notifications | graphics/desktop/* | `Desktop` | |
| widgets | graphics/widgets/* | `Widgets` | |
| text editor: buffer, keys, commands | apps/text_editor/buffer.c, main.c, editor.c | `TextEditor` | the recorded edits (in the module) |
| highlighting | apps/text_editor/syntax.c | `TextEditor` | |
| terminal emulator | apps/terminal/vt100.c, main.c | `Vt100` | |
| file manager | apps/file_manager/* | `FileManager` | |
| browser: HTTP client, address bar and history | apps/browser/http_client.c, main.c | `Browser` | |
| browser: HTML and its layout | apps/browser/html_parser.c, renderer.c | `WebPage` | the tree a page was written from |
| calculator | apps/calculator/main.c | `Calculator` | exact arithmetic (in the module) |
| init | userland/init/* | `InitProcess` | |
| shell, line editor | userland/shell/* | `Shell` | |
| heap of the C library | userland/libc/src/stdlib.c, unistd.c, sys_brk | `Malloc` | `Allocator` |

State and actions keep the
names of the code. The choices that need a word:

* **Heap.** `blocks` is the memory the headers live in, from the offset of a
  header to its fields; splitting adds a header, merging removes one. Size
  arithmetic keeps both widths: `~15u` is a 32-bit mask applied to a 64-bit size.
  What `kcalloc` clears and `krealloc` copies is as long as what was asked for, so
  after a request of 4 GiB or more it may run over the headers behind the block:
  the step sets `overrun`, and the behaviour ends there.
  Clients pass live pointers, NULL or pointers outside the arena.
* **Malloc.** The blocks of the libc heap with the kernel's break below them.
  `sbrk` is its two system calls. Callers free and resize what they hold, and ask
  for less than half the address space or for a product that overflows.
* **Pmm.** The boot sequence (regions, low memory, kernel, module, frame 0) is
  part of the machine; the map from the firmware is a constant set.
* **AddressSpace.** Tables are functions from frame to entries; frames run out, so a
  walk can stop after hanging in some of its tables. A page of two mebibytes that
  somebody else mapped lies on one of the paths.
* **Scheduler.** A thread is an address, and an address freed may be used again
  while a list still leads to it. A walk along a circular list sets `hung`.
  `ClientNext` is a caller that keeps the contract; `Processes` is the caller the
  kernel really has.
* **Interrupts.** Masks, latched requests and services of both controllers with
  the cascade, one action per dispatch, and the two kinds of sleep: in kernel
  code with the flag set, and in a system call with the flag clear.
* **Console.** One action per access. The keyboard handler interleaves;
  what an interleaving can lose or repeat is recorded in history variables, so
  that the properties say exactly what remains true.
* **Locks.** One action per load, store and swap. Because every caller records
  the same owner, the mutex counts and does not exclude; the properties say what
  each lock does guarantee.
* **Network.** The tables are sequences of slots; a frame is a record of the
  fields its receiver looks at. Checksums are computed with a smaller byte and
  stored in the machine's order, as the code does.
* **Files.** Path strings become component sequences in `KernelLib`; `Files`
  starts from those. There is one descriptor table for the whole system, as in the code.
  Long names are cut when stored and compared uncut when created, as in the code.
  Offsets and sizes reach the wrap of the capacity's doubling and of the heap's low
  half; `wrecked` records an overrun or a loop without end, and the behaviour ends.
* **WindowManager.** Every C function is an operator from the record
  of the component to its next value, because the handlers call one another and
  the window manager calls the compositor; an action is one call from outside.
  Pixels are abstracted to what they show. No program of the repository starts
  the window manager yet: it is modelled as the library it is. The same form is
  used for the desktop, the widgets and the applications.
* **WindowProtocol.** The endpoints are the kernel's ordinary files with their
  offsets, not FIFOs; a poll of the server reads, parses what is complete and
  keeps the rest.
* **TextEditor.** The buffer's functions are operators
  from record to record; an action is one key, mouse press, dialog or command.
  The gap is kept, its bytes are a value that must never be read. What the
  recorded edits mean on a plain sequence (`Replayed`) is defined apart from the
  gap buffer. `editor.c` has no caller in the repository; its commands run on
  the same buffer. Memory for 0 to 3 allocations is left at any moment (`heap`), so
  each failure path of `undo_push` is taken; the commands of `editor.c` run with
  memory enough. A file may shrink while it is loaded (`torn`). Behaviours stop
  where a record or a byte that nobody wrote has been read or freed (`wild`).
* **Vt100.** `Fed` is one turn of the loop of `vt100_feed`, with parser and
  screen; a read from the shell is a fold of it over any chunk of bytes.
* **FileManager.** The disk is a function from paths to contents, with the order in
  which the kernel lists a directory; `mkdir`, `creat`, `unlink` and the reading of
  directories are the kernel's. Any file may be unreadable or not take all bytes.
* **Browser.** `http_client.c` has two builds. On the sockets of POSIX the network
  delivers a response in pieces of any size, may lose the connection after any of
  them, and may fall silent. In the kernel build (`NV0KEN_KERNEL`, the one the
  Makefile makes) the number of a socket, of which no data comes or goes, is passed
  to `write`, `read` and `close` as a file descriptor: what happens depends on the
  descriptors that are open, of which three tables are tried. Address bar, links
  and history are checked with pages as the first build fetches them.
* **Calculator.** The C library's `vsnprintf` has no `g`: a value that is not whole
  is shown as the text "%g" and read back as 0. Fractions are typed in multiples
  of 1/8, which a double holds exactly, so that no rounding decides what is whole.
* **WebPage.** The tokenizer and the tree builder run character by character on a
  source; a page written from a tree must be read as that tree. The layout is the
  sequence of words and boxes with their places; glyphs have one width.
* **Highlighting** (`TextEditor`). One rule table per language, one scan per row, and the state that a
  paint carries from row to row, recomputed where the code recomputes it.
* **Drawing.** A drawing call is the sequence of pixels it paints, so that one
  painted twice counts twice; a copied pixel is the place it comes from; colours
  are not told apart. Clip stack, damage tracker and
  cursor are the records of their files.
* **Shell.** A line is a sequence of characters, where a word whose letters do
  not matter is one character; programs succeed, fail, still run when they are
  waited for, cannot be started, or end with a code that reads as a stop. A status
  word that no call has set is arbitrary.
* **InitProcess.** A service is a process that may end at any moment; `boot_wait`
  passes whether it has ended or not. `wait` finds the youngest zombie.
* **Desktop.** `stale` counts by how many places the icon of a kept index has moved
  up since. The launcher keeps the number of rows its panel was made for.

## Runs

One MC module covers the components of one area. Components of an area that
share no state are put side by side: a variable `component` picks the one a
behaviour exercises, so their state spaces add up and do not multiply. Several
properties of an MC module are conjunctions of the properties its component
modules state and comment one by one.

| run | what it asks |
|---|---|
| `kernel` | Is the kernel's block list always a tiling of the arena without free neighbours (`HeapSound`), are the statistics exact and does a grant cover the request (`HeapExact`), is the heap an allocator (`ImplementsAllocator`), all three up to the first write past a block? Are the frame counter and the bitmap one (`PmmSound`), is only ordinary memory handed out (`OnlyOrdinaryMemory`), is no frame lost (`FramesConserved`)? Do the page tables map what was mapped, even after running out of frames, does the slab cache hand nothing out twice, is the hash table a partial function, are exactly the sound images loaded, is attached shared memory always backed (`TablesExact`)? Is no process lost or listed twice, does no main thread belong to two, does a zombie never become runnable (`ProcessesSound`)? Is the tree a tree, listed entry by entry when nothing changes, does a file hold the last bytes written and zeroes elsewhere, and is it only a size of half the heap's wrap or more that can overrun memory or hang, is normalisation correct on every short string and bounded (`FilesExact`)? Do `kcalloc` and `krealloc` write past a block only after a request of nearly 4 GiB or more, is each exit reported once with its code, does the initrd load completely or report failure (`NoLossyStep`)? |
| `control` | Does the linked run queue stay a list (`QueueSound`) and implement round robin (`ImplementsRoundRobin`)? Does everybody get a turn while nobody joins or leaves, is a request whose way is open served, does a kernel sleep end, does the dispatch loop let SIGKILL and SIGSTOP through and end (`ControlServes`)? Are both controllers left clean after each dispatch, is no signal lost, does the spin lock exclude (`ControlSound`)? Does the mouse driver find its packets again after lost bytes (`MouseRecovers`)? Do the calls on a mutex return once the others call no more, and is no signal of a condition variable missed (`LocksServe`)? |
| `streams` | Are queue, pipe and ring bounded FIFO queues (`QueueIsFifo`, `BytesAreFifo`, `MsgQueueSound`), with no byte accepted by a pipe whose reader has closed; is the semaphore atomic and in range (`ImplementsCounting`, `CountInRange`)? What do the console ring, the polling reader, the log and dmesg guarantee when the keyboard handler may run anywhere (`InputAndLogExact`)? Are the network's tables, sockets and packet builders exact at their limits (`StackExact`)? |
| `graphics` | Is everything outside the damage list current on the screen, does drawing stay in the clip, is no damage forgotten, is the cursor where and what it should be, do shapes and copies touch exactly their pixels (`ScreenExact`)? Do the window table, the focus and what clients were told agree (`WindowsSound`), does dragging one edge leave the opposite one in place (`EdgeAnchored`)? |
| `applications` | Does the gap buffer hold what the recorded edits make of the opened text, through undo, redo, paste and replace, with records that could not be kept, is an unmodified buffer what its file holds, do comments toggle, moved lines survive and brackets match mutually, are the rows in view coloured as their text and the lines above say (`EditorExact`)? Do the terminal's cursor, region, parser and ring stay consistent for any bytes in any chunks, does text wrap and scroll without loss, is what is copied what is shown as selected, without the top bit (`TerminalExact`), do scrolls stay in their region (`RegionKept`)? Do the file manager's operations lose no file when a step fails, and when does a delete reach everything (`FilesSafe`)? Do text box and text area keep cursor, selection, view and undo in step with the text (`TextWidgetsSound`), do list, scroll bar, controls, menus and the focus agree (`ToolkitSound`)? |
| `userland` | Does init start its services in order and lose none; does the shell stop a list where its operators say, tell success from failure, number its jobs, match and group words as written; does the line editor return what it shows; does the C library's heap stay whole (`ConsoleSound`) and implement the allocator (`UserHeapIsAllocator`)? Do messages of an application arrive whole, once and in order (`ProtocolSound`)? Are keys, pointer, timers and window events told as they happened (`EventsFaithful`)? Do desktop, taskbar, launcher and notifications act on what they show, by how much are the desktop's indices off after a delete, when do the launcher's rows leave its panel, is the calendar right (`ShellSurfacesSound`)? Is a fetched page the one asked for, through redirects, chunks and lost connections, and which descriptors does the kernel build touch; do address bar and history go with the page shown; is a page read as the tree it was written from, and laid out in order, with links that lead where they say (`BrowserExact`)? Does the calculator show the result of what was entered, where it can write it (`CalculatorExact`)? Does a respawn service that ended come back, unless younger children end again and again before it is found; does a fetch end or wait for a silent peer or the keyboard; does a notification leave (`UserlandGoesOn`)? |

Six further runs show where code and documentation part; each violates the
property that states the documentation's line (see `findings`):

| run | what it shows |
|---|---|
| `scheduler_round_robin` | threads that leave and rejoin can keep a ready thread at the front of the queue from ever running |
| `mouse_interrupt` | the master's cascade input stays masked: the mouse line is never served |
| `nanosleep` | a sleep inside a system call waits for ticks that cannot come |
| `exit_terminates` | `sys_exit` returns to the process that exited |
| `dup2_redirects` | writes to descriptors 1 and 2 reach the console whatever `dup2` put there |
| `window_connection` | an application whose `nv_ipc_connect` succeeded may never enter the server's table |

## Bounds

| run | bounds | why they are enough |
|---|---|---|
| `kernel` | heap: arena 18 bytes, header 2, granularity 2, 32-bit wrap at 16 and 64-bit wrap at 32; 9 frames of 2 bytes, 6 maps; page tables of 2 entries, 5 frames for them, 5 pages; 3 slab objects; 4 keys in 2 buckets, room for 3; images of up to 2 segments in 4 file sizes; 2 processes beside the first, 2 thread addresses; 2 segment places, 3 ids; 5 nodes, 5 descriptors, file capacity 3, capacities of 6 bits of which the heap sees 4; strings up to 7 characters into a buffer of 5 | room for four blocks, so a merge has neighbours on both sides and more beyond; requests on both sides of both wraps; maps with unaligned borders, empty entries, holes, regions past the bitmap and more entries than the table holds, and no map (the regions of one map are disjoint, as the boot protocols promise: `MapsDisjoint`); pages that share all, some or none of their tables, and fewer frames than all of them need; keys with equal hashes and with equal buckets; parent, child and stranger; addresses and places are reused; directories two deep, files that grow, an offset and a size past the heap's wrap, every string that reaches the buffer's edge |
| `control` | 3 threads; lines 0, 2, 11, 12; 2 ticks; signals 0 to 5, 2 sends; 3 packets, 2 lost bytes; 2 threads and 2 locking calls | one thread before, at and after the cursor; one line of the master, the cascade, two of the slave; packets whose data bytes look like a first byte; a thread that unlocks between another's test and swap |
| `streams` | capacities 0, 1, 2, 3; operations up to 4 bytes; 3 threads, limits −1 to 2; console ring of 3, 4 presses; log of 3, chunk of 2, 6 bytes; network tables of 2 for 3 hosts and ports | one slot (head = tail always), a wrap in the middle of an operation, an operation larger than the buffer; a thread that loses its swap to two others; every ring and table fills, wraps or refuses |
| `graphics` | 3 surfaces, damage list of 2, 2 calls on surfaces between creations and composites; 2 windows at a time, 3 in all, 5 calls or mouse events; a canvas of 7 by 7, clip stack of 3, damage tracker of 2, 5 calls on each; a cursor of 2 by 2; about 2,000 drawing calls | the list merges and overflows; a surface passes two others; create, press, drag, release and one call in between; stack and tracker run full; shapes lie in, across and off the canvas, flat and empty ones included |
| `applications` | gap of 2, 12 characters, 2 undo records, 4 events; screen of 2 by 3, ring of 2, 2 parameters, strings of 2; 4 bytes, or 3 whole sequences on a full screen, or 7 pieces of text; a tree of 5 names, 4 events; text box of 3 characters; text area of up to 4 lines, 3 events; 4 items with 2 in view; 3 widgets, 3 ranges, a menu of 6; every line of up to 3 or 4 of the characters a language tells apart, in C and JavaScript under every line of up to 3 | the gap moves, grows and is refused; memory for none, one, two or all of what an edit allocates; undo, redo and a new edit in every order; a sequence cut anywhere; the ring wraps; regions at the top and the bottom; directories copied onto files and into others; views smaller than what they show; separators at the top and in the middle of a menu |
| `userland` | 3 inittabs, 7 processes; 10 lines, 2 of them in a row, 4 behaviours of the programs, exit codes 0, 1, 127, 128 and 256; 6 keys into a line of 3; 2 applications, a receive buffer of 3, 2 messages each; 3 icons, 4 events; 2 task buttons for 3 windows, 13 days around ends of months and leap years; 2 notifications; 2 redirects, pieces of up to 3, 5 sockets, 3 tables of open descriptors and 5 fetches; 4 sites, a history of 3, 6 visits; every source of up to 4 of 9 characters and about 300 written trees; 5 keys; an address space of 32 bytes with 4 request sizes | every table fills and refuses; messages that fit, do not fit with their header, and are answered; pages that redirect to others and to themselves; sockets whose number is the keyboard, the console, an open or no descriptor; a merge has neighbours on both sides and the break passes the middle of the address space |

Deadlock is not checked in `kernel`, `graphics`, `applications` and `userland`,
where the bounds on identifiers, calls and events end a behaviour. The bounds
`TreeBound` and `DataBound` (`MCKernel`) are guards of the next-state relation: one
open descriptor while the tree is built, two while files are read and written.

Symmetry is used only for the threads of the semaphore (`streams`), which checks no
liveness.

## Fairness

* `WF(scheduler_yield)`: the kernel's threads yield again and again; that is the
  only way control changes hands.
* `WF(Raise)` of the timer line: the interval timer is programmed at boot and
  never stopped. Other devices owe no interrupts.
* `SF(irq_dispatch)` of each line: the flag is set and cleared as system calls
  come and go, and the processor takes a pending request at the first
  instruction boundary with the flag set, so a request that is deliverable again
  and again is taken.
* `WF(sysret)`, `WF(sleep_over)`: a system call that can return does, and a
  sleep loop whose condition has become false leaves.
* `WF(dispatch_next)`, `WF(handler_return)`: the dispatch loop goes on and
  handlers return.
* `WF(LockStep(t))` of each thread: the lock calls spin and never sleep, so a
  thread inside one goes on. Calling a lock is owed by nobody.
* `WF(InitStep)`: init is one loop that never stops. Nothing is assumed of its
  services.
* `WF(HttpCall)`: the browser goes on with its calls. That a peer answers is not
  assumed: `peer_silent` may end a fetch in a call that does not return, as a read
  of the keyboard may in the kernel build.
* `WF(notif_tick)`: the frames, hence the ticks, keep coming.
* `WF(ServerStep)`, `WF(AppStep(c))` (`window_connection` only): the server polls
  and an application that has begun to connect goes on.

Nothing is assumed of users, senders or other callers.

## Proofs

Eight modules hold the theorems: `HeapProofs`, `PmmIpcProofs` (frames, message
queue, semaphore), `MallocProofs`, `SchedulerProofs`, `ProcessProofs`,
`ControlProofs`, `ConsoleProofs` (console input, log) and `ByteProofs` (pipe, ring). They hold for every value of
the constants that satisfies the named assumptions of the component's module; TLC
evaluates those assumptions in the runs.

* **Heap** (`HeapSafety`, `HeapImplementsAllocator`). From `HeapConstants` alone,
  for all states up to the step that sets `overrun`.
  The tiling property is not inductive: merging reads the links of both
  neighbours, so the induction carries well-formed links in both directions, the
  pairwise disjointness of blocks and the absence of free neighbours. `kfree` and
  `krealloc` go through block lists that are no state of the system (after the
  split, after the first merge), so the lemmas are stated about block lists:
  `SplitWF`, `MergeWF`, `TakenWF` and `FreedWF`, then one step lemma per call.
  That everything freed is one block again follows from the invariant
  (`InvWholeAgain`). For the refinement, the live regions are the payloads of
  blocks that are not free; taking a block allocates, freeing one releases.
* **Books of the heap** (`HeapBooksBalance`, `HeapWritesFit`, `HeapKeepsPromise`). From `HeapConstants`
  and `HeapAlignment`. `LedgerInv` goes beside the tiling: the used counter is the
  payload of the live blocks, headers and payloads fill the arena, borders are
  aligned. A sum over the blocks is a fold, for which the provers have no induction
  principle; the first lemmas replace it by a table of partial sums and derive
  what adding, removing and changing one summand does. Split and merge then leave the arena's
  total alone, and only taking and freeing move the counter. That the block
  `krealloc` moves to is larger than the one it copies from follows from the
  rounding and the test that rejected growing in place, and that `kcalloc` clears
  no more than it was granted from the rounding alone; both hold for requests up to
  2^32 - 16 only (`HeapWritesFit`). So callers that ask for no more, and for no
  larger product, have an allocator without reservation (`HeapKeepsPromise`).
* **Frames** (`PmmSafety`, `PmmOnlyOrdinaryMemory`, `PmmConservesFrames`). From
  `PmmConstants` and `MapsDisjoint`. The invariant `PmmInv` describes each stage of
  the boot: which regions have been marked, that the counter is the number of clear
  bits, and which frames can be clear at that point. Cardinality facts (`CountSet`,
  `CountCleared`) carry the counter through every marking.
* **Run queue** (`QueueSafety`, `QueueRefinement`). From `SchedulerConstants`.
  `SchedInv` names a sequence without repetition that the links spell out; threads
  off it that are allocated have a null link, only the current thread runs, and the
  current thread is on the list or null. Adding appends to that sequence, removing
  cuts one element out, and `pick_next` finds the first runnable element after the
  cursor, which is the step of the abstract line.
* **Processes** (`ProcessSafety`, `ProcessesReported`). From `ProcessConstants` and
  `SchedulerConstants`. `ProcInv` adds to `ProcessesSound` that the pids on the list
  and the pids already reported are below `next_pid`; without that a new process
  could take the pid of an old one. The processes free threads that are still
  queued, so the run queue's invariant is not available: the proof uses only what
  every scheduler step does to thread states, from any list.
* **Interrupts, signals, mouse, locks** (`ControlIsSound`, `ControlQueueSound`,
  `ControlImplementsRoundRobin`, `MouseResynchronises`, `KillIsDelivered`). About
  the composition the `control` run checks. `PicInv`: nothing is in service between
  dispatches, and a line is unmasked exactly when it has a handler. `SignalInv`:
  SIGKILL and SIGSTOP are never blocked. `MouseInv`: the driver is in step until
  the first loss and again after a finished packet that cannot be mistaken, and it
  is never at the second byte when the last byte of such a packet is due.
  `SpinInv`: the lock word is 1 while somebody is inside, and at most one is.
* **Message queue** (`MsgQueueSafety`, `MsgQueueImplementsFifo`). The tail is
  always `count` slots after the head, going round; under that, the ring read
  from the head is the abstract queue, a send appends and a receive takes the
  first.
* **Semaphore** (`SemaphoreCountInRange`, `SemaphoreImplementsCounting`). A
  successful swap is the atomic step; a load that decides the call by itself (an
  empty semaphore, a full one) is its own atomic step; everything else stutters.
* **Pipe and ring buffer** (`BytesKeepOrder`). From `PipeConstants` and
  `RingBufConstants`. The copying loops are recursive functions of the number of
  turns taken. `PipeInv` and `RingInv` place the write index `size` slots after the
  read index and say that those slots hold written bytes; the loop lemmas say that
  a turn appends one byte to what is held, or takes its first, so that a whole call
  appends or takes a run of bytes.
* **Console and log** (`ConsoleAndLogSafety`). From `ConsoleConstants` and
  `KlogConstants`. `InputInv` relates the ring to the line typed at every access of
  `console_read`; that a press is handed out once needs the numbers of the presses:
  those in the ring increase, differ from those handed out, and none is later than
  the last byte read from the port. `LogInv` says what the log looks like between
  the accesses of `klog_putc`, in particular when the oldest byte has been
  overwritten and the start has not moved yet (`PutInv`), and that dmesg has shown a
  prefix of the log it began with (`ReplayInv`). What the history variables
  `raced`, `stale`, `torn` and `keyed` record are the windows in which the code
  guarantees less.
* **C library heap** (`UserHeapSafety`, `UserHeapImplementsAllocator`). From
  `MallocConstants`. That the blocks tile what `sbrk` gave is inductive only
  together with where the break may be: a granted block ends at the break, the
  break never falls below its first value, and while the heap is empty and the
  break in the lower half, it is still there (the first request may have moved it
  past the middle, after which nothing is granted). `free` walks the whole list
  and merges as it goes; the walk is one function over the chain, and its lemmas
  say that a merge keeps the chain, the tiling and everybody's payload.

Only model-checked:

* liveness (`ControlServes`, `LocksServe`, `UserlandGoesOn`): the prover has neither
  fairness nor `ENABLED`;
* path normalisation, the hash table, page walks and image loading (`FilesExact`,
  `TablesExact`), and the terminal, the text editor, the shell's grammar and the
  HTML parser: what they promise is what a fold over a string, a list or a tree
  computes for every input, where the prover has no induction to offer (`Shell`,
  `WebPage`, `Widgets` and `FileManager` also declare recursive operators, which
  shut out its arithmetic);
* the loading of the initrd, the third conjunct of `NoLossyStep` (the other two are
  `HeapWritesFit` and `ProcessesReported`);
* the safety invariants of network, graphics, window protocol, desktop, browser,
  calculator and init, which no theorem states yet. Their tables are small in the
  code too, and the runs fill each of them.

## Where the code does not do what one might expect

Beside the six runs above, modelling met the following. None is hidden by the
models: they contain the behaviour, and the properties are stated so as to be
true of it. "Bounded out" marks what a guard keeps the behaviours away from.

**Kernel memory.**
* Heap sizes of 4 GiB and more are granted by their low 32 bits only, and those just
  below are rounded up to 0. `kcalloc` then clears, and `krealloc` copies, the full
  size, over whatever follows; a `shmget` of such a size does. The properties of
  the heap speak of the time before that.
* The no-execute bit of an entry is part of what `vmm_virt_to_phys` returns;
  intermediate tables keep the user permission of the first mapping that made
  them; pages of one gibibyte are not recognised.
* The ELF loader checks and reports an entry point; it copies no segment.
* `process_break` is one variable for all programs (one program is modelled), and
  `sys_brk` grants and stores every address before anyone looks: after a request
  that passes the middle of the address space every later `sbrk` fails and only
  free blocks are reused. Sizes of 2^63 and more are negative increments that move
  the break down (bounded out). Blocks are never split.

**Processes, signals, locks, console.**
* `process_destroy` frees a thread that is still on the run queue; the next
  thread at that address inherits the links.
* `sys_waitpid` never waits, looks at no option, and does not check that the process
  is a child; and nothing gives an
  orphan a new parent, so `sys_wait` never finds an orphan's zombie.
* `sys_shmdt` looks only at identifiers below 1024.
* The mutex's owner token is 1 for everybody: a mutex held by one thread looks
  like a recursive lock to every other one.
* A backspace in the keyboard handler between the test and the use in
  `console_read` yields a stale character; handler and polling reader can both
  take one key press; an echo inside `klog_putc` drops or repeats a byte; dmesg
  skips a byte when the log moves on between two chunks, although
  docs/debugging.md says it will replay the log.

**Files and network.**
* Names of `VFS_NAME_MAX` characters and more are cut when stored and compared
  uncut before, so two equal long names can exist side by side. A directory
  listing shifts when entries are added or removed between reads. A write far
  beyond the end, or a truncation to 4 GiB and more, makes `tmpfs` clear more than
  the heap granted; past the largest power of two the doubling of the capacity
  wraps to 0 and never ends. Truncating a
  file keeps the bytes it cuts off. Descriptors are shared by all processes,
  where docs/vfs_interface.md speaks of one table per process; `dup` copies the
  offset instead of sharing it.
* Checksums are stored in the machine's byte order, so they do not verify on the
  wire unless both bytes are equal, and none is verified on receipt. A full ARP table
  overwrites slot 0 and requests are not answered. `udp_bind` drops a binding
  silently when its table is full.

**Windows.**
* `compositor_create_surface` returns the identifier in the last slot after the
  sort: once a surface has been raised, every later caller is given that surface's
  identifier, so later windows share a surface. `compositor_raise_surface` and
  `compositor_lower_surface` damage the rectangle of whatever moved into the old
  place.
* Focusing a window raises its surfaces and not its depth in the window table,
  so what is seen on top and what the mouse hits can differ. A maximised window
  that is minimised and restored stays as large. Minimising the only window
  leaves its focus flag set and sends no message.
* The endpoints of the window protocol are regular files. Every client writes its
  pid at offset 0 of the rendezvous file and the server's read position moves on
  after the first, so one application is accepted per start of the server; an end
  of file makes the server drop a quiet client; replies land in the client's own
  input file; a message too large for the buffer drops the client; and the client
  unlinks both endpoints right after announcing itself (ipc.c:83). No main program
  runs the server or the event loop.
* Drawing: a push on a full clip stack is dropped while its pop removes another
  rectangle. The bounding box of a full damage tracker is empty. Moving or loading
  a cursor forgets a saved background; setting its type does not move its surface
  and shows a hidden cursor again; loaded pictures never reach that surface.
  `draw_line_thick` divides by the squared length, so thickness has no effect on
  lines longer than one pixel. `draw_rect` paints corners twice and a width of 0
  draws two vertical lines; discs paint some pixels up to three times; the outline
  of a rounded rectangle leaves the filled one, that of an ellipse may be one pixel
  wider; a flat triangle misses its third corner. `surface_blit_alpha` does not
  clip against the source and `draw_copy_region` clips nothing (bounded out).
* Left and right modifier keys share one bit, so releasing one releases both.
  Timer slots are never reused. A surface that could not be made on a resize is
  not tried again.

**Desktop.**
* The context menu's Delete and a refresh keep `selected_icon`, and the Delete key
  keeps the menu's target, as an index that may now mean another icon or none.
  The property states by how many places the index is off; once its icon is gone
  the index may reach past the table. The first click on icon 1 can count as a
  double click.
* The launcher's panel is sized by the list of the search it was closed with, before
  that search is forgotten: a longer list then runs off the panel, where a click
  closes the launcher instead of starting what is drawn. The taskbar's mark
  falls out of step when the launcher is closed otherwise; the hovered index
  survives a removal; with four buttons and more they overlap the tray.

**Widgets.**
* Text box: a replaced selection cannot be undone; paste and cut work on a
  read-only box; the view may begin beyond the text.
* Text area: dedent, delete line, undo and redo can leave the mark outside the
  text; several operations record no undo; setting the text keeps the old
  records; cut, paste and undo ignore read-only; at the line limit a newline tests
  the row and not the count (bounded out). A code point above 255 is stored by its
  low byte, which may be a newline or a zero inside a line. When the text is shorter
  than a page the bar can hand over a negative row, and what lies in memory before
  the lines is drawn.
* List: the bar's value is negative when there are fewer items than rows, and a
  fresh bar has range 100.
* Controls: pressing the centre of the slider's thumb moves the value; a control
  disabled while pressed misses the release; a key toggles a radio button off; a
  submenu hidden by its own click stays recorded as open; Enter ignores `enabled`.

**Editor and terminal.**
* In the editor, typing, tab and paste move the cursor twice (the insertion moves
  it already), so in the middle of a text the next character lands one too far.
  Opening an empty file keeps the old text under the new name; opening any file
  keeps the old undo records, which can then be redone. Edits do not move the
  mark. Moving the last line adds a newline. Beyond 256 edits the undo stack
  grows without initialising its new records, whose text pointers are then freed.
  Where memory for a record is missing the edit stands and cannot be undone, and the
  records before it no longer fit the text. A file that shrinks while it is
  loaded leaves uninitialised bytes in the buffer.
* Highlighting: Python strings of three quotes never span lines and stop two
  characters short of the end. A C string open at the end of a line goes on in the
  next one unless the line's last character is its quote. Tokens of makefiles
  overlap. The extension is looked for after the last dot of the whole path, and
  saving an untitled text does not look for one.
* In the terminal, "?" ends a control sequence, so private modes (cursor
  visibility, wrapping, the second screen) are never reached and the rest of
  their sequences is printed, although README.md:65 speaks of xterm. A leading
  separator does not count as an empty parameter. Scrolling by more than the
  region clears rows outside it; scrolling by n pushes the top line n times into
  the scrollback. A string longer than its buffer can no longer be ended by
  an escape and a backslash. A copy keeps the low seven bits of a character, and a
  character whose low seven bits are 0 cuts the text short. A line whose memory is
  missing is not kept in the scrollback.

**File manager, browser, calculator.**
* A copy pasted where it came from empties the file: the target is truncated
  before the source is read. Copying a directory into itself never ends (bounded
  out). An empty file "copied" onto a directory leaves no trace. `rename` has no
  handler in the kernel, so no move and no renaming succeeds, and the fallback for
  EXDEV is never reached. A recursive delete reads the directory by position while
  it removes entries: of several, every second one stays, and with it the
  directory. `mkdir` of what exists fails with EINVAL, so a directory is never
  merged into another. A cut clipboard is forgotten even when the move failed. A failed load
  keeps the new path with an empty list. The selection is an index kept over a
  refresh.
* A response cut off by a lost connection is reported as complete, since the
  content length is not used; an unfinished header line becomes body; after the
  last allowed redirect the redirect itself is returned; a redirected request
  carries no body; the timeout is not used, so a silent server keeps the browser
  waiting for ever. A chunk size near the top of `size_t` wraps where it is added to
  the position, and the copy runs past its buffers. The status that decides the method
  after a redirect is read from a freed response (either method is modelled).
  Port 443 on http and 80 on https are not written into a URL.
* In the kernel build no byte reaches the network: a request is written to the
  console or to whatever file has the socket's number as its descriptor, the answer
  is what that file holds behind it, descriptor 0 waits for the keyboard, closing
  the socket closes that file, and sockets are never given back.
* Going back visits the page anew and drops what was ahead; a back that fails has
  moved the position all the same. Relative links are resolved against the text of
  the address bar, and links that begin with "/" drop the port. The cursor of the
  address bar is stale after a redirect.
* HTML: CDATA is never reached, `<!-x` becomes the tag x, an unfinished comment
  leaves its last two characters as text, and `</a/>` makes an element. Layout: a
  `tr` directly under `table` is not laid out; every ordered item says "1."; the
  height of an image counts only when it fills the line; `pre` has no links; the
  bar of a quotation is placed after its indent has been taken back.
* A result that is not whole is shown as "%g", in the display and in the history, and
  counts as 0 in what follows. Backspace on "-1" leaves "-"; a point typed first after
  a result is lost; "=" on an error with a pending operator shows a number.

**init and shell.**
* init opens its log before /var/log exists; the arguments of a service point into
  a finished stack frame; shutdown services never run; a failed fork is not tried
  again. Boot services are not waited for. `wait` tells of the youngest child first,
  so one that ends again and again can keep an older one from being started again.
* The shell's operators nest to the right; `a & b` drops b; redirection signs do
  not end a word; quotes protect neither `$` nor `\`; aliases are kept and never
  used; `jobs`, `fg` and `bg` are not in the table of builtins, so `job_fg`, `job_bg` and
  `job_list` are never called; only the first
  match of a glob is used; a stopped pipeline is not entered as a job; `job_reap_all`
  asks for process -1 and so hears of nothing, and the table of jobs only fills; a
  command that has not ended when it is waited for has an arbitrary status; exit code
  127 enters a finished command as a stopped job, 128 reads as success and most others
  as 1; the children
  of a pipeline keep every end open; the history is never saved. The environment
  is always empty (`environ` is null and `setenv` adds nothing), so `export` has no
  effect and `$x` expands to nothing.

## Not modelled

The full inventory with a reason per part is in `PROJECT.json` (`components`).
Left out because there is no behaviour to get wrong in an order of calls:
descriptor tables and the context switch (straight-line assembly; the scheduler
never calls it), APIC, SMP and copy-on-write stubs, port I/O drivers without kept
state, string functions, the kernel's number formatting, one-pass utilities. Left out of
a modelled part: the messages the window server sends unasked (ipc_server.c:300),
a message length above the range of `int`, which the buffer's size excludes, setters
that only store a field (checkbox.c:49), and, but for the editor, the terminal's
scrollback and the heaps themselves, memory that runs out in the applications. Left out because
what they compute is arithmetic on pixel values, out of TLC's reach at a size that
means anything: fonts, image decoders, gradients and blending.
