----------------------------- MODULE AddressSpace -----------------------------
(* What is mapped where: page tables, a program's segments, shared memory.   *)
EXTENDS Integers, Sequences, SequencesExt, FiniteSetsExt, FiniteSets

-------------------------------------------------------------------------------
(***************************************************************************)
(* The virtual memory manager (kernel/mm/vmm.c): four levels of tables in  *)
(* physical frames.  Mapping a page takes frames for the missing tables    *)
(* one by one and may run out half way; tables are never given back.       *)
(*                                                                         *)
(* A virtual page is its four indices.  A frame holds Fan entries; frames  *)
(* not yet taken hold whatever was in them.  PAGE_MASK keeps bit 63, so    *)
(* the no-execute bit comes back with the address of a page.               *)
(***************************************************************************)

CONSTANTS
    TableFrames,   \* frames the physical memory manager can hand out
    Fan,           \* entries of a table
    TopTable,          \* frame of the top table
    VirtPages,     \* pages that callers map
    DataFrames,    \* frames they map them to
    HugePath       \* indices of a large page set up at boot, and its frames

ASSUME PagingConstants ==
    /\ TableFrames \subseteq Nat \ {0} /\ IsFiniteSet(TableFrames)
    /\ Fan \in Nat \ {0} /\ TopTable \in Nat \ (TableFrames \cup {0})
    /\ VirtPages \subseteq [1 .. 4 -> 0 .. Fan - 1]
    /\ DataFrames \cap (TableFrames \cup {TopTable}) = {}

VARIABLES
    tables,        \* content of the frames that can hold tables
    frames_left,   \* frames the physical memory manager still has
    mapping        \* history: what each page was last mapped to

pagingVars == <<tables, frames_left, mapping>>

Slots == 0 .. Fan - 1
Absent == [present |-> FALSE, huge |-> FALSE, user |-> FALSE, nx |-> FALSE, frame |-> 0]
Table(frame, user) == [present |-> TRUE, huge |-> FALSE, user |-> user, nx |-> FALSE, frame |-> frame]
Page(frame, flags) == [present |-> TRUE, huge |-> FALSE, user |-> flags.user, nx |-> flags.nx, frame |-> frame]

\* What an unused frame happens to hold: bytes that look like a mapping.
Leftover == [i \in Slots |-> Page(CHOOSE f \in DataFrames : TRUE, [user |-> TRUE, nx |-> FALSE])]
Empty == [i \in Slots |-> Absent]

\* The two tables above the large page exist from the start.
PagingInit ==
    /\ tables = [f \in TableFrames \cup {TopTable} \cup {HugePath.frames[1], HugePath.frames[2]} |->
            CASE f = TopTable -> [Empty EXCEPT ![HugePath.index[1]] = Table(HugePath.frames[1], FALSE)]
              [] f = HugePath.frames[1] -> [Empty EXCEPT ![HugePath.index[2]] = Table(HugePath.frames[2], FALSE)]
              [] f = HugePath.frames[2] -> [Empty EXCEPT ![HugePath.index[3]] =
                    [present |-> TRUE, huge |-> TRUE, user |-> FALSE, nx |-> FALSE, frame |-> HugePath.frames[3]]]
              [] OTHER -> Leftover]
    /\ frames_left = TableFrames
    /\ mapping = [v \in VirtPages |-> Absent]

\* The walk so far: memory, free frames, and the frame of the table reached (0
\* after a failure).
WalkFrom(frame) == [mem |-> tables, left |-> frames_left, table |-> frame]

\* Mutant of vmm_next_table: the new table is not hung in.
vmm_next_table_lost(w, index, user) ==
    LET entry == w.mem[w.table][index]
        frame == Min(w.left)
    IN  IF ~entry.present
        THEN IF w.left = {} THEN [w EXCEPT !.table = 0]
             ELSE [mem |-> [w.mem EXCEPT ![frame] = Empty],
                   left |-> w.left \ {frame}, table |-> frame]
        ELSE IF entry.huge THEN [w EXCEPT !.table = 0] ELSE [w EXCEPT !.table = entry.frame]

\* A missing table takes the lowest free frame (pmm_alloc_frame), is cleared and
\* hung in; a large page ends the walk.
vmm_next_table(w, index, user) ==
    LET entry == w.mem[w.table][index]
        frame == Min(w.left)
    IN  IF ~entry.present
        THEN IF w.left = {} THEN [w EXCEPT !.table = 0]
             ELSE [mem |-> [w.mem EXCEPT ![frame] = Empty, ![w.table][index] = Table(frame, user)],
                   left |-> w.left \ {frame}, table |-> frame]
        ELSE IF entry.huge THEN [w EXCEPT !.table = 0] ELSE [w EXCEPT !.table = entry.frame]

vmm_lookup_table(frame, index) ==
    LET entry == tables[frame][index]
    IN  IF ~entry.present \/ entry.huge THEN 0 ELSE entry.frame

\* The table of the last level for a page, making those that are missing.
Descend(v, user) ==
    FoldLeft(LAMBDA w, level : IF w.table = 0 THEN w ELSE vmm_next_table(w, v[level], user),
             WalkFrom(TopTable), <<1, 2, 3>>)

\* A failure keeps the tables made before it.
vmm_map_page(v, phys, flags) ==
    LET w == Descend(v, flags.user)
    IN  /\ frames_left' = w.left
        /\ IF w.table = 0
           THEN tables' = w.mem /\ UNCHANGED mapping
           ELSE /\ tables' = [w.mem EXCEPT ![w.table][v[4]] = Page(phys, flags)]
                /\ mapping' = [mapping EXCEPT ![v] = Page(phys, flags)]

vmm_unmap_page(v) ==
    LET pt == FoldLeft(LAMBDA f, level : IF f = 0 THEN 0 ELSE vmm_lookup_table(f, v[level]), TopTable, <<1, 2, 3>>)
    IN  /\ pt # 0 /\ tables[pt][v[4]].present
        /\ tables' = [tables EXCEPT ![pt][v[4]] = Absent]
        /\ mapping' = [mapping EXCEPT ![v] = Absent]
        /\ UNCHANGED frames_left

Nowhere == [frame |-> 0, nx |-> FALSE]

\* Large pages are expected at the third level only.
vmm_virt_to_phys(v) ==
    LET pml4e == tables[TopTable][v[1]]
        pdpte == tables[pml4e.frame][v[2]]
        pde == tables[pdpte.frame][v[3]]
        pte == tables[pde.frame][v[4]]
    IN  IF ~pml4e.present \/ ~pdpte.present \/ ~pde.present THEN Nowhere
        ELSE IF pde.huge THEN [frame |-> pde.frame + v[4], nx |-> pde.nx]
        ELSE IF ~pte.present THEN Nowhere
        ELSE [frame |-> pte.frame, nx |-> pte.nx]

PagingNext ==
    \/ \E v \in VirtPages, p \in DataFrames, u, x \in BOOLEAN : vmm_map_page(v, p, [user |-> u, nx |-> x])
    \/ \E v \in VirtPages : vmm_unmap_page(v)

\* Every page translates to what it was last mapped to, whatever tables were
\* made for others and however often mapping failed half way; the large page of
\* the boot loader keeps its frames.
Translates ==
    /\ \A v \in VirtPages :
          SubSeq(v, 1, 3) # HugePath.index =>
            vmm_virt_to_phys(v) = [frame |-> mapping[v].frame, nx |-> mapping[v].nx]
    /\ \A i \in Slots : vmm_virt_to_phys(Append(HugePath.index, i)).frame = HugePath.frames[3] + i

\* Tables in use, level by level.
Below(fs) == {tables[f][i].frame : f \in fs, i \in Slots} \cap DOMAIN tables
Level(n) == CASE n = 1 -> {TopTable} [] n = 2 -> Below({TopTable}) [] n = 3 -> Below(Below({TopTable}))
              [] OTHER -> Below(Below(Below({TopTable})))
InUse == UNION {Level(n) : n \in 1 .. 4}

\* The tables are a tree: levels do not meet, no table hangs in two places, none
\* is a frame that can still be handed out, and no frame is lost.
TablesAreATree ==
    /\ \A m, n \in 1 .. 4 : m # n => Level(m) \cap Level(n) = {}
    /\ \A f \in InUse \ {TopTable} :
          Cardinality({s \in InUse \X Slots : tables[s[1]][s[2]].present /\ tables[s[1]][s[2]].frame = f}) = 1
    /\ frames_left \cap InUse = {}
    /\ TableFrames = frames_left \cup (InUse \cap TableFrames)

\* A page that user code can reach (all four levels allow it) was mapped for it.
\* The converse does not hold: a table keeps the permission of the first page
\* mapped through it.
Reachable(v) ==
    LET f2 == tables[TopTable][v[1]].frame
        f3 == tables[f2][v[2]].frame
        f4 == tables[f3][v[3]].frame
    IN  /\ vmm_virt_to_phys(v) # Nowhere
        /\ tables[TopTable][v[1]].user /\ tables[f2][v[2]].user /\ tables[f3][v[3]].user /\ tables[f4][v[4]].user

UserAskedFor == \A v \in VirtPages : SubSeq(v, 1, 3) # HugePath.index /\ Reachable(v) => mapping[v].user

\* Address translation (vmm_map_page, vmm_unmap_page, vmm_virt_to_phys) is exact
\* after any sequence of calls, including ones that ran out of frames.
PagingExact == Translates /\ TablesAreATree /\ UserAskedFor

-------------------------------------------------------------------------------
(***************************************************************************)
(* What exec accepts (kernel/proc/elf_loader.c): the checks on an image    *)
(* and the address range computed from its segments.  The loader copies    *)
(* nothing; exec.c only takes the entry point.                             *)
(*                                                                         *)
(* The fields of the header that are compared with one constant are        *)
(* abstracted to ident_ok.  Addresses are unsigned and AddrMod wide.       *)
(***************************************************************************)

CONSTANTS
    Images,        \* images: size, ident_ok, phoff, entry, segments
    HeaderSize, SegmentSize,
    AddrMod        \* one more than UINTPTR_MAX

ASSUME ElfConstants == HeaderSize \in Nat /\ SegmentSize \in Nat \ {0} /\ AddrMod \in Nat \ {0}

VARIABLES image, loaded

elfVars == <<image, loaded>>

NotTried == [status |-> "none"]
NotLoaded == [status |-> "refused"]

ElfInit == image \in Images /\ loaded = NotTried

phnum == Len(image.segments)

\* All segment headers lie inside the image.
elf64_validate ==
    /\ image.size >= HeaderSize /\ image.ident_ok
    /\ phnum # 0 /\ image.phoff <= image.size
    /\ phnum <= (image.size - image.phoff) \div SegmentSize

\* Mutant of SegmentOk: the end of the segment in memory may wrap round.
SegmentOk_wraps(s) ==
    s.offset <= image.size /\ s.filesz <= image.size - s.offset /\ s.filesz <= s.memsz

SegmentOk(s) ==
    /\ s.offset <= image.size /\ s.filesz <= image.size - s.offset /\ s.filesz <= s.memsz
    /\ (s.vaddr + s.memsz) % AddrMod >= s.vaddr

\* The loop over the segments; it stops at the first bad one.
Scanned ==
    FoldLeft(LAMBDA r, s :
                IF ~r.ok \/ ~s.load THEN r
                ELSE IF ~SegmentOk(s) THEN [r EXCEPT !.ok = FALSE]
                ELSE IF s.memsz = 0 THEN r
                ELSE [r EXCEPT !.low = Min({@, s.vaddr}), !.high = Max({@, (s.vaddr + s.memsz) % AddrMod})],
             [ok |-> TRUE, low |-> AddrMod - 1, high |-> 0], image.segments)

elf_load_process ==
    /\ loaded' = IF elf64_validate /\ Scanned.ok /\ Scanned.low # AddrMod - 1
                    /\ image.entry >= Scanned.low /\ image.entry < Scanned.high
                 THEN [status |-> "loaded", entry |-> image.entry, low |-> Scanned.low, high |-> Scanned.high]
                 ELSE NotLoaded
    /\ UNCHANGED image

ElfNext == elf_load_process

\* The addresses a segment occupies, without the arithmetic of the machine.
Occupied(s) == s.vaddr .. s.vaddr + s.memsz - 1
AllOccupied == UNION {Occupied(s) : s \in {t \in Range(image.segments) : t.load}}

\* An image that is accepted has every segment header and every segment's bytes
\* inside the file, no segment that reaches past the address space, and an entry
\* point in the range reported, which is the smallest one around all segments;
\* and no image with all that is refused (elf64_validate, elf_load_process).
LoadsExactly ==
    LET good ==
            /\ image.ident_ok /\ image.size >= HeaderSize /\ image.segments # << >>
            /\ image.phoff + SegmentSize * phnum <= image.size
            /\ \A s \in Range(image.segments) : s.load =>
                  s.offset + s.filesz <= image.size /\ s.filesz <= s.memsz /\ s.vaddr + s.memsz < AddrMod
            /\ AllOccupied # {}
            /\ image.entry \in Min(AllOccupied) .. Max(AllOccupied)
    IN  loaded # NotTried =>
            loaded = IF good THEN [status |-> "loaded", entry |-> image.entry,
                                   low |-> Min(AllOccupied), high |-> Max(AllOccupied) + 1]
                     ELSE NotLoaded

-------------------------------------------------------------------------------
(***************************************************************************)
(* Shared memory (ipc/shm.c and the shmget, shmat and shmdt system calls): *)
(* a table of named, reference-counted segments.  A key stands for the     *)
(* name sys_shmget builds from it, one name per key of 32 bits.            *)
(***************************************************************************)

CONSTANTS
    SegmentSlots,        \* places in the table, 0 .. SHM_MAX_SEGMENTS - 1
    SegmentKeys,         \* keys passed to sys_shmget
    Blocks,       \* addresses kcalloc can return
    Callers,    \* the processes that call
    IdLimit,      \* sys_shmdt looks at the ids below this one (1024)
    MaxId,        \* bound on the ids given out in a behaviour
    MaxRefs       \* bound on the references of a segment

ASSUME ShmConstants ==
    /\ SegmentSlots \subseteq Nat /\ IdLimit \in Nat /\ MaxId \in Nat /\ MaxRefs \in Nat

VARIABLES
    segments,     \* the table
    next_id,
    mapped,       \* per process and address: times attached and not yet detached
    opens         \* per address: references taken by sys_shmget and not given back

shmVars == <<segments, next_id, mapped, opens>>

Free == [id |-> 0, key |-> "none", base |-> "NULL", refs |-> 0]

Used == {i \in SegmentSlots : segments[i].id # 0}

\* shm_init.
ShmInit ==
    /\ segments = [i \in SegmentSlots |-> Free]
    /\ next_id = 1
    /\ mapped = [p \in Callers |-> [b \in Blocks |-> 0]]
    /\ opens = [b \in Blocks |-> 0]

shm_find(key) == {i \in Used : segments[i].key = key}

\* The first place, in table order, of a set of places.
First(s) == CHOOSE i \in s : \A j \in s : i <= j

\* An existing segment gets one more reference, whatever size was asked for.
shm_create(key) ==
    \/ /\ shm_find(key) # {}
       /\ segments[First(shm_find(key))].refs < MaxRefs
       /\ segments' = [segments EXCEPT ![First(shm_find(key))].refs = @ + 1]
       /\ UNCHANGED next_id
    \/ /\ shm_find(key) = {}
       /\ Used # SegmentSlots /\ next_id <= MaxId
       /\ \E base \in Blocks \ {segments[i].base : i \in Used} :
             segments' = [segments EXCEPT ![First(SegmentSlots \ Used)] =
                             [id |-> next_id, key |-> key, base |-> base, refs |-> 1]]
       /\ next_id' = next_id + 1

sys_shmget(key) ==
    /\ shm_create(key)
    /\ opens' = [b \in Blocks |->
          IF \E i \in SegmentSlots : segments'[i].base = b /\ segments'[i] # segments[i]
          THEN opens[b] + 1 ELSE opens[b]]
    /\ UNCHANGED mapped

shm_attach(i) ==
    /\ segments[i].refs < MaxRefs
    /\ segments' = [segments EXCEPT ![i].refs = @ + 1]

sys_shmat(p, id) ==
    /\ \E i \in Used :
          /\ segments[i].id = id
          /\ shm_attach(i)
          /\ mapped' = [mapped EXCEPT ![p][segments[i].base] = @ + 1]
    /\ UNCHANGED <<next_id, opens>>

\* Mutant of shm_detach: the segment goes with its last reference but one.
shm_detach_early(i) ==
    segments' = [segments EXCEPT ![i] =
                    IF @.refs <= 2 THEN Free ELSE [@ EXCEPT !.refs = @ - 1]]

shm_detach(i) ==
    segments' = [segments EXCEPT ![i] =
                    IF @.refs = 1 THEN Free ELSE [@ EXCEPT !.refs = @ - 1]]

\* A process detaches an address it has attached.  The segment is looked for
\* among the small ids only; one that is not found stays attached.
sys_shmdt(p, base) ==
    /\ mapped[p][base] > 0
    /\ LET found == {i \in Used : segments[i].id < IdLimit /\ segments[i].base = base} IN
       /\ found # {}
       /\ shm_detach(First(found))
       /\ mapped' = [mapped EXCEPT ![p][base] = @ - 1]
    /\ UNCHANGED <<next_id, opens>>

\* The reference a sys_shmget took is given back the only way there is, by a
\* detach that undoes no attachment.
sys_shmdt_close(base) ==
    /\ opens[base] > 0
    /\ opens' = [opens EXCEPT ![base] = @ - 1]
    /\ \E i \in Used :
          /\ segments[i].id < IdLimit /\ segments[i].base = base
          /\ shm_detach(i)
    /\ UNCHANGED <<next_id, mapped>>

ShmNext ==
    \/ \E key \in SegmentKeys : sys_shmget(key)
    \/ \E p \in Callers :
          \/ \E id \in 1 .. MaxId : sys_shmat(p, id)
          \/ \E base \in Blocks : sys_shmdt(p, base)
    \/ \E base \in Blocks : sys_shmdt_close(base)

ShmSpec == ShmInit /\ [][ShmNext]_shmVars

-----------------------------------------------------------------------------
\* Attachments of the memory at base that were not undone yet.
Total(base) ==
    Cardinality({<<p, n>> \in Callers \X (1 .. MaxRefs) : mapped[p][base] >= n})

\* The table is consistent: live segments differ in name, id and memory, and
\* no id is given out twice (shm_create, shm_detach).
ShmSound ==
    /\ \A i \in SegmentSlots : segments[i] = Free \/ segments[i].refs \in 1 .. MaxRefs
    /\ \A i, j \in Used : i # j => /\ segments[i].key # segments[j].key
                                   /\ segments[i].id # segments[j].id
                                   /\ segments[i].base # segments[j].base
    /\ \A i \in Used : segments[i].id < next_id

\* Memory that is opened or attached belongs to a live segment that counts every
\* one of those references, so nobody else's detach frees it, and a segment
\* without references is gone (shm_create, shm_attach, shm_detach).
AttachedBacked ==
    /\ ShmSound
    /\ \A base \in Blocks :
          opens[base] + Total(base) > 0 => \E i \in Used : segments[i].base = base
    /\ \A i \in Used :
          segments[i].refs = opens[segments[i].base] + Total(segments[i].base)
===============================================================================
