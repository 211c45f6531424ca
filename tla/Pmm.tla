--------------------------------- MODULE Pmm ---------------------------------
(***************************************************************************)
(* The physical memory manager (kernel/mm/pmm.c over kernel/lib/bitmap.c), *)
(* the firmware memory map it is built from (kernel/mm/mmap.c) and the     *)
(* order in which init_memory (kernel/main.c) feeds it.                    *)
(*                                                                         *)
(* Addresses are bytes; frame i is the bytes i*FrameSize .. (i+1)*FrameSize*)
(* - 1.  A set bit of the bitmap is a frame that is not free.              *)
(***************************************************************************)
EXTENDS Integers, Sequences, FiniteSets

CONSTANTS
    FrameSize,     \* PMM_FRAME_SIZE
    MaxFrames,     \* PMM_MAX_FRAMES
    MaxRegions,    \* MMAP_MAX_REGIONS
    MemoryMaps,    \* memory maps a boot loader may hand over: sequences of
                   \* [base, length, type] entries
    LowEnd,        \* 0x100000: the first megabyte is reserved
    KernelEnd,     \* physical end of the kernel image, which starts at LowEnd
    Modules,       \* [base, length] of boot module 0; length 0 is "no module"
    FrameCounts         \* sizes of contiguous requests

RegionTypes == {"usable", "bootloader", "reserved"}

ASSUME PmmConstants ==
    /\ FrameSize \in Nat \ {0} /\ MaxFrames \in Nat /\ MaxRegions \in Nat
    /\ LowEnd \in Nat /\ KernelEnd \in Nat /\ 0 < LowEnd /\ LowEnd <= KernelEnd
    /\ Modules \subseteq [base : Nat, length : Nat]
    /\ FrameCounts \subseteq Nat

\* mmap_init_from_limine and multiboot2_init_memory_map: empty entries are
\* skipped and entries past the table are dropped.
mmap_init(entries) ==
    LET kept == SelectSeq(entries, LAMBDA e : e.length # 0)
    IN  SubSeq(kept, 1, IF Len(kept) <= MaxRegions THEN Len(kept) ELSE MaxRegions)

RegionEnd(r) == r.base + r.length

Region == [base : Nat, length : Nat, type : RegionTypes]

\* What the boot protocols promise: the regions of one map do not overlap.
ASSUME MapsDisjoint ==
    \A m \in MemoryMaps :
        /\ mmap_init(m) \in Seq(Region)
        /\ \A i, j \in DOMAIN mmap_init(m) :
              i # j => \/ RegionEnd(mmap_init(m)[i]) <= mmap_init(m)[j].base
                       \/ RegionEnd(mmap_init(m)[j]) <= mmap_init(m)[i].base

VARIABLES
    regions,       \* the regions mmap.c keeps
    module,        \* boot module 0
    phase,         \* where init_memory is: an index of regions, then its tail
    total_frames,
    bits,          \* frame_map: indices of the set bits
    free_frames,   \* the counter
    grants         \* history: <<first frame, count>> of every live allocation

pmmVars == <<regions, module, phase, total_frames, bits, free_frames, grants>>

Frames == 0 .. total_frames - 1

-----------------------------------------------------------------------------
mmap_highest_addr(rs) ==
    IF rs = << >> THEN 0
    ELSE CHOOSE top \in {RegionEnd(rs[i]) : i \in DOMAIN rs} : \A i \in DOMAIN rs : RegionEnd(rs[i]) <= top

FrameCount(top) == IF top \div FrameSize < MaxFrames THEN top \div FrameSize ELSE MaxFrames

\* Mutant of Outer: reserved memory rounded inwards.
Outer_inwards(base, end) == {i \in Frames : base <= i * FrameSize /\ (i + 1) * FrameSize <= end}

\* Frames wholly inside the bytes base .. end - 1: start up, end down.
Inner(base, end) == {i \in Frames : base <= i * FrameSize /\ (i + 1) * FrameSize <= end}

\* Frames that share a byte with base .. end - 1: start down, end up.
Outer(base, end) == {i \in Frames : base < (i + 1) * FrameSize /\ i * FrameSize < end}

-----------------------------------------------------------------------------
\* pmm_init over the regions found, every bit set.
PmmInit ==
    \E entries \in MemoryMaps :
        /\ regions = mmap_init(entries)
        /\ module \in Modules
        /\ phase = 1
        /\ total_frames = FrameCount(mmap_highest_addr(regions))
        /\ bits = Frames
        /\ free_frames = 0
        /\ grants = {}

pmm_mark_usable(base, length) ==
    LET S == Inner(base, base + length)
    IN  /\ bits' = bits \ S
        /\ free_frames' = free_frames + Cardinality(S \cap bits)

pmm_mark_reserved(base, length) ==
    LET S == Outer(base, base + length)
    IN  /\ bits' = bits \cup S
        /\ free_frames' = free_frames - Cardinality(S \ bits)

\* One turn of init_memory's loop over the memory map.
BootRegion ==
    /\ phase <= Len(regions)
    /\ phase' = phase + 1
    /\ LET r == regions[phase]
       IN  IF r.type = "usable"
           THEN pmm_mark_usable(r.base, r.length)
           ELSE pmm_mark_reserved(r.base, r.length)
    /\ UNCHANGED <<regions, module, total_frames, grants>>

\* After the loop, and only if there was a memory map: the first megabyte, the
\* kernel image and boot module 0 are reserved, in this order.
AfterRegions == Len(regions) + 1
Running == phase = AfterRegions + 3

BootReserve(step, base, length) ==
    /\ regions # << >>
    /\ phase = AfterRegions + step
    /\ phase' = phase + 1
    /\ pmm_mark_reserved(base, length)
    /\ UNCHANGED <<regions, module, total_frames, grants>>

BootLow == BootReserve(0, 0, LowEnd)
BootKernel == BootReserve(1, LowEnd, KernelEnd - LowEnd)
BootModule == BootReserve(2, module.base, module.length)

\* No memory map: pmm_init(0), nothing to manage.
BootEmpty ==
    /\ regions = << >> /\ phase = AfterRegions
    /\ phase' = AfterRegions + 3
    /\ UNCHANGED <<regions, module, total_frames, bits, free_frames, grants>>

\* The lowest start of count clear bits, as bitmap_find_clear_range finds it.
FirstClear(start, count) ==
    /\ count > 0
    /\ start .. start + count - 1 \subseteq Frames \ bits
    /\ \A s \in Frames : s .. s + count - 1 \subseteq Frames \ bits => start <= s

\* A failing request returns 0 and changes nothing.
NoClear(count) == ~ \E s \in Frames : FirstClear(s, count)

\* Mutant of pmm_alloc_frames: only the first frame of the run is marked.
pmm_alloc_frames_marks_one(count) ==
    /\ Running
    /\ \/ NoClear(count) /\ UNCHANGED <<bits, free_frames, grants>>
       \/ \E s \in Frames :
            /\ FirstClear(s, count)
            /\ bits' = bits \cup {s}
            /\ free_frames' = free_frames - count
            /\ grants' = grants \cup {<<s, count>>}
    /\ UNCHANGED <<regions, module, phase, total_frames>>
pmm_alloc_frames(count) ==
    /\ Running
    /\ \/ NoClear(count) /\ UNCHANGED <<bits, free_frames, grants>>
       \/ \E s \in Frames :
            /\ FirstClear(s, count)
            /\ bits' = bits \cup (s .. s + count - 1)
            /\ free_frames' = free_frames - count
            /\ grants' = grants \cup {<<s, count>>}
    /\ UNCHANGED <<regions, module, phase, total_frames>>

\* bitmap_find_clear is the search for one clear bit.
pmm_alloc_frame == pmm_alloc_frames(1)

\* Mutant: the run is freed one frame short.
pmm_free_frames_short(g) ==
    /\ Running
    /\ LET S == g[1] .. g[1] + g[2] - 2
       IN  /\ bits' = bits \ S
           /\ free_frames' = free_frames + Cardinality(S \cap bits)
    /\ grants' = grants \ {g}
    /\ UNCHANGED <<regions, module, phase, total_frames>>

\* The owner returns what it was given; pmm_free_frame is the case count = 1.
pmm_free_frames(g) ==
    /\ Running
    /\ LET S == g[1] .. g[1] + g[2] - 1
       IN  /\ bits' = bits \ S
           /\ free_frames' = free_frames + Cardinality(S \cap bits)
    /\ grants' = grants \ {g}
    /\ UNCHANGED <<regions, module, phase, total_frames>>

PmmNext ==
    \/ BootRegion \/ BootLow \/ BootKernel \/ BootModule \/ BootEmpty
    \/ pmm_alloc_frame
    \/ \E c \in FrameCounts : pmm_alloc_frames(c)
    \/ \E g \in grants : pmm_free_frames(g)

PmmSpec == PmmInit /\ [][PmmNext]_pmmVars

-----------------------------------------------------------------------------
Span(g) == g[1] .. g[1] + g[2] - 1

Granted == UNION {Span(g) : g \in grants}

\* Every frame a caller holds or could still be given.
Available == (Frames \ bits) \cup Granted

\* Types.
PmmTypeOK ==
    /\ regions \in Seq(Region)
    /\ module \in [base : Nat, length : Nat]
    /\ total_frames \in Nat
    /\ phase \in 1 .. AfterRegions + 3
    /\ bits \subseteq Frames
    /\ free_frames \in Int
    /\ grants \subseteq Frames \X Nat

\* The counter behind pmm_free_count is the number of clear bits, although the
\* two are updated apart in every operation.
FreeCountExact == free_frames = Cardinality(Frames \ bits)

\* No frame is handed out twice, and a frame handed out is marked.
GrantsApart ==
    /\ \A g \in grants : Span(g) \subseteq bits
    /\ \A g, h \in grants : g # h => Span(g) \cap Span(h) = {}

\* The bitmap, its counter and what callers hold agree after any calls.
PmmSound == PmmTypeOK /\ FreeCountExact /\ GrantsApart

Touches(f, base, end) == base < (f + 1) * FrameSize /\ f * FrameSize < end

Inside(f, base, end) == base <= f * FrameSize /\ (f + 1) * FrameSize <= end

\* f is ordinary memory: wholly inside one usable region, sharing no byte with
\* any other region, the first megabyte, the kernel image or the boot module.
Ordinary(f) ==
    /\ \E i \in DOMAIN regions : /\ regions[i].type = "usable"
                                 /\ Inside(f, regions[i].base, RegionEnd(regions[i]))
    /\ \A i \in DOMAIN regions :
          regions[i].type # "usable" => ~Touches(f, regions[i].base, RegionEnd(regions[i]))
    /\ ~Touches(f, 0, KernelEnd)
    /\ ~Touches(f, module.base, RegionEnd(module))

\* Once init_memory is done, only ordinary memory is free or in use; frame 0 is
\* never given out, so that address 0 means failure.
OnlyOrdinaryMemory == Running => \A f \in Available : Ordinary(f)

\* After boot, allocating and freeing neither loses nor invents a frame.
FramesConserved == [][Running => Available' = Available]_pmmVars
=============================================================================
