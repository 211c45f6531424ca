---------------------------- MODULE PmmIpcProofs ----------------------------
(***************************************************************************)
(* Proofs about the physical memory manager, for every frame size, memory  *)
(* map, kernel image and boot module, and about the two IPC objects, the   *)
(* message queue and the semaphore.                                        *)
(***************************************************************************)
EXTENDS Pmm, Ipc, FiniteSetTheorems, TLAPS

RegionsApart ==
    \A i, j \in DOMAIN regions :
        i # j => \/ RegionEnd(regions[i]) <= regions[j].base
                 \/ RegionEnd(regions[j]) <= regions[i].base

\* What boot has established about the frames it has made available so far.
BootSafe ==
    \A f \in Available :
        /\ \E i \in DOMAIN regions : /\ regions[i].type = "usable"
                                     /\ Inside(f, regions[i].base, RegionEnd(regions[i]))
        /\ phase > AfterRegions => ~Touches(f, 0, LowEnd)
        /\ phase > AfterRegions + 1 => ~Touches(f, LowEnd, KernelEnd)
        /\ phase > AfterRegions + 2 => ~Touches(f, module.base, RegionEnd(module))

\* The inductive invariant.
PmmInv ==
    /\ PmmTypeOK /\ FreeCountExact /\ GrantsApart /\ RegionsApart /\ BootSafe
    /\ ~Running => grants = {}

LEMMA FramesFinite ==
  ASSUME total_frames \in Nat
  PROVE  IsFiniteSet(Frames)
  BY FS_Interval DEF Frames

\* An integer-valued function on a finite non-empty set has a maximum.
LEMMA FiniteArgMax ==
  ASSUME NEW D, IsFiniteSet(D), D # {}, NEW g, \A x \in D : g[x] \in Int
  PROVE  \E x \in D : \A y \in D : g[y] <= g[x]
<1> DEFINE HasMax(X) == \E x \in X : \A y \in X : g[y] <= g[x]
           Bad == {X \in FiniteSubsetsOf(D) : X # {} /\ ~HasMax(X)}
<1> SUFFICES ASSUME Bad # {} PROVE FALSE
  BY FS_FiniteSubsetsOfFinite DEF FiniteSubsetsOf
<1>1. IsWellFoundedOn(StrictSubsetOrdering(D), FiniteSubsetsOf(D))
  BY FS_StrictSubsetOrderingWellFounded
<1>2. Bad \subseteq FiniteSubsetsOf(D)
  OBVIOUS
<1>3. \E X \in Bad : \A Y \in Bad : <<Y, X>> \notin StrictSubsetOrdering(D)
  <2> HIDE DEF Bad
  <2> QED
    BY <1>1, <1>2, WFMin
<1>4. PICK X \in Bad : \A Y \in Bad : <<Y, X>> \notin StrictSubsetOrdering(D)
  BY <1>3
<1>5. PICK x \in X : TRUE
  OBVIOUS
<1>6. X \ {x} \in FiniteSubsetsOf(D) /\ X \subseteq D
  BY FS_RemoveElement DEF FiniteSubsetsOf
<1>7. <<X \ {x}, X>> \in StrictSubsetOrdering(D)
  BY <1>5, <1>6 DEF StrictSubsetOrdering
<1>8. X \ {x} = {} \/ HasMax(X \ {x})
  BY <1>4, <1>6, <1>7, Zenon
<1>9. HasMax(X)
  <2>1. CASE X \ {x} = {}
    BY <1>5, <1>6, <2>1
  <2>2. CASE HasMax(X \ {x})
    <3>1. PICK m \in X \ {x} : \A y \in X \ {x} : g[y] <= g[m]
      BY <2>2
    <3>2. CASE g[m] <= g[x]
      BY <1>5, <1>6, <3>1, <3>2
    <3>3. CASE g[x] <= g[m]
      BY <1>5, <1>6, <3>1, <3>3
    <3> QED
      BY <1>5, <1>6, <3>1, <3>2, <3>3
  <2> QED
    BY <1>8, <2>1, <2>2
<1> QED
  BY <1>9

\* The top of the memory map is an address.
LEMMA HighestAddrNat ==
  ASSUME NEW rs \in Seq(Region)
  PROVE  mmap_highest_addr(rs) \in Nat
<1>1. CASE rs = << >>
  BY <1>1 DEF mmap_highest_addr
<1>2. CASE rs # << >>
  <2> DEFINE g == [i \in DOMAIN rs |-> RegionEnd(rs[i])]
  <2>1. DOMAIN rs = 1 .. Len(rs) /\ Len(rs) \in Nat /\ DOMAIN rs # {}
    BY <1>2
  <2>2. \A i \in DOMAIN rs : rs[i] \in Region
    BY <2>1
  <2>3. \A i \in DOMAIN rs : g[i] = RegionEnd(rs[i]) /\ RegionEnd(rs[i]) \in Nat
    BY <2>2 DEF RegionEnd, Region
  <2>4. IsFiniteSet(DOMAIN rs)
    BY <2>1, FS_Interval
  <2> HIDE DEF g
  <2>5. \E i \in DOMAIN rs : \A j \in DOMAIN rs : g[j] <= g[i]
    <3> DEFINE D == DOMAIN rs
    <3>1. IsFiniteSet(D) /\ D # {} /\ \A i \in D : g[i] \in Int
      BY <2>1, <2>3, <2>4
    <3> HIDE DEF D
    <3>2. \E i \in D : \A j \in D : g[j] <= g[i]
      BY <3>1, FiniteArgMax
    <3> QED
      BY <3>2 DEF D
  <2>6. \E top \in {RegionEnd(rs[i]) : i \in DOMAIN rs} : \A i \in DOMAIN rs : RegionEnd(rs[i]) <= top
    BY <2>3, <2>5, SMTT(90)
  <2>7. mmap_highest_addr(rs) \in {RegionEnd(rs[i]) : i \in DOMAIN rs}
    BY <1>2, <2>6 DEF mmap_highest_addr
  <2> QED
    BY <2>3, <2>7
<1> QED
  BY <1>1, <1>2

LEMMA PmmInvInit == PmmInit => PmmInv
<1> SUFFICES ASSUME PmmInit PROVE PmmInv
  OBVIOUS
<1>1. PICK entries \in MemoryMaps : regions = mmap_init(entries)
  BY DEF PmmInit
<1>2. regions \in Seq(Region) /\ RegionsApart
  BY <1>1, MapsDisjoint DEF RegionsApart
<1>3. total_frames \in Nat
  <2>1. mmap_highest_addr(regions) \in Nat
    BY <1>2, HighestAddrNat
  <2> QED
    BY <2>1, PmmConstants DEF PmmInit, FrameCount
<1>4. PmmTypeOK
  BY <1>2, <1>3, PmmConstants DEF PmmInit, PmmTypeOK, AfterRegions, Frames
<1>5. Frames \ bits = {} /\ grants = {}
  BY DEF PmmInit
<1>6. FreeCountExact
  BY <1>5, FS_EmptySet DEF PmmInit, FreeCountExact
<1>7. Available = {}
  BY <1>5 DEF Available, Granted
<1> QED
  BY <1>2, <1>4, <1>5, <1>6, <1>7 DEF PmmInv, GrantsApart, BootSafe

-----------------------------------------------------------------------------
\* Frames end where the next one starts.
LEMMA FrameStep ==
  ASSUME NEW f \in Nat
  PROVE  /\ f * FrameSize \in Nat /\ (f + 1) * FrameSize \in Nat
         /\ (f + 1) * FrameSize = f * FrameSize + FrameSize
  BY PmmConstants

\* Counting after a set S of frames is cleared or set.
LEMMA CountCleared ==
  ASSUME NEW F, IsFiniteSet(F), NEW B \in SUBSET F, NEW S \in SUBSET F
  PROVE  Cardinality(F \ (B \ S)) = Cardinality(F \ B) + Cardinality(S \cap B)
<1>1. F \ (B \ S) = (F \ B) \cup (S \cap B) /\ (F \ B) \cap (S \cap B) = {}
  OBVIOUS
<1>2. IsFiniteSet(F \ B) /\ IsFiniteSet(S \cap B)
  BY FS_Subset
<1>3. /\ Cardinality(F \ B) \in Nat /\ Cardinality(S \cap B) \in Nat
      /\ Cardinality((F \ B) \cup (S \cap B))
           = Cardinality(F \ B) + Cardinality(S \cap B) - Cardinality((F \ B) \cap (S \cap B))
  BY <1>2, FS_Union, FS_CardinalityType
<1> QED
  BY <1>1, <1>3, FS_EmptySet

LEMMA CountSet ==
  ASSUME NEW F, IsFiniteSet(F), NEW B \in SUBSET F, NEW S \in SUBSET F
  PROVE  Cardinality(F \ (B \cup S)) = Cardinality(F \ B) - Cardinality(S \ B)
<1>1. F \ (B \cup S) = (F \ B) \ S /\ (F \ B) \cap S = S \ B
  OBVIOUS
<1>2. IsFiniteSet(F \ B)
  BY FS_Subset
<1>3. Cardinality((F \ B) \ S) = Cardinality(F \ B) - Cardinality((F \ B) \cap S)
  BY <1>2, FS_Difference
<1> QED
  BY <1>1, <1>3

\* One mark_reserved step of boot: S, a set of frames, leaves the free set.
LEMMA ReserveStep ==
  ASSUME PmmInv, ~Running, NEW base \in Nat, NEW length \in Nat,
         pmm_mark_reserved(base, length),
         UNCHANGED <<regions, module, total_frames, grants>>, phase' = phase + 1,
         phase' <= AfterRegions + 3
  PROVE  /\ PmmTypeOK' /\ FreeCountExact' /\ GrantsApart' /\ RegionsApart'
         /\ grants' = {}
         /\ Available' \subseteq Available
         /\ \A f \in Available' : f \in Nat /\ ~Touches(f, base, base + length)
<1> DEFINE S == Outer(base, base + length)
<1>1. S \subseteq Frames /\ bits \subseteq Frames /\ total_frames \in Nat /\ IsFiniteSet(Frames)
  BY FramesFinite DEF Outer, PmmInv, PmmTypeOK
<1>2. bits' = bits \cup S /\ free_frames' = free_frames - Cardinality(S \ bits)
  BY DEF pmm_mark_reserved
<1>3. Frames' = Frames /\ grants = {} /\ grants' = {}
  BY DEF Frames, PmmInv
<1>4. Available = Frames \ bits /\ Available' = Frames \ bits'
  BY <1>3 DEF Available, Granted
<1>5. IsFiniteSet(S \ bits) /\ Cardinality(S \ bits) \in Nat
  BY <1>1, FS_Subset, FS_CardinalityType
<1>6. PmmTypeOK'
  BY <1>1, <1>2, <1>3, <1>5, SMTT(60) DEF PmmInv, PmmTypeOK, AfterRegions
<1>7. FreeCountExact'
  BY <1>1, <1>2, <1>3, CountSet, Zenon DEF PmmInv, FreeCountExact
<1>8. GrantsApart' /\ RegionsApart'
  BY <1>3 DEF PmmInv, GrantsApart, RegionsApart
<1>9. \A f \in Available' : f \in Nat /\ ~Touches(f, base, base + length)
  <2> TAKE f \in Available'
  <2>1. f \in Frames /\ f \notin S
    BY <1>2, <1>4
  <2> QED
    BY <1>1, <2>1 DEF Outer, Touches, Frames
<1> QED
  BY <1>2, <1>3, <1>4, <1>6, <1>7, <1>8, <1>9

LEMMA BootRegionStep == PmmInv /\ BootRegion => PmmInv'
<1> SUFFICES ASSUME PmmInv, BootRegion PROVE PmmInv'
  OBVIOUS
<1> DEFINE r == regions[phase]
<1>1. /\ Len(regions) \in Nat /\ DOMAIN regions = 1 .. Len(regions)
      /\ phase \in DOMAIN regions /\ r \in Region /\ total_frames \in Nat
  BY DEF PmmInv, PmmTypeOK, BootRegion
<1>2. r.base \in Nat /\ r.length \in Nat /\ RegionEnd(r) = r.base + r.length
  BY <1>1 DEF Region, RegionEnd
<1>3. /\ ~Running /\ ~Running' /\ phase' = phase + 1 /\ phase' <= AfterRegions
      /\ grants = {} /\ grants' = {} /\ AfterRegions' = AfterRegions
      /\ regions' = regions /\ module' = module /\ total_frames' = total_frames
      /\ Frames' = Frames
  BY <1>1 DEF PmmInv, BootRegion, Running, AfterRegions, Frames
<1>4. CASE r.type = "usable"
  <2> DEFINE S == Inner(r.base, RegionEnd(r))
  <2>1. bits' = bits \ S /\ free_frames' = free_frames + Cardinality(S \cap bits)
    BY <1>2, <1>4 DEF BootRegion, pmm_mark_usable
  <2>2. S \subseteq Frames /\ bits \subseteq Frames /\ IsFiniteSet(Frames)
    BY <1>1, FramesFinite DEF PmmInv, PmmTypeOK, Inner
  <2>3. IsFiniteSet(S \cap bits) /\ Cardinality(S \cap bits) \in Nat
    BY <2>2, FS_Subset, FS_CardinalityType
  <2>4. PmmTypeOK'
    BY <1>1, <1>3, <2>1, <2>2, <2>3, SMTT(60) DEF PmmInv, PmmTypeOK, AfterRegions
  <2>5. FreeCountExact'
    BY <1>3, <2>1, <2>2, CountCleared, ZenonT(30) DEF PmmInv, FreeCountExact
  <2>6. GrantsApart' /\ RegionsApart'
    BY <1>3 DEF PmmInv, GrantsApart, RegionsApart
  <2>7. Available = Frames \ bits /\ Available' = Frames \ bits'
    BY <1>3 DEF Available, Granted
  <2>8. ASSUME NEW f \in Available'
        PROVE  \E i \in DOMAIN regions : /\ regions[i].type = "usable"
                                         /\ Inside(f, regions[i].base, RegionEnd(regions[i]))
    <3>1. CASE f \in S
      BY <1>1, <1>4, <3>1 DEF Inner, Inside
    <3>2. CASE f \notin S
      BY <2>1, <2>7, <3>2 DEF PmmInv, BootSafe
    <3> QED
      BY <3>1, <3>2
  <2>9. ~(phase' > AfterRegions) /\ ~(phase' > AfterRegions + 1) /\ ~(phase' > AfterRegions + 2)
    BY <1>1, <1>3 DEF AfterRegions
  <2>10. BootSafe'
    BY <1>3, <2>8, <2>9 DEF BootSafe, Inside, RegionEnd
  <2> QED
    BY <1>3, <2>4, <2>5, <2>6, <2>10 DEF PmmInv
<1>5. CASE r.type # "usable"
  <2>1. pmm_mark_reserved(r.base, r.length)
    BY <1>5 DEF BootRegion
  <2>2. phase' <= AfterRegions + 3
    BY <1>1, <1>3 DEF AfterRegions
  <2>3. /\ PmmTypeOK' /\ FreeCountExact' /\ GrantsApart' /\ RegionsApart'
        /\ Available' \subseteq Available
    BY <1>2, <1>3, <2>1, <2>2, ReserveStep, SMTT(60)
  <2>4. ~(phase' > AfterRegions) /\ ~(phase' > AfterRegions + 1) /\ ~(phase' > AfterRegions + 2)
    BY <1>1, <1>3 DEF AfterRegions
  <2>5. BootSafe'
    BY <1>3, <2>3, <2>4 DEF PmmInv, BootSafe, Inside, RegionEnd
  <2> QED
    BY <1>3, <2>3, <2>5 DEF PmmInv
<1> QED
  BY <1>4, <1>5

\* The three reservations after the loop.
LEMMA BootTailStep ==
  ASSUME PmmInv, NEW step \in 0 .. 2, NEW base \in Nat, NEW length \in Nat,
         BootReserve(step, base, length),
         step = 0 => base = 0 /\ length = LowEnd,
         step = 1 => base = LowEnd /\ base + length = KernelEnd,
         step = 2 => base = module.base /\ length = module.length
  PROVE  PmmInv'
<1>1. Len(regions) \in Nat /\ AfterRegions \in Nat /\ module \in [base : Nat, length : Nat]
  BY DEF PmmInv, PmmTypeOK, AfterRegions
<1>2. /\ phase = AfterRegions + step /\ phase' = phase + 1 /\ ~Running
      /\ phase' <= AfterRegions + 3 /\ AfterRegions' = AfterRegions
      /\ regions' = regions /\ module' = module /\ Frames' = Frames
      /\ pmm_mark_reserved(base, length)
  BY <1>1, SMTT(60) DEF BootReserve, Running, AfterRegions, Frames
<1>3. /\ PmmTypeOK' /\ FreeCountExact' /\ GrantsApart' /\ RegionsApart' /\ grants' = {}
      /\ Available' \subseteq Available
      /\ \A f \in Available' : f \in Nat /\ ~Touches(f, base, base + length)
  BY <1>2, ReserveStep DEF BootReserve
<1>4. BootSafe'
  <2> SUFFICES ASSUME NEW f \in Available'
               PROVE  /\ \E i \in DOMAIN regions :
                            /\ regions[i].type = "usable"
                            /\ Inside(f, regions[i].base, RegionEnd(regions[i]))
                      /\ phase' > AfterRegions => ~Touches(f, 0, LowEnd)
                      /\ phase' > AfterRegions + 1 => ~Touches(f, LowEnd, KernelEnd)
                      /\ phase' > AfterRegions + 2 => ~Touches(f, module.base, RegionEnd(module))
    BY <1>2, SMTT(60) DEF BootSafe, Inside, Touches, RegionEnd
  <2>1. /\ \E i \in DOMAIN regions : /\ regions[i].type = "usable"
                                     /\ Inside(f, regions[i].base, RegionEnd(regions[i]))
        /\ phase > AfterRegions => ~Touches(f, 0, LowEnd)
        /\ phase > AfterRegions + 1 => ~Touches(f, LowEnd, KernelEnd)
    BY <1>3 DEF PmmInv, BootSafe
  <2>2. ~Touches(f, base, base + length)
    BY <1>3, SMTT(60)
  <2>3. CASE step = 0
    <3>1. ~Touches(f, 0, LowEnd)
      BY <2>2, <2>3, PmmConstants
    <3> QED
      BY <1>1, <1>2, <2>1, <2>3, <3>1
  <2>4. CASE step = 1
    <3>1. ~Touches(f, LowEnd, KernelEnd)
      BY <2>2, <2>4
    <3> QED
      BY <1>1, <1>2, <2>1, <2>4, <3>1
  <2>5. CASE step = 2
    <3>1. ~Touches(f, module.base, RegionEnd(module))
      BY <2>2, <2>5 DEF RegionEnd
    <3> QED
      BY <1>1, <1>2, <2>1, <2>5, <3>1
  <2> QED
    BY <2>3, <2>4, <2>5
<1> QED
  BY <1>3, <1>4 DEF PmmInv

LEMMA BootEmptyStep == PmmInv /\ BootEmpty => PmmInv'
<1> SUFFICES ASSUME PmmInv, BootEmpty PROVE PmmInv'
  OBVIOUS
<1>1. regions = << >> /\ grants = {} /\ AfterRegions = 1 /\ AfterRegions' = 1 /\ phase' = 4
  BY DEF PmmInv, BootEmpty, Running, AfterRegions
<1>2. /\ regions' = regions /\ module' = module /\ total_frames' = total_frames
      /\ bits' = bits /\ free_frames' = free_frames /\ grants' = grants /\ Frames' = Frames
  BY DEF BootEmpty, Frames
<1>3. Available' = {}
  BY <1>1, <1>2 DEF PmmInv, BootSafe, Available, Granted
<1>4. PmmTypeOK'
  BY <1>1, <1>2 DEF PmmInv, PmmTypeOK
<1>5. FreeCountExact' /\ GrantsApart' /\ RegionsApart'
  BY <1>2 DEF PmmInv, FreeCountExact, GrantsApart, RegionsApart, Span
<1> QED
  BY <1>1, <1>2, <1>3, <1>4, <1>5 DEF PmmInv, BootSafe

\* Running: the set of available frames is all that BootSafe speaks of.
LEMMA RunningStep ==
  ASSUME PmmInv, Running, UNCHANGED <<regions, module, phase, total_frames>>,
         bits' \subseteq Frames, free_frames' = Cardinality(Frames \ bits'),
         GrantsApart', grants' \subseteq Frames \X Nat, Available' = Available
  PROVE  PmmInv'
<1>1. Frames' = Frames /\ AfterRegions' = AfterRegions /\ Running'
  BY DEF Frames, AfterRegions, Running
<1>2. IsFiniteSet(Frames \ bits') /\ free_frames' \in Int
  BY FramesFinite, FS_Subset, FS_CardinalityType DEF PmmInv, PmmTypeOK
<1>3. PmmTypeOK' /\ FreeCountExact' /\ RegionsApart'
  BY <1>1, <1>2 DEF PmmInv, PmmTypeOK, FreeCountExact, RegionsApart
<1>4. BootSafe'
  BY <1>1 DEF PmmInv, BootSafe, Inside, Touches, RegionEnd
<1> QED
  BY <1>1, <1>3, <1>4 DEF PmmInv

LEMMA AllocStep ==
  ASSUME PmmInv, NEW frames \in Nat, pmm_alloc_frames(frames)
  PROVE  PmmInv' /\ Available' = Available
<1>1. CASE UNCHANGED <<bits, free_frames, grants>>
  <2>1. UNCHANGED pmmVars
    BY <1>1 DEF pmm_alloc_frames, pmmVars
  <2>2. Frames' = Frames /\ AfterRegions' = AfterRegions /\ Available' = Available
    BY <2>1 DEF pmmVars, Frames, AfterRegions, Available, Granted, Span
  <2> QED
    BY <2>1, <2>2, SMTT(60) DEF pmmVars, PmmInv, PmmTypeOK, FreeCountExact, GrantsApart, RegionsApart,
       BootSafe, Running, Span, Inside, Touches, RegionEnd
<1>2. ASSUME NEW s \in Frames, FirstClear(s, frames),
             bits' = bits \cup (s .. s + frames - 1),
             free_frames' = free_frames - frames,
             grants' = grants \cup {<<s, frames>>}
      PROVE  PmmInv' /\ Available' = Available
  <2> DEFINE S == s .. s + frames - 1
             g == <<s, frames>>
  <2>1. /\ Running /\ UNCHANGED <<regions, module, phase, total_frames>>
        /\ frames > 0 /\ S \subseteq Frames \ bits /\ s \in Int /\ s \in S
    BY <1>2 DEF pmm_alloc_frames, FirstClear, Frames, PmmInv, PmmTypeOK
  <2>2. Span(g) = S /\ g \in Frames \X Nat
    BY DEF Span
  <2>3. bits \subseteq Frames /\ IsFiniteSet(Frames) /\ Frames' = Frames
    BY <2>1, FramesFinite DEF PmmInv, PmmTypeOK, Frames
  <2>4. free_frames' = Cardinality(Frames \ bits')
    <3>1. Cardinality(Frames \ (bits \cup S)) = Cardinality(Frames \ bits) - Cardinality(S \ bits)
      BY <2>1, <2>3, CountSet, Zenon
    <3>2. S \ bits = S /\ Cardinality(S) = frames
      BY <2>1, FS_Interval
    <3> QED
      BY <1>2, <3>1, <3>2, Zenon DEF PmmInv, FreeCountExact
  <2>5. GrantsApart'
    <3>1. \A h \in grants : Span(h) \subseteq bits
      BY DEF PmmInv, GrantsApart
    <3>2. \A h \in grants : Span(h) \cap S = {}
      BY <2>1, <3>1
    <3>3. \A h, k \in grants : h # k => Span(h) \cap Span(k) = {}
      BY DEF PmmInv, GrantsApart
    <3> QED
      BY <1>2, <2>2, <3>1, <3>2, <3>3, Zenon DEF GrantsApart
  <2>6. Available' = Available
    <3>1. Granted' = Granted \cup S
      BY <1>2, <2>2 DEF Granted, Span
    <3> QED
      BY <1>2, <2>1, <2>3, <3>1 DEF Available
  <2>7. bits' \subseteq Frames /\ grants' \subseteq Frames \X Nat
    BY <1>2, <2>1, <2>2, <2>3, SMTT(60) DEF PmmInv, PmmTypeOK
  <2> QED
    BY <2>1, <2>4, <2>5, <2>6, <2>7, RunningStep
<1> QED
  BY <1>1, <1>2, SMTT(60) DEF pmm_alloc_frames

LEMMA FreeStep ==
  ASSUME PmmInv, NEW g \in grants, pmm_free_frames(g)
  PROVE  PmmInv' /\ Available' = Available
<1> DEFINE S == Span(g)
<1>1. /\ Running /\ UNCHANGED <<regions, module, phase, total_frames>>
      /\ bits' = bits \ S /\ free_frames' = free_frames + Cardinality(S \cap bits)
      /\ grants' = grants \ {g}
  BY DEF pmm_free_frames, Span
<1>2. bits \subseteq Frames /\ IsFiniteSet(Frames) /\ Frames' = Frames
  BY <1>1, FramesFinite DEF PmmInv, PmmTypeOK, Frames
<1>3. S \subseteq bits /\ \A h \in grants \ {g} : Span(h) \subseteq bits /\ Span(h) \cap S = {}
  BY DEF PmmInv, GrantsApart
<1>4. free_frames' = Cardinality(Frames \ bits')
  <2>1. S \subseteq Frames
    BY <1>2, <1>3
  <2> HIDE DEF S
  <2> QED
    BY <1>1, <1>2, <2>1, CountCleared, ZenonT(30) DEF PmmInv, FreeCountExact
<1>5. GrantsApart'
  <2>1. \A h, k \in grants : h # k => Span(h) \cap Span(k) = {}
    BY DEF PmmInv, GrantsApart
  <2> QED
    BY <1>1, <1>3, <2>1 DEF GrantsApart
<1>6. Available' = Available
  <2>1. Granted = Granted' \cup S
    BY <1>1 DEF Granted
  <2>2. Granted' \cap S = {}
    BY <1>1, <1>3 DEF Granted
  <2> QED
    BY <1>1, <1>2, <1>3, <2>1, <2>2 DEF Available
<1>7. bits' \subseteq Frames /\ grants' \subseteq Frames \X Nat
  BY <1>1, <1>2 DEF PmmInv, PmmTypeOK
<1> QED
  BY <1>1, <1>4, <1>5, <1>6, <1>7, RunningStep

LEMMA PmmInvStep == PmmInv /\ [PmmNext]_pmmVars => PmmInv'
<1> SUFFICES ASSUME PmmInv, [PmmNext]_pmmVars PROVE PmmInv'
  OBVIOUS
<1>1. module \in [base : Nat, length : Nat]
  BY DEF PmmInv, PmmTypeOK
<1>2. CASE BootLow
  BY <1>2, BootTailStep, PmmConstants DEF BootLow
<1>3. CASE BootKernel
  <2>1. KernelEnd - LowEnd \in Nat /\ LowEnd + (KernelEnd - LowEnd) = KernelEnd
    BY PmmConstants
  <2> QED
    BY <1>3, <2>1, BootTailStep, PmmConstants DEF BootKernel
<1>4. CASE BootModule
  BY <1>1, <1>4, BootTailStep DEF BootModule
<1>5. CASE pmm_alloc_frame
  BY <1>5, AllocStep DEF pmm_alloc_frame
<1>6. ASSUME NEW c \in FrameCounts, pmm_alloc_frames(c) PROVE PmmInv'
  BY <1>6, AllocStep, PmmConstants, SMTT(60)
<1>7. CASE UNCHANGED pmmVars
  <2>1. Frames' = Frames /\ AfterRegions' = AfterRegions /\ Available' = Available
    BY <1>7 DEF pmmVars, Frames, AfterRegions, Available, Granted, Span
  <2> QED
    BY <1>7, <2>1, SMTT(20) DEF pmmVars, PmmInv, PmmTypeOK, FreeCountExact, GrantsApart, RegionsApart,
       BootSafe, Running, Span, Inside, Touches, RegionEnd
<1> QED
  BY <1>2, <1>3, <1>4, <1>5, <1>6, <1>7, BootRegionStep, BootEmptyStep, FreeStep DEF PmmNext

LEMMA PmmInvariant == PmmSpec => []PmmInv
  BY PmmInvInit, PmmInvStep, PTL DEF PmmSpec

\* pmm_free_count always equals the number of clear bits of the bitmap, and no
\* frame is in two live allocations.
THEOREM PmmSafety == PmmSpec => []PmmSound
<1>1. PmmInv => PmmSound
  BY SMTT(60) DEF PmmInv, PmmSound
<1> QED
  BY <1>1, PmmInvariant, PTL

\* After boot the PMM deals only in memory that lies inside one usable region
\* and that no other region, the first megabyte, the kernel image or the boot
\* module touches, wherever their borders fall within a frame.
THEOREM PmmOnlyOrdinaryMemory == PmmSpec => []OnlyOrdinaryMemory
<1>1. PmmInv => OnlyOrdinaryMemory
  <2> SUFFICES ASSUME PmmInv, Running, NEW f \in Available PROVE Ordinary(f)
    BY DEF OnlyOrdinaryMemory
  <2>1. Len(regions) \in Nat /\ phase = AfterRegions + 3 /\ AfterRegions \in Nat
    BY DEF PmmInv, PmmTypeOK, Running, AfterRegions
  <2>2. PICK i \in DOMAIN regions : /\ regions[i].type = "usable"
                                    /\ Inside(f, regions[i].base, RegionEnd(regions[i]))
    BY DEF PmmInv, BootSafe
  <2>3. /\ ~Touches(f, 0, LowEnd) /\ ~Touches(f, LowEnd, KernelEnd)
        /\ ~Touches(f, module.base, RegionEnd(module))
    BY <2>1 DEF PmmInv, BootSafe
  <2>4. f \in Nat
    <3>1. \A g \in grants : Span(g) \subseteq Frames
      BY DEF PmmInv, GrantsApart, PmmTypeOK
    <3> QED
      BY <3>1 DEF Available, Granted, Frames, PmmInv, PmmTypeOK
  <2>5. ~Touches(f, 0, KernelEnd)
    BY <2>3, <2>4, FrameStep, PmmConstants DEF Touches
  <2>6. ASSUME NEW j \in DOMAIN regions, regions[j].type # "usable"
        PROVE  ~Touches(f, regions[j].base, RegionEnd(regions[j]))
    <3>1. regions[i] \in Region /\ regions[j] \in Region
      BY DEF PmmInv, PmmTypeOK
    <3>2. /\ regions[i].base \in Nat /\ RegionEnd(regions[i]) \in Nat
          /\ regions[j].base \in Nat /\ RegionEnd(regions[j]) \in Nat
      BY <3>1 DEF Region, RegionEnd
    <3>3. \/ RegionEnd(regions[i]) <= regions[j].base
          \/ RegionEnd(regions[j]) <= regions[i].base
      BY <2>2, <2>6 DEF PmmInv, RegionsApart
    <3> QED
      BY <2>2, <2>4, <3>2, <3>3, FrameStep DEF Inside, Touches
  <2> QED
    BY <2>2, <2>3, <2>5, <2>6 DEF Ordinary
<1> QED
  BY <1>1, PmmInvariant, PTL

\* After boot no allocation or free loses a frame or invents one.
THEOREM PmmConservesFrames == PmmSpec => FramesConserved
<1>1. PmmInv /\ [PmmNext]_pmmVars => [Running => Available' = Available]_pmmVars
  <2> SUFFICES ASSUME PmmInv, PmmNext, Running PROVE Available' = Available
    OBVIOUS
  <2>1. Len(regions) \in Nat
    BY DEF PmmInv, PmmTypeOK
  <2>2. ~BootRegion /\ ~BootLow /\ ~BootKernel /\ ~BootModule /\ ~BootEmpty
    BY <2>1 DEF Running, AfterRegions, BootRegion, BootLow, BootKernel, BootModule,
       BootEmpty, BootReserve
  <2>3. CASE pmm_alloc_frame
    BY <2>3, AllocStep DEF pmm_alloc_frame
  <2>4. ASSUME NEW c \in FrameCounts, pmm_alloc_frames(c) PROVE Available' = Available
    BY <2>4, AllocStep, PmmConstants
  <2> QED
    BY <2>2, <2>3, <2>4, FreeStep DEF PmmNext
<1> QED
  BY <1>1, PmmInvariant, PTL DEF PmmSpec, FramesConserved

-------------------------------------------------------------------------------
(***************************************************************************)
(* For every capacity, payload set and sequence of calls, the message      *)
(* queue's ring stays consistent and implements the bounded FIFO.  The     *)
(* ring's consistency (MsgQueueSound) is inductive as it stands; the       *)
(* refinement compares the queued messages before and after each call.     *)
(***************************************************************************)

\* Sequences, item by item.

LEMMA SeqLen ==
  ASSUME NEW V, NEW s \in Seq(V)
  PROVE  Len(s) \in Nat /\ DOMAIN s = 1 .. Len(s) /\ s \in [1 .. Len(s) -> V]
  OBVIOUS

LEMMA SeqItem ==
  ASSUME NEW V, NEW s \in Seq(V), NEW i \in 1 .. Len(s)
  PROVE  s[i] \in V
  OBVIOUS

LEMMA SeqIs == \A V : Seq(V) = UNION {[1 .. n -> V] : n \in Nat}
  OBVIOUS

LEMMA SameItems ==
  ASSUME NEW V, NEW s \in Seq(V), NEW t \in Seq(V), Len(s) = Len(t),
         \A i \in 1 .. Len(s) : s[i] = t[i]
  PROVE  s = t
  OBVIOUS

LEMMA JoinedItems ==
  ASSUME NEW V, NEW s \in Seq(V), NEW t \in Seq(V)
  PROVE  /\ s \o t \in Seq(V) /\ Len(s \o t) = Len(s) + Len(t)
         /\ \A i \in 1 .. Len(s) + Len(t) :
               (s \o t)[i] = IF i <= Len(s) THEN s[i] ELSE t[i - Len(s)]
  OBVIOUS

LEMMA CutItems ==
  ASSUME NEW V, NEW s, NEW a \in Int, NEW b \in Int, \A i \in a .. b : s[i] \in V
  PROVE  /\ SubSeq(s, a, b) \in Seq(V)
         /\ Len(SubSeq(s, a, b)) = IF a <= b THEN b - a + 1 ELSE 0
         /\ \A i \in 1 .. b - a + 1 : SubSeq(s, a, b)[i] = s[a + i - 1]
  OBVIOUS

\* The index after i in a ring of c slots, as the code computes it with %.
LEMMA RingStep ==
    ASSUME NEW c \in Nat, NEW i \in Nat, i < c
    PROVE  (i + 1) % c = IF i + 1 < c THEN i + 1 ELSE 0
  BY SMTT(60)

\* A sequence that agrees with s on the size of s and is one longer is s with
\* its own last item put in.
LEMMA PutOne ==
    ASSUME NEW V, NEW s \in Seq(V), NEW t \in Seq(V), Len(t) = Len(s) + 1,
           \A i \in 1 .. Len(s) : t[i] = s[i]
    PROVE  t = s \o SubSeq(t, Len(s) + 1, Len(t)) /\ Len(SubSeq(t, Len(s) + 1, Len(t))) = 1
  <1> DEFINE u == SubSeq(t, Len(s) + 1, Len(t))
  <1>1. Len(s) \in Nat /\ Len(t) \in Nat
    BY SeqLen, SMTT(60)
  <1>2. \A i \in Len(s) + 1 .. Len(t) : t[i] \in V
    BY <1>1, SeqItem, SMTT(60)
  <1>3. u \in Seq(V) /\ Len(u) = 1 /\ u[1] = t[Len(s) + 1]
    BY <1>1, <1>2, CutItems
  <1> HIDE DEF u
  <1>4. /\ s \o u \in Seq(V) /\ Len(s \o u) = Len(s) + Len(u)
        /\ \A i \in 1 .. Len(s) + Len(u) :
              (s \o u)[i] = IF i <= Len(s) THEN s[i] ELSE u[i - Len(s)]
    BY <1>3, JoinedItems, ZenonT(60)
  <1>5. \A i \in 1 .. Len(t) : t[i] = (s \o u)[i]
    BY <1>1, <1>3, <1>4, SMTT(60)
  <1>6. t = s \o u
    BY <1>1, <1>3, <1>4, <1>5, SameItems, SMTT(90)
  <1> QED
    BY <1>3, <1>6, SMTT(60) DEF u

\* A sequence that is s without its first item is the rest after taking one.
LEMMA TakeOne ==
    ASSUME NEW V, NEW s \in Seq(V), NEW t \in Seq(V), Len(s) = Len(t) + 1,
           \A i \in 1 .. Len(t) : t[i] = s[i + 1]
    PROVE  t = SubSeq(s, 2, Len(s)) /\ <<s[1]>> = SubSeq(s, 1, 1)
  <1>1. Len(s) \in Nat /\ Len(t) \in Nat
    BY SeqLen, SMTT(60)
  <1>2. \A i \in 1 .. Len(s) : s[i] \in V
    BY SeqItem, SMTT(60)
  <1>3. /\ SubSeq(s, 2, Len(s)) \in Seq(V) /\ Len(SubSeq(s, 2, Len(s))) = Len(t)
        /\ \A i \in 1 .. Len(t) : SubSeq(s, 2, Len(s))[i] = s[i + 1]
    BY <1>1, <1>2, CutItems, SMTT(60)
  <1>4. /\ SubSeq(s, 1, 1) \in Seq(V) /\ Len(SubSeq(s, 1, 1)) = 1
        /\ SubSeq(s, 1, 1)[1] = s[1]
    BY <1>1, <1>2, CutItems, SMTT(60)
  <1>5. t = SubSeq(s, 2, Len(s))
    BY <1>3, SameItems, SMTT(60)
  <1>6. <<s[1]>> \in Seq(V) /\ Len(<<s[1]>>) = 1 /\ <<s[1]>>[1] = s[1]
    BY <1>1, <1>2, SMTT(60)
  <1>7. \A i \in 1 .. 1 : <<s[1]>>[i] = SubSeq(s, 1, 1)[i]
    BY <1>4, <1>6, SMTT(60)
  <1>8. <<s[1]>> = SubSeq(s, 1, 1)
    BY <1>4, <1>6, <1>7, SameItems, SMTT(90)
  <1> QED
    BY <1>5, <1>8, SMTT(60)

-----------------------------------------------------------------------------
\* Every call keeps the ring consistent.
LEMMA MsgQueueSoundStep ==
    ASSUME MsgQueueSound, [QueueNext]_queueVars
    PROVE  MsgQueueSound'
  <1> USE DEF MsgQueueSound, QueueTypeOK, QueueSlots
  <1>1. ASSUME NEW n \in QueueCapacities, msgqueue_init(n) PROVE MsgQueueSound'
    BY <1>1, MsgQueueConstants, SMTT(60) DEF msgqueue_init
  <1>2. CASE msgqueue_destroy
    BY <1>2, SMTT(60) DEF msgqueue_destroy
  <1>3. ASSUME NEW type, NEW payload, NEW size, msgqueue_send(type, payload, size)
        PROVE  MsgQueueSound'
    <2>1. tail' = IF tail + 1 < capacity THEN tail + 1 ELSE 0
      BY <1>3, RingStep, ZenonT(60) DEF msgqueue_send
    <2> QED
      BY <1>3, <2>1 DEF msgqueue_send
  <1>4. CASE msgqueue_receive
    <2>1. head' = IF head + 1 < capacity THEN head + 1 ELSE 0
      BY <1>4, RingStep, Zenon DEF msgqueue_receive
    <2> QED
      BY <1>4, <2>1, SMTT(90) DEF msgqueue_receive
  <1>5. CASE UNCHANGED queueVars
    BY <1>5 DEF queueVars
  <1> HIDE DEF MsgQueueSound, QueueTypeOK, QueueSlots
  <1> QED
    BY <1>1, <1>2, <1>3, <1>4, <1>5, Zenon DEF QueueNext

\* The indices of a message queue never leave the array and always agree with
\* its count, whatever calls are made (msgqueue.c).
THEOREM MsgQueueSafety == QueueSpec => []MsgQueueSound
  <1>1. QueueInit => MsgQueueSound
    BY DEF QueueInit, MsgQueueSound, QueueTypeOK, QueueSlots
  <1> QED
    BY <1>1, MsgQueueSoundStep, PTL DEF QueueSpec

-----------------------------------------------------------------------------
SlotsIn(m, c, V) == \A j \in 0 .. c - 1 : m[j] \in V

SeqOf(s, V, n) == s \in Seq(V) /\ Len(s) = n

\* The messages in a ring are a sequence over any set that holds its slots.
LEMMA RingedSeq ==
    ASSUME NEW m, NEW h \in Nat, NEW n \in Nat, NEW c \in Nat, h < c, n <= c,
           NEW V, SlotsIn(m, c, V)
    PROVE  SeqOf(Ringed(m, h, n, c), V, n)
  <1>1. \A i \in 1 .. n : Place(h, i, c) \in 0 .. c - 1
    BY DEF Place
  <1>2. Ringed(m, h, n, c) \in [1 .. n -> V]
    BY <1>1 DEF Ringed, SlotsIn
  <1>3. Ringed(m, h, n, c) \in Seq(V)
    BY <1>2, SeqIs
  <1> QED
    BY <1>2, <1>3, SeqLen, SMTT(60) DEF Ringed, SeqOf

\* What an enabled call knows of the ring before and after it, and the queued
\* messages before and after as sequences over one set.
LEMMA BothContents ==
    ASSUME MsgQueueSound, MsgQueueSound', capacity # 0, capacity' = capacity
    PROVE  /\ capacity \in Nat /\ head \in Nat /\ tail \in Nat /\ count \in Nat
           /\ head < capacity /\ count <= capacity /\ count' \in Nat /\ head' \in Nat
           /\ tail = IF head + count < capacity THEN head + count ELSE head + count - capacity
           /\ \E V : QueueContents \in Seq(V) /\ QueueContents' \in Seq(V)
           /\ Len(QueueContents) = count /\ Len(QueueContents') = count'
           /\ \A i \in 1 .. count : QueueContents[i] = messages[Place(head, i, capacity)]
           /\ \A i \in 1 .. count' : QueueContents'[i] = messages'[Place(head', i, capacity)]
  <1> DEFINE V == {messages[j] : j \in QueueSlots} \cup {messages'[j] : j \in QueueSlots'}
             m == messages'
             h == head'
             n == count'
  <1>1. /\ capacity \in Nat /\ head \in Nat /\ tail \in Nat /\ count \in Nat
        /\ head < capacity /\ count <= capacity
        /\ tail = IF head + count < capacity THEN head + count ELSE head + count - capacity
    BY DEF MsgQueueSound, QueueTypeOK
  <1>2. h \in Nat /\ n \in Nat /\ h < capacity /\ n <= capacity
    BY SMTT(60) DEF MsgQueueSound, QueueTypeOK
  <1>3. SlotsIn(messages, capacity, V) /\ SlotsIn(m, capacity, V)
    BY DEF QueueSlots, SlotsIn
  <1>4. QueueContents' = Ringed(m, h, n, capacity)
    BY SMTT(60) DEF QueueContents, Ringed, Place
  <1> HIDE DEF V, m, h, n
  <1>5. SeqOf(QueueContents, V, count)
    BY <1>1, <1>3, RingedSeq, Zenon DEF QueueContents
  <1>6. SeqOf(Ringed(m, h, n, capacity), V, n)
    BY <1>1, <1>2, <1>3, RingedSeq, Zenon
  <1>7. \A i \in 1 .. count : QueueContents[i] = messages[Place(head, i, capacity)]
    BY DEF QueueContents, Ringed
  <1>8. \A i \in 1 .. n : Ringed(m, h, n, capacity)[i] = m[Place(h, i, capacity)]
    BY DEF Ringed
  <1> QED
    BY <1>1, <1>2, <1>4, <1>5, <1>6, <1>7, <1>8, ZenonT(60) DEF SeqOf, m, h, n

\* A send puts one message behind the queued ones and moves none of them.
LEMMA SendPuts ==
    ASSUME MsgQueueSound, MsgQueueSound', NEW type, NEW payload, NEW size,
           msgqueue_send(type, payload, size)
    PROVE  QueuePromise!FifoNext
  <1>1. /\ capacity # 0 /\ capacity' = capacity /\ head' = head /\ received' = received
        /\ count # capacity /\ count' = count + 1
    BY DEF msgqueue_send
  <1>2. \A j \in QueueSlots : j # tail => messages'[j] = messages[j]
    BY DEF msgqueue_send
  <1>3. PICK V : QueueContents \in Seq(V) /\ QueueContents' \in Seq(V)
    BY <1>1, BothContents, Zenon
  <1>4. \A i \in 1 .. count : Place(head, i, capacity) \in QueueSlots \ {tail}
    <2>1. /\ capacity \in Nat /\ head \in Nat /\ count \in Nat /\ head < capacity /\ count <= capacity
          /\ tail = IF head + count < capacity THEN head + count ELSE head + count - capacity
      BY <1>1, BothContents, Zenon
    <2> QED
      BY <1>1, <2>1 DEF Place, QueueSlots
  <1>5. Len(QueueContents) = count /\ Len(QueueContents') = count + 1 /\ count \in Nat /\ count + 1 <= capacity
    <2>1. /\ capacity \in Nat /\ count \in Nat /\ count <= capacity
          /\ Len(QueueContents) = count /\ Len(QueueContents') = count'
      BY <1>1, BothContents, Zenon
    <2>2. count + 1 <= capacity
      BY <1>1, <2>1
    <2> QED
      BY <1>1, <2>1, <2>2, Zenon
  <1>6. \A i \in 1 .. Len(QueueContents) : QueueContents'[i] = QueueContents[i]
    <2>1. \A i \in 1 .. count : QueueContents[i] = messages[Place(head, i, capacity)]
      BY <1>1, BothContents, Zenon
    <2>2. \A i \in 1 .. count + 1 : QueueContents'[i] = messages'[Place(head, i, capacity)]
      BY <1>1, BothContents, Zenon
    <2> QED
      BY <1>2, <1>4, <1>5, <2>1, <2>2
  <1>7. /\ QueueContents' = QueueContents \o SubSeq(QueueContents', Len(QueueContents) + 1, Len(QueueContents'))
        /\ Len(SubSeq(QueueContents', Len(QueueContents) + 1, Len(QueueContents'))) = 1
    BY <1>3, <1>5, <1>6, PutOne
  <1>8. QueuePromise!Put(SubSeq(QueueContents', Len(QueueContents) + 1, Len(QueueContents')))
    BY <1>1, <1>5, <1>7 DEF QueuePromise!Put
  <1>9. Len(QueueContents') >= Len(QueueContents)
    BY <1>5
  <1> QED
    BY <1>8, <1>9 DEF QueuePromise!FifoNext

\* A receive takes the oldest message and hands it to the caller.
LEMMA ReceiveTakes ==
    ASSUME MsgQueueSound, MsgQueueSound', msgqueue_receive
    PROVE  QueuePromise!FifoNext
  <1>1. /\ capacity # 0 /\ capacity' = capacity /\ count # 0 /\ count' = count - 1
        /\ head' = (head + 1) % capacity
    BY DEF msgqueue_receive
  <1>2. messages' = messages /\ received' = <<messages[head]>>
    BY DEF msgqueue_receive
  <1>3. PICK V : QueueContents \in Seq(V) /\ QueueContents' \in Seq(V)
    BY <1>1, BothContents, Zenon
  <1>4. /\ Len(QueueContents) = count /\ Len(QueueContents') = count - 1 /\ count \in Nat /\ count # 0
        /\ head \in Nat /\ capacity \in Nat /\ head < capacity /\ count <= capacity
    BY <1>1, BothContents, Zenon
  <1>5. head' = IF head + 1 < capacity THEN head + 1 ELSE 0
    BY <1>1, <1>4, RingStep, Zenon
  <1>6. \A i \in 1 .. count - 1 : Place(head', i, capacity) = Place(head, i + 1, capacity)
    BY <1>4, <1>5 DEF Place
  <1>7. \A i \in 1 .. Len(QueueContents') : QueueContents'[i] = QueueContents[i + 1]
    <2>1. \A i \in 1 .. count : QueueContents[i] = messages[Place(head, i, capacity)]
      BY <1>1, BothContents, Zenon
    <2>2. \A i \in 1 .. count - 1 : QueueContents'[i] = messages[Place(head', i, capacity)]
      BY <1>1, <1>2, BothContents, Zenon
    <2> QED
      BY <1>4, <1>6, <2>1, <2>2
  <1>8. QueueContents' = SubSeq(QueueContents, 2, Len(QueueContents)) /\ <<QueueContents[1]>> = SubSeq(QueueContents, 1, 1)
    <2>1. Len(QueueContents) = Len(QueueContents') + 1
      BY <1>4
    <2> QED
      BY <1>3, <1>7, <2>1, TakeOne, Zenon
  <1>9. QueueContents[1] = messages[head]
    <2>1. Place(head, 1, capacity) = head
      BY <1>4 DEF Place
    <2>2. \A i \in 1 .. count : QueueContents[i] = messages[Place(head, i, capacity)]
      BY <1>1, BothContents, Zenon
    <2>3. 1 \in 1 .. count
      BY <1>4
    <2> QED
      BY <2>1, <2>2, <2>3, Zenon
  <1>10. Len(QueueContents') <= Len(QueueContents) /\ Len(QueueContents) - Len(QueueContents') = 1 /\ 1 <= Len(QueueContents)
    BY <1>4
  <1>11. QueuePromise!Take(1)
    BY <1>1, <1>2, <1>8, <1>9, <1>10 DEF QueuePromise!Take
  <1> QED
    BY <1>10, <1>11 DEF QueuePromise!FifoNext

\* Every step of the queue is a step of the FIFO, or changes nothing it shows.
LEMMA QueueStepRefines ==
    ASSUME MsgQueueSound, MsgQueueSound', [QueueNext]_queueVars
    PROVE  [QueuePromise!FifoNext]_<<QueueContents, capacity, received>>
  <1>1. ASSUME NEW n \in QueueCapacities, msgqueue_init(n) PROVE QueuePromise!FifoNext
    <2>1. QueueContents' = << >> /\ capacity' = n /\ received' = received
      BY <1>1 DEF msgqueue_init, QueueContents, Ringed
    <2> QED
      BY <2>1 DEF QueuePromise!FifoNext, QueuePromise!Open
  <1>2. ASSUME msgqueue_destroy PROVE QueuePromise!FifoNext
    <2>1. QueueContents' = << >> /\ capacity' = 0 /\ received' = received
      BY <1>2 DEF msgqueue_destroy, QueueContents, Ringed
    <2> QED
      BY <2>1 DEF QueuePromise!FifoNext, QueuePromise!Close
  <1>3. ASSUME UNCHANGED queueVars PROVE UNCHANGED <<QueueContents, capacity, received>>
    BY <1>3 DEF queueVars, QueueContents, Ringed
  <1> QED
    BY <1>1, <1>2, <1>3, SendPuts, ReceiveTakes DEF QueueNext

\* A message queue of any capacity hands out its messages once each, in the
\* order they were sent, and never overwrites one (msgqueue.c implements Fifo).
THEOREM MsgQueueImplementsFifo == QueueSpec => QueueIsFifo
  <1>1. QueueInit => QueuePromise!FifoInit
    <2> SUFFICES ASSUME QueueInit PROVE QueueContents = << >> /\ capacity = 0 /\ received = << >>
      BY DEF QueuePromise!FifoInit
    <2> QED
      BY DEF QueueInit, QueueContents, Ringed
  <1>2. MsgQueueSound /\ MsgQueueSound' /\ [QueueNext]_queueVars => [QueuePromise!FifoNext]_<<QueueContents, capacity, received>>
    BY QueueStepRefines
  <1> QED
    BY <1>1, <1>2, MsgQueueSafety, PTL DEF QueueSpec, QueueIsFifo, QueuePromise!FifoSpec

-------------------------------------------------------------------------------
(* The count stays in range and the compare-and-swap loops implement an       *)
(* atomic counting semaphore, for any set of threads, initial counts, limits. *)

\* semaphore_init leaves a positive limit and a count within it.
LEMMA InitInRange == SemaphoreInit => CountInRange
  BY SemaphoreConstants, SMTT(90)
  DEF SemaphoreInit, semaphore_init, ClampLimit, ClampInitial, CountInRange, SemaphoreTypeOK

\* One lemma per step: starting a call, the two loads and the two swaps keep
\* the count in range.
LEMMA CallInRange ==
  ASSUME CountInRange, NEW t \in Threads, NEW f \in {"try_wait", "wait", "post"}, Call(t, f)
  PROVE  CountInRange'
  BY DEF CountInRange, SemaphoreTypeOK, Call, Goto, Answer

LEMMA WaitLoadInRange ==
  ASSUME CountInRange, NEW t \in Threads, try_wait_load(t)
  PROVE  CountInRange'
  <1>1. CASE sem_count <= 0
    BY <1>1, SMTT(90) DEF CountInRange, SemaphoreTypeOK, try_wait_load, Goto, Answer
  <1>2. CASE ~ (sem_count <= 0)
    BY <1>2 DEF CountInRange, SemaphoreTypeOK, try_wait_load, Goto
  <1> QED
    BY <1>1, <1>2, SMTT(90)

LEMMA WaitSwapInRange ==
  ASSUME CountInRange, NEW t \in Threads, try_wait_swap(t)
  PROVE  CountInRange'
  <1>1. CASE sem_count = seen[t]
    BY <1>1, SMTT(60) DEF CountInRange, SemaphoreTypeOK, try_wait_swap, Goto, Answer
  <1>2. CASE sem_count # seen[t]
    BY <1>2 DEF CountInRange, SemaphoreTypeOK, try_wait_swap, Goto
  <1> QED
    BY <1>1, <1>2, SMTT(60)

LEMMA PostLoadInRange ==
  ASSUME CountInRange, NEW t \in Threads, post_load(t)
  PROVE  CountInRange'
  <1>1. CASE sem_count >= sem_limit
    BY <1>1, SMTT(60) DEF CountInRange, SemaphoreTypeOK, post_load, Goto, Answer
  <1>2. CASE ~ (sem_count >= sem_limit)
    BY <1>2, SMTT(90) DEF CountInRange, SemaphoreTypeOK, post_load, Goto
  <1> QED
    BY <1>1, <1>2, SMTT(90)

LEMMA PostSwapInRange ==
  ASSUME CountInRange, NEW t \in Threads, post_swap(t)
  PROVE  CountInRange'
  <1>1. CASE sem_count = seen[t]
    BY <1>1, SMTT(90) DEF CountInRange, SemaphoreTypeOK, post_swap, Goto, Answer
  <1>2. CASE sem_count # seen[t]
    BY <1>2 DEF CountInRange, SemaphoreTypeOK, post_swap, Goto
  <1> QED
    BY <1>1, <1>2

LEMMA StepInRange == CountInRange /\ [SemaphoreNext]_semVars => CountInRange'
  <1> SUFFICES ASSUME CountInRange, [SemaphoreNext]_semVars PROVE CountInRange'
    OBVIOUS
  <1>1. CASE UNCHANGED semVars
    BY <1>1 DEF CountInRange, SemaphoreTypeOK, semVars
  <1>2. ASSUME NEW t \in Threads, NEW f \in {"try_wait", "wait", "post"}, Call(t, f)
        PROVE  CountInRange'
    BY <1>2, CallInRange, Zenon
  <1>3. ASSUME NEW t \in Threads, Step(t) PROVE CountInRange'
    BY <1>3, WaitLoadInRange, WaitSwapInRange, PostLoadInRange, PostSwapInRange, Zenon DEF Step
  <1> QED
    BY <1>1, <1>2, <1>3, ZenonT(60) DEF SemaphoreNext

\* For every set of threads, initial counts and limits, the count stays between
\* zero and the limit whatever the interleaving (semaphore_try_wait,
\* semaphore_post): the swap only ever acts on a count the test has passed.
THEOREM SemaphoreCountInRange == SemaphoreSpec => []CountInRange
  <1>1. SemaphoreInit => CountInRange
    BY InitInRange
  <1>2. CountInRange /\ [SemaphoreNext]_semVars => CountInRange'
    BY StepInRange
  <1> QED
    BY <1>1, <1>2, PTL DEF SemaphoreSpec

-----------------------------------------------------------------------------
AbsVars == <<sem_count, sem_limit, result>>

\* What semaphore_init leaves is an initial state of the atomic semaphore.
LEMMA InitRefines == SemaphoreInit => SemaphorePromise!CountingInit
  BY InitInRange
  DEF SemaphoreInit, CountInRange, SemaphoreTypeOK, SemaphorePromise!CountingInit

\* A call begins; loads that go on and swaps that fail change nothing the
\* callers see.
LEMMA CallRefines ==
  ASSUME NEW t \in Threads, NEW f, Call(t, f)
  PROVE  SemaphorePromise!CountingNext
  <1>1. SemaphorePromise!Begin(t)
    BY DEF Call, Answer, SemaphorePromise!Begin
  <1> QED
    BY <1>1, Zenon DEF SemaphorePromise!CountingNext

\* Each load or swap is one step of the atomic semaphore, or invisible.
LEMMA WaitLoadRefines ==
  ASSUME CountInRange, NEW t \in Threads, try_wait_load(t)
  PROVE  SemaphorePromise!CountingNext \/ UNCHANGED AbsVars
  <1>1. CASE sem_count <= 0 /\ pc[t] = "try_wait"
    <2>1. SemaphorePromise!Refuse(t)
      BY <1>1, SMTT(60) DEF CountInRange, SemaphoreTypeOK, try_wait_load, Answer, SemaphorePromise!Refuse
    <2> QED
      BY <2>1, ZenonT(60) DEF SemaphorePromise!CountingNext
  <1>2. CASE ~ (sem_count <= 0 /\ pc[t] = "try_wait")
    BY <1>2 DEF try_wait_load, AbsVars
  <1> QED
    BY <1>1, <1>2

LEMMA WaitSwapRefines ==
  ASSUME CountInRange, NEW t \in Threads, try_wait_swap(t)
  PROVE  SemaphorePromise!CountingNext \/ UNCHANGED AbsVars
  <1>1. CASE sem_count = seen[t]
    <2>1. SemaphorePromise!Take(t)
      BY <1>1, SMTT(90) DEF CountInRange, SemaphoreTypeOK, try_wait_swap, Answer, SemaphorePromise!Take
    <2> QED
      BY <2>1, ZenonT(60) DEF SemaphorePromise!CountingNext
  <1>2. CASE sem_count # seen[t]
    BY <1>2, Zenon DEF try_wait_swap, AbsVars
  <1> QED
    BY <1>1, <1>2

LEMMA PostLoadRefines ==
  ASSUME CountInRange, NEW t \in Threads, post_load(t)
  PROVE  SemaphorePromise!CountingNext \/ UNCHANGED AbsVars
  <1>1. CASE sem_count >= sem_limit
    <2>1. SemaphorePromise!Overflow(t)
      BY <1>1, SMTT(60) DEF CountInRange, SemaphoreTypeOK, post_load, Answer, SemaphorePromise!Overflow
    <2> QED
      BY <2>1, ZenonT(60) DEF SemaphorePromise!CountingNext
  <1>2. CASE ~ (sem_count >= sem_limit)
    BY <1>2 DEF post_load, AbsVars
  <1> QED
    BY <1>1, <1>2

LEMMA PostSwapRefines ==
  ASSUME CountInRange, NEW t \in Threads, post_swap(t)
  PROVE  SemaphorePromise!CountingNext \/ UNCHANGED AbsVars
  <1>1. CASE sem_count = seen[t]
    <2>1. SemaphorePromise!Give(t)
      BY <1>1, SMTT(90) DEF CountInRange, SemaphoreTypeOK, post_swap, Answer, SemaphorePromise!Give
    <2> QED
      BY <2>1, ZenonT(60) DEF SemaphorePromise!CountingNext
  <1>2. CASE sem_count # seen[t]
    BY <1>2, Zenon DEF post_swap, AbsVars
  <1> QED
    BY <1>1, <1>2

LEMMA StepRefines ==
  CountInRange /\ [SemaphoreNext]_semVars => [SemaphorePromise!CountingNext]_AbsVars
  <1> SUFFICES ASSUME CountInRange, [SemaphoreNext]_semVars
               PROVE  SemaphorePromise!CountingNext \/ UNCHANGED AbsVars
    BY Zenon
  <1>1. CASE UNCHANGED semVars
    BY <1>1 DEF semVars, AbsVars
  <1>2. ASSUME NEW t \in Threads, NEW f \in {"try_wait", "wait", "post"}, Call(t, f)
        PROVE  SemaphorePromise!CountingNext
    BY <1>2, CallRefines, Zenon
  <1>3. ASSUME NEW t \in Threads, Step(t) PROVE SemaphorePromise!CountingNext \/ UNCHANGED AbsVars
    BY <1>3, WaitLoadRefines, WaitSwapRefines, PostLoadRefines, PostSwapRefines, Zenon DEF Step
  <1> QED
    BY <1>1, <1>2, <1>3, Zenon DEF SemaphoreNext

\* The load-and-swap loops of semaphore.c implement the atomic counting
\* semaphore for every set of threads: a successful swap is a take or a give, a
\* load that ends the call is a refusal, and everything else is invisible.
THEOREM SemaphoreImplementsCounting == SemaphoreSpec => ImplementsCounting
  <1>1. SemaphoreInit => SemaphorePromise!CountingInit
    BY InitRefines
  <1>2. CountInRange /\ [SemaphoreNext]_semVars => [SemaphorePromise!CountingNext]_<<sem_count, sem_limit, result>>
    BY StepRefines DEF AbsVars
  <1> QED
    BY <1>1, <1>2, SemaphoreCountInRange, PTL
    DEF SemaphoreSpec, ImplementsCounting, SemaphorePromise!CountingSpec
===============================================================================
