------------------------------- MODULE MCKernel -------------------------------
(* The kernel's memory, its processes and its files.  The components share no  *)
(* state (a process that exits keeps its segments and its files), so a          *)
(* behaviour exercises one of Components and leaves the others where they       *)
(* started.                                                                     *)
(*                                                                              *)
(* Heap: an arena of eighteen units; the mask of align_size is 16 units wide    *)
(* and size_t 32, so that requests on both sides of both limits are made.       *)
(* Pmm: two-byte frames, the low "megabyte" one frame, and a kernel that ends   *)
(* in the middle of a frame.  Paging: tables of two entries, five frames for    *)
(* tables where a page needs up to three, and pages that share all, some or     *)
(* none of their tables.  Hash table: three keys in one bucket, two of them     *)
(* with the same hash, and fewer entries than keys.                             *)
(* Processes: two beside the kernel's own, and two addresses for threads, so    *)
(* that a freed thread's address is used again.  Shared memory: two places,     *)
(* two keys, two callers and three ids.                                         *)
(* Files: "tree" builds and lists the tree, "data" reads and writes.  Path:     *)
(* every string of up to seven characters over "/", "." and a letter.           *)
EXTENDS Heap, Pmm, AddressSpace, KernelLib, Processes, Files

CONSTANTS Components, t1, t2, k1, k2, b1, b2, p1, p2

VARIABLE component

MCThreads == {t1, t2}
MCKeys == {k1, k2}
MCBlocks == {b1, b2}
MCCallers == {p1, p2}

MCRequests == {0, 1, 3, 6, 17, 31}

R(b, l, t) == [base |-> b, length |-> l, type |-> t]

\* Unaligned borders, an empty entry, a hole, device memory past the bitmap, a
\* usable region below the kernel, one entry too many for the table, and no map.
MCMaps == {
    << >>,
    <<R(0, 18, "usable")>>,
    <<R(0, 10, "usable"), R(20, 4, "reserved")>>,
    <<R(0, 9, "usable"), R(9, 2, "reserved"), R(11, 8, "usable")>>,
    <<R(9, 9, "usable"), R(0, 0, "usable"), R(0, 5, "bootloader"), R(5, 3, "reserved")>>,
    <<R(1, 9, "usable"), R(10, 5, "bootloader"), R(15, 5, "usable"), R(20, 4, "usable")>> }

NoModule == [base |-> 0, length |-> 0]

MCModules == {NoModule, [base |-> 9, length |-> 1]}

MCVirtPages == {<<0, 0, 0, 0>>, <<0, 0, 0, 1>>, <<0, 0, 1, 0>>, <<1, 0, 0, 0>>, <<1, 1, 1, 0>>}
MCHugePath == [index |-> <<1, 1, 1>>, frames |-> <<11, 12, 20>>]

MCHashOf == [a |-> 1, b |-> 3, c |-> 3, d |-> 2]

\* One or two segments: in or out of the file, empty, at the end of the address
\* space, not to be loaded; entry points inside, between and outside them.
MCSegments ==
    {[load |-> TRUE, offset |-> o, filesz |-> f, memsz |-> m, vaddr |-> v] :
        o \in {0, 6}, f \in {0, 2}, m \in {0, 2, 15}, v \in {3, 14}}
    \cup {[load |-> FALSE, offset |-> 9, filesz |-> 9, memsz |-> 0, vaddr |-> 0]}
MCImages ==
    {[size |-> z, ident_ok |-> z # 9, phoff |-> 2, entry |-> e, segments |-> s] :
        z \in {1, 6, 7, 9}, e \in {4, 15},
        s \in {<<p, q>> : p, q \in MCSegments} \cup {<<p>> : p \in MCSegments} \cup {<< >>}}

NoProgram == CHOOSE i \in MCImages : i.segments = << >>

Entry(path, type, data) == [path |-> path, type |-> type, data |-> data, bad |-> FALSE]
BadEntry == [path |-> << >>, type |-> "LINK", data |-> << >>, bad |-> TRUE]
Archive(entries) == [entries |-> entries, ended |-> TRUE]

NoArchive == Archive(<< >>)

\* No archive; nested entries, and a file that comes twice; a file where a
\* directory is; a directory where a file is; a file too large for the heap; a bad
\* header; an archive that is cut off.
MCArchives ==
    { NoArchive,
      Archive(<<Entry(<<"a", "b">>, "FILE", <<"x">>), Entry(<<"a">>, "DIR", << >>),
              Entry(<<"a", "b">>, "FILE", <<"y", "x">>), Entry(<<"a">>, "LINK", << >>)>>),
      Archive(<<Entry(<<"a">>, "DIR", << >>), Entry(<<"a">>, "FILE", <<"x">>)>>),
      Archive(<<Entry(<<"a">>, "FILE", << >>), Entry(<<"a", "b">>, "LINK", << >>)>>),
      Archive(<<Entry(<<"a">>, "FILE", <<"x", "x", "x", "x", "x">>)>>),
      Archive(<<Entry(<<"b">>, "FILE", <<"x">>), BadEntry>>),
      [entries |-> <<Entry(<<"b">>, "DIR", << >>)>>, ended |-> FALSE] }

\* /dev and /dev/klog; /tmp and /proc are like /dev.
MCBoot == <<[path |-> <<"dev">>, type |-> "DIR"], [path |-> <<"dev", "klog">>, type |-> "FILE"]>>

MCTreePaths == {<<"a">>, <<"a", "b">>, <<"a", "..", "b">>, <<"L1">>, <<"L2">>, <<"dev", "klog">>, << >>}

MCDataPaths == {<<"a">>}

MCWrites == {<< >>, <<"x">>, <<"y", "x">>}

Init ==
    /\ component \in Components
    /\ HeapInit
    /\ PmmInit /\ (component # "pmm" => regions = << >> /\ module = NoModule)
    /\ PagingInit /\ SlabInit /\ HashMapInit
    /\ ElfInit /\ (component # "elf" => image = NoProgram)
    /\ ProcInit /\ ShmInit
    /\ FilesInit /\ (component # "tree" => initrd.archive = NoArchive)
    /\ PathInit /\ (component # "path" => input = << >>)

memoryVars == <<heapVars, pmmVars, pagingVars, slabVars, hashVars, elfVars>>
systemVars == <<allVars, shmVars, filesVars, pathVars>>

MemoryNext ==
    \/ component = "heap" /\ HeapNext /\ UNCHANGED <<pmmVars, pagingVars, slabVars, hashVars, elfVars>>
    \/ component = "pmm" /\ PmmNext /\ UNCHANGED <<heapVars, pagingVars, slabVars, hashVars, elfVars>>
    \/ component = "paging" /\ PagingNext /\ UNCHANGED <<heapVars, pmmVars, slabVars, hashVars, elfVars>>
    \/ component = "slab" /\ SlabNext /\ UNCHANGED <<heapVars, pmmVars, pagingVars, hashVars, elfVars>>
    \/ component = "hashmap" /\ HashMapNext /\ UNCHANGED <<heapVars, pmmVars, pagingVars, slabVars, elfVars>>
    \/ component = "elf" /\ ElfNext /\ UNCHANGED <<heapVars, pmmVars, pagingVars, slabVars, hashVars>>

\* The bounds on what is followed of the file system: one descriptor open while the
\* tree is built; two descriptors and one new node while files are used.
TreeBound == Cardinality({fd \in Fds : table[fd] # NULL}) <= 1
DataBound == Cardinality({fd \in Fds : table[fd] # NULL}) <= 2 /\ Cardinality(DOMAIN tree) <= 4

SystemNext ==
    \/ component = "processes" /\ ProcNext /\ UNCHANGED <<shmVars, filesVars, pathVars>>
    \/ component = "shm" /\ ShmNext /\ UNCHANGED <<allVars, filesVars, pathVars>>
    \/ component = "tree" /\ TreeCalls /\ TreeBound' /\ UNCHANGED <<allVars, shmVars, pathVars>>
    \/ component = "data" /\ DataCalls /\ DataBound' /\ UNCHANGED <<allVars, shmVars, pathVars>>
    \/ component = "path" /\ PathNext /\ UNCHANGED <<allVars, shmVars, filesVars>>

Next ==
    /\ \/ MemoryNext /\ UNCHANGED systemVars
       \/ SystemNext /\ UNCHANGED memoryVars
    /\ UNCHANGED component

Spec == Init /\ [][Next]_<<memoryVars, systemVars, component>>

\* (An invariant below looks at the component it is about: the state of the others
\* does not change.)

\* The page tables are a tree that maps what was mapped; the slab cache hands
\* nothing out twice; the hash table is a partial function; exactly the sound
\* images are loaded; and attached memory exists (paging.c, slab.c, hashmap.c,
\* elf_loader.c, shm.c).
TablesExact ==
    /\ component = "paging" => PagingExact
    /\ component = "slab" => SlabExact
    /\ component = "hashmap" => HashMapExact
    /\ component = "elf" => LoadsExactly
    /\ component = "shm" => AttachedBacked

\* The tree of tmpfs is the one its calls describe and its files hold what was
\* written to them, until a call overruns its memory or hangs, which takes more
\* than 2^31 bytes; and a normalised path names what the path named (vfs.c,
\* tmpfs.c, path.c).
FilesExact ==
    /\ component \in {"tree", "data"} => (wrecked = NULL => TreeExact /\ FileHolds)
    /\ component = "data" => SmallSizesSafe
    /\ component = "path" => PathSound

\* What a step never does: the heap writes past a block it granted (WritesFit), a
\* process leaves the list before its parent was told (ReportsExit), the initial
\* archive is reported as loaded with a file missing (InitrdLoaded).
NoLossyStep == WritesFit /\ ReportsExit /\ InitrdLoaded
===============================================================================
