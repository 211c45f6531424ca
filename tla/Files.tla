-------------------------------- MODULE Files --------------------------------
(***************************************************************************)
(* The file system as system calls use it: the tree of tmpfs nodes         *)
(* (fs/vfs.c, fs/tmpfs.c), the descriptor table all processes share        *)
(* (fs/fd_table.c), and the calls of proc/syscall_handlers.c, each of them *)
(* one step because calls run with interrupts off.                         *)
(*                                                                         *)
(* A path is the sequence of names KernelLib makes of its characters.      *)
(* Names of VFS_NAME_MAX characters or more are LongNames; all of them are *)
(* stored as Cut.  The pipe behind a descriptor is the bounded queue that  *)
(* ByteBuffers implements.  Open flags and reference counts of descriptors *)
(* are kept by the code but never read, and are left out.                  *)
(*                                                                         *)
(* The heap grants a block by the low 32 bits of the size asked for.  A    *)
(* file grown to 2^32 bytes or more is cleared past its block, a read      *)
(* whose length wraps copies past the file, and the loop that doubles the  *)
(* capacity never ends once it has wrapped to 0: wrecked says which of     *)
(* these has happened, and the model ends there.                           *)
(***************************************************************************)
EXTENDS Integers, Sequences, SequencesExt, FiniteSetsExt

CONSTANTS
    Names, LongNames, Cut,
    TreePaths,      \* the paths callers build the tree with, ".." included
    DataPaths,      \* the paths callers open to read and write
    Writes,         \* the byte sequences callers write
    Zero, Junk,     \* the cleared byte, and what fresh memory holds
    Sizes,          \* lengths read, offsets and sizes asked for
    FarOffset,      \* an offset far past every file
    HugeSize,       \* a size the heap grants by its low half
    NULL,
    MaxNodes,       \* nodes the heap has room for
    FD_TABLE_MAX,
    DupTargets,     \* the descriptors callers duplicate onto
    FirstCapacity,  \* 128 in the code
    MaxCapacity,    \* largest file the heap has room for
    BlockMod,       \* 2^32: the heap grants a size by its low half (align_size)
    WordBits,       \* 64: the width of size_t
    PipeRoom,
    BootNodes,      \* the nodes init_filesystems creates, in order
    Archives        \* initrd images: entries, and whether a zero block ends them

ASSUME FilesConstants ==
    /\ MaxNodes \in Nat /\ FD_TABLE_MAX \in Nat /\ FirstCapacity \in Nat \ {0}
    /\ LongNames \subseteq Names /\ NULL \notin 0 .. MaxNodes

VARIABLES
    tree,       \* node -> [name, type, parent, children (newest first)]
    file,       \* node -> [data, size]; data has the capacity as its length
    table,      \* descriptor -> [node, offset], or NULL
    initrd,     \* [archive, next entry, result: "loading", "loaded" or "failed"]
    last,       \* history: node -> offset -> byte last written there
    listing,    \* history: descriptor -> nodes sys_readdir returned; NULL once unsure
    wrecked,    \* how the kernel's memory was overrun or a call hung, or NULL
    misdirected \* history: a write to an open descriptor did not reach its node

filesVars == <<tree, file, table, initrd, last, listing, misdirected, wrecked>>

\* The offsets descriptors are followed to.
Offsets == 0 .. MaxCapacity \cup {FarOffset}

Fds == 0 .. FD_TABLE_MAX - 1

Root == 0

-----------------------------------------------------------------------------
(* The tree                                                                *)

\* What a node's name field holds, and what a lookup compares with it.
Stored(name) == IF name \in LongNames THEN Cut ELSE name

\* path_normalize of KernelLib, on components.
Normalized(path) ==
    FoldLeft(LAMBDA p, c : IF c = ".." THEN SubSeq(p, 1, Len(p) - 1) ELSE Append(p, c),
             << >>, path)

tmpfs_lookup(t, dir, name) ==
    IF dir = NULL \/ t[dir].type # "DIR" THEN NULL
    ELSE LET same == SelectSeq(t[dir].children, LAMBDA c : t[c].name = name)
         IN  IF same = << >> THEN NULL ELSE Head(same)

vfs_lookup(t, path) ==
    FoldLeft(LAMBDA n, c : tmpfs_lookup(t, n, Stored(c)), Root, Normalized(path))

vfs_attach_child(t, parent, child, node) ==
    [n \in DOMAIN t \cup {child} |->
        IF n = child THEN node
        ELSE IF n = parent THEN [t[n] EXCEPT !.children = <<child>> \o @] ELSE t[n]]

NewNode(name, type, parent) ==
    [name |-> Stored(name), type |-> type, parent |-> parent, children |-> << >>]

\* The tree and the new node, or NULL if there is none.  The name as given is
\* compared with the names as stored.
tmpfs_create_node(t, dir, name, type) ==
    IF \/ dir = NULL \/ Cardinality(DOMAIN t) = MaxNodes
       \/ t[dir].type # "DIR" \/ tmpfs_lookup(t, dir, name) # NULL
    THEN [tree |-> t, node |-> NULL]
    ELSE LET n == Cardinality(DOMAIN t)
         IN  [tree |-> vfs_attach_child(t, dir, n, NewNode(name, type, dir)), node |-> n]

vfs_create(t, path, type) ==
    LET p == Normalized(path) IN
    IF p = << >> THEN [tree |-> t, node |-> NULL]
    ELSE tmpfs_create_node(t, vfs_lookup(t, SubSeq(p, 1, Len(p) - 1)), Last(p), type)

\* Every proper prefix of the path is created if it is not there; failures are
\* ignored.
make_parent_dirs(t, path) ==
    FoldLeft(LAMBDA u, k : LET prefix == SubSeq(path, 1, k)
                           IN  IF vfs_lookup(u, prefix) # NULL THEN u
                               ELSE vfs_create(u, prefix, "DIR").tree,
             t, [k \in 1 .. Len(path) - 1 |-> k])

\* Mutant of CanUnlink: a populated directory may go.
CanUnlink_populated(n) == n # NULL /\ n # Root

CanUnlink(n) ==
    /\ n # NULL /\ n # Root
    /\ ~ (tree[n].type = "DIR" /\ tree[n].children # << >>)

-----------------------------------------------------------------------------
(* Files                                                                   *)

NoFile == [data |-> << >>, size |-> 0]

\* A file structure appears with the first write or truncation; until then the
\* node behaves like an empty file.
FileOf(f, n) == IF n \in DOMAIN f THEN f[n] ELSE NoFile

\* Mutant of Grown: fresh memory is not cleared.
Grown_junk(d, capacity) == d \o [i \in 1 .. capacity - Len(d) |-> Junk]

Grown(d, capacity) == d \o [i \in 1 .. capacity - Len(d) |-> Zero]

\* The capacity the doubling loop ends with; NULL if it has become 0 on the way.
Doubled(capacity, required) ==
    LET start == IF capacity = 0 THEN FirstCapacity ELSE capacity
        reached == {k \in 0 .. WordBits : (start * 2^k) % 2^WordBits >= required}
    IN  IF reached = {} THEN NULL ELSE (start * 2^Min(reached)) % 2^WordBits

Done(f) == [end |-> "done", file |-> f]
Failed == [end |-> "failed"]
Wrecked(how, size) == [end |-> how, size |-> size]

\* krealloc finds a block: it looks at the low half of the size only.
HeapGrants(size) == size % BlockMod <= MaxCapacity

\* What comes of writing bytes at offset.  The fresh part of the block is cleared,
\* which overruns a block granted by the low half of the capacity.
tmpfs_write(f, offset, bytes) ==
    LET required == offset + Len(bytes)
        grows == required > Len(f.data)
        capacity == IF grows THEN Doubled(Len(f.data), required) ELSE Len(f.data)
    IN  IF capacity = NULL THEN Wrecked("hung", required)
        ELSE IF grows /\ ~ HeapGrants(capacity) THEN Failed
        ELSE IF grows /\ capacity > MaxCapacity THEN Wrecked("overrun", required)
        ELSE LET d == Grown(f.data, capacity)
             IN  Done([data |-> [i \in 1 .. capacity |->
                                   IF i > offset /\ i <= required THEN bytes[i - offset] ELSE d[i]],
                       size |-> IF required > f.size THEN required ELSE f.size])

\* Truncating keeps the bytes that are cut off.
tmpfs_truncate(f, size) ==
    IF size <= Len(f.data) THEN Done([data |-> f.data, size |-> size])
    ELSE IF ~ HeapGrants(size) THEN Failed
    ELSE IF size > MaxCapacity THEN Wrecked("overrun", size)
    ELSE Done([data |-> Grown(f.data, size), size |-> size])

WithFile(f, n, new) ==
    [m \in DOMAIN f \cup {n} |-> IF m = n THEN new ELSE f[m]]

\* The bytes a read at this offset copies: all of count if the sum wraps.
tmpfs_read_length(f, offset, count) ==
    IF offset >= f.size THEN 0
    ELSE IF (offset + count) % 2^WordBits > f.size THEN f.size - offset ELSE count

-----------------------------------------------------------------------------
(* Boot                                                                    *)

\* tmpfs_create_root, vfs_mount_root and init_filesystems.
FilesInit ==
    /\ tree = FoldLeft(LAMBDA t, b : vfs_create(t, b.path, b.type).tree,
                       [n \in {Root} |-> [name |-> "/", type |-> "DIR", parent |-> Root,
                                          children |-> << >>]],
                       BootNodes)
    /\ file = [n \in {} |-> NoFile]
    /\ table = [fd \in Fds |-> NULL]
    /\ \E a \in Archives : initrd = [archive |-> a, next |-> 1, result |-> "loading"]
    /\ last = [n \in 0 .. MaxNodes - 1 |-> [i \in 1 .. MaxCapacity |-> Zero]]
    /\ listing = [fd \in Fds |-> << >>]
    /\ misdirected = FALSE /\ wrecked = NULL

\* The bytes on record once these were written at offset.
Recorded(n, offset, bytes) ==
    [last EXCEPT ![n] = [i \in 1 .. MaxCapacity |->
        IF i > offset /\ i <= offset + Len(bytes) THEN bytes[i - offset] ELSE @[i]]]

\* Mutant of LoadFile: the result of the write is not looked at.
LoadFile_unchecked(made, e) ==
    LET new == tmpfs_write(FileOf(file, made.node), 0, e.data) IN
    IF made.tree[made.node].type # "FILE" \/ new.end # "done"
    THEN /\ initrd' = [initrd EXCEPT !.next = @ + 1] /\ UNCHANGED <<file, last>>
    ELSE /\ initrd' = [initrd EXCEPT !.next = @ + 1]
         /\ file' = WithFile(file, made.node, new.file)
         /\ last' = Recorded(made.node, 0, e.data)

LoadFile(made, e) ==
    LET new == tmpfs_write(FileOf(file, made.node), 0, e.data) IN
    IF made.tree[made.node].type # "FILE" \/ new.end # "done"
    THEN /\ initrd' = [initrd EXCEPT !.result = "failed"] /\ UNCHANGED <<file, last>>
    ELSE /\ initrd' = [initrd EXCEPT !.next = @ + 1]
         /\ file' = WithFile(file, made.node, new.file)
         /\ last' = Recorded(made.node, 0, e.data)

\* As make_parent_dirs, but it stops at the first failure.
ensure_directories(t, path) ==
    FoldLeft(LAMBDA r, k :
                LET prefix == SubSeq(path, 1, k)
                    made == vfs_create(r.tree, prefix, "DIR")
                IN  IF ~ r.ok \/ vfs_lookup(r.tree, prefix) # NULL THEN r
                    ELSE [tree |-> made.tree, ok |-> made.node # NULL],
             [tree |-> t, ok |-> TRUE], [k \in 1 .. Len(path) - 1 |-> k])

LoadFailed == initrd' = [initrd EXCEPT !.result = "failed"] /\ UNCHANGED <<file, last>>

LoadNext == initrd' = [initrd EXCEPT !.next = @ + 1] /\ UNCHANGED <<file, last>>

\* Entries other than files and directories only have their parents made.
LoadEntry(e) ==
    LET parents == ensure_directories(tree, e.path)
        found == vfs_lookup(parents.tree, e.path)
        made == IF ~ parents.ok \/ found # NULL \/ e.type \notin {"FILE", "DIR"}
                THEN [tree |-> parents.tree, node |-> found]
                ELSE vfs_create(parents.tree, e.path, e.type)
    IN  /\ tree' = made.tree
        /\ IF ~ parents.ok \/ (made.node = NULL /\ e.type \in {"FILE", "DIR"}) THEN LoadFailed
           ELSE IF e.type = "FILE" THEN LoadFile(made, e)
           ELSE LoadNext

\* One turn of the loop of initrd_load; a header that does not parse or data
\* that goes past the image is a bad entry.  The kernel starts whatever comes of it.
initrd_load ==
    /\ initrd.result = "loading"
    /\ LET entries == initrd.archive.entries IN
       \/ /\ initrd.next > Len(entries)
          /\ initrd' = [initrd EXCEPT !.result = IF initrd.archive.ended THEN "loaded" ELSE "failed"]
          /\ UNCHANGED <<tree, file, last>>
       \/ /\ initrd.next <= Len(entries) /\ entries[initrd.next].bad
          /\ LoadFailed /\ UNCHANGED tree
       \/ /\ initrd.next <= Len(entries) /\ ~ entries[initrd.next].bad
          /\ LoadEntry(entries[initrd.next])
    /\ UNCHANGED <<table, listing, misdirected, wrecked>>

-----------------------------------------------------------------------------
(* System calls                                                            *)

Up == initrd.result # "loading" /\ wrecked = NULL

FreeFds(t) == {fd \in Fds : fd >= 3 /\ t[fd] = NULL}

\* The table with a descriptor for n, unchanged if there is no place.
fd_alloc(t, n, offset) ==
    IF FreeFds(t) = {} THEN t
    ELSE [t EXCEPT ![Min(FreeFds(t))] = [node |-> n, offset |-> offset]]

\* What is known of the listings once the tree and the table have changed.
Known(l) ==
    [fd \in Fds |->
        IF table'[fd] = NULL THEN << >>
        ELSE IF /\ table'[fd].node \in DOMAIN tree
                /\ tree'[table'[fd].node].children # tree[table'[fd].node].children
             THEN NULL ELSE l[fd]]

\* Parents and node are created, the file cut, and only then is a descriptor
\* looked for.
sys_open(path, flags) ==
    LET found == vfs_lookup(tree, path)
        made == IF found = NULL /\ "CREAT" \in flags
                THEN vfs_create(make_parent_dirs(tree, path), path,
                                IF "DIRECTORY" \in flags THEN "DIR" ELSE "FILE")
                ELSE [tree |-> tree, node |-> found]
        n == made.node
    IN  /\ Up
        /\ tree' = made.tree
        /\ file' = IF n # NULL /\ "TRUNC" \in flags /\ made.tree[n].type = "FILE"
                   THEN WithFile(file, n, tmpfs_truncate(FileOf(file, n), 0).file) ELSE file
        /\ table' = IF n = NULL THEN table
                    ELSE fd_alloc(table, n, IF "APPEND" \in flags THEN FileOf(file', n).size ELSE 0)
        /\ listing' = Known([fd \in Fds |-> IF table[fd] = NULL THEN << >> ELSE listing[fd]])
        /\ UNCHANGED <<initrd, last, misdirected, wrecked>>

sys_close(fd) ==
    /\ Up /\ table[fd] # NULL
    /\ table' = [table EXCEPT ![fd] = NULL]
    /\ listing' = [listing EXCEPT ![fd] = << >>]
    /\ UNCHANGED <<tree, file, initrd, last, misdirected, wrecked>>

sys_mkdir(path) ==
    /\ Up
    /\ tree' = vfs_create(make_parent_dirs(tree, path), path, "DIR").tree
    /\ UNCHANGED <<file, table, initrd, last, misdirected, wrecked>>
    /\ listing' = Known(listing)

\* sys_unlink serves rmdir too.  The node itself is kept.
sys_unlink(path) ==
    LET n == vfs_lookup(tree, path) IN
    /\ Up /\ CanUnlink(n)
    /\ tree' = [tree EXCEPT ![tree[n].parent].children = SelectSeq(@, LAMBDA c : c # n),
                            ![n].parent = NULL]
    /\ UNCHANGED <<file, table, initrd, last, misdirected, wrecked>>
    /\ listing' = Known(listing)

sys_opendir(path) ==
    LET n == vfs_lookup(tree, path) IN
    /\ Up /\ n # NULL /\ tree[n].type = "DIR"
    /\ table' = fd_alloc(table, n, 0)
    /\ UNCHANGED <<tree, file, initrd, last, listing, misdirected, wrecked>>

\* Mutant of sys_readdir: the offset moves by two.
sys_readdir_skips(fd) ==
    /\ Up /\ table[fd] # NULL /\ tree[table[fd].node].type = "DIR"
    /\ LET children == tree[table[fd].node].children IN
       /\ table[fd].offset < Len(children)
       /\ table' = [table EXCEPT ![fd].offset = @ + 2]
       /\ listing' = IF listing[fd] = NULL THEN listing
                     ELSE [listing EXCEPT ![fd] = Append(@, children[table[fd].offset + 1])]
    /\ UNCHANGED <<tree, file, initrd, last, misdirected, wrecked>>

sys_readdir(fd) ==
    /\ Up /\ table[fd] # NULL /\ tree[table[fd].node].type = "DIR"
    /\ LET children == tree[table[fd].node].children IN
       /\ table[fd].offset < Len(children)
       /\ table' = [table EXCEPT ![fd].offset = @ + 1]
       /\ listing' = IF listing[fd] = NULL THEN listing
                     ELSE [listing EXCEPT ![fd] = Append(@, children[table[fd].offset + 1])]
    /\ UNCHANGED <<tree, file, initrd, last, misdirected, wrecked>>

\* The copy has its own offset.
fd_dup2(old, new) ==
    /\ table' = [table EXCEPT ![new] = table[old]]
    /\ listing' = [listing EXCEPT ![new] = listing[old]]

sys_dup(fd) ==
    /\ Up /\ table[fd] # NULL /\ FreeFds(table) # {}
    /\ fd_dup2(fd, Min(FreeFds(table)))
    /\ UNCHANGED <<tree, file, initrd, last, misdirected, wrecked>>

sys_dup2(old, new) ==
    /\ Up /\ table[old] # NULL /\ old # new
    /\ fd_dup2(old, new)
    /\ UNCHANGED <<tree, file, initrd, last, misdirected, wrecked>>

\* The end of the file, or of the pipe (whose size field stays 0).
SizeOf(n) == IF tree[n].type = "FILE" THEN FileOf(file, n).size ELSE 0

\* From the start (0), from here (1), from the end (2).  Offsets bounds where it is
\* followed to.
sys_seek(fd, offset, whence) ==
    /\ Up /\ table[fd] # NULL
    /\ LET base == CASE whence = 0 -> 0
                     [] whence = 1 -> table[fd].offset
                     [] whence = 2 -> SizeOf(table[fd].node)
       IN  /\ base + offset \in Offsets
           /\ table' = [table EXCEPT ![fd].offset = base + offset]
           /\ listing' = [listing EXCEPT ![fd] = IF base + offset = 0 \/ tree[table[fd].node].type # "DIR"
                                                 THEN << >> ELSE NULL]
    /\ UNCHANGED <<tree, file, initrd, last, misdirected, wrecked>>

\* A node called "klog", wherever it is, reads the kernel log instead.
sys_read(fd, count) ==
    /\ Up /\ fd # 0 /\ table[fd] # NULL
    /\ LET n == table[fd].node IN
       /\ tree[n].type # "DIR" \/ tree[n].name = "klog"
       /\ \E got \in 0 .. count :
             /\ tree[n].name # "klog" =>
                  got = IF tree[n].type = "FILE"
                        THEN tmpfs_read_length(FileOf(file, n), table[fd].offset, count)
                        ELSE Min({count, Len(file[n].data)})
             /\ \/ /\ tree[n].type = "FILE" /\ got > 0 /\ table[fd].offset + got > FileOf(file, n).size
                   /\ tree[n].name # "klog"
                   /\ wrecked' = Wrecked("overrun", got)
                   /\ UNCHANGED <<table, file, listing>>
                \/ /\ table[fd].offset + got \in Offsets
                   /\ table' = [table EXCEPT ![fd].offset = @ + got]
                   /\ file' = IF tree[n].type = "PIPE"
                              THEN [file EXCEPT ![n].data = SubSeq(@, got + 1, Len(@))] ELSE file
                   /\ listing' = IF tree[n].type = "DIR" THEN [listing EXCEPT ![fd] = NULL] ELSE listing
                   /\ UNCHANGED wrecked
    /\ UNCHANGED <<tree, initrd, last, misdirected>>

\* Descriptors 1 and 2 are the console, whatever the table says.
sys_write(fd, bytes) ==
    /\ Up
    /\ \/ /\ fd \in {1, 2}
          /\ misdirected' = (misdirected \/ table[fd] # NULL)
          /\ UNCHANGED <<file, table, last, wrecked>>
       \/ /\ fd \notin {1, 2} /\ table[fd] # NULL
          /\ LET n == table[fd].node
                 offset == table[fd].offset
                 new == tmpfs_write(FileOf(file, n), offset, bytes)
                 taken == Min({Len(bytes), PipeRoom - Len(FileOf(file, n).data)})
             IN  /\ UNCHANGED misdirected
                 /\ \/ /\ tree[n].type = "FILE" /\ new.end = "done"
                       /\ file' = WithFile(file, n, new.file)
                       /\ table' = [table EXCEPT ![fd].offset = offset + Len(bytes)]
                       /\ last' = Recorded(n, offset, bytes)
                       /\ UNCHANGED wrecked
                    \/ /\ tree[n].type = "FILE" /\ new.end \in {"overrun", "hung"}
                       /\ wrecked' = new
                       /\ UNCHANGED <<file, table, last>>
                    \/ /\ tree[n].type = "PIPE" /\ offset + taken \in Offsets
                       /\ file' = [file EXCEPT ![n].data = @ \o SubSeq(bytes, 1, taken)]
                       /\ table' = [table EXCEPT ![fd].offset = offset + taken]
                       /\ UNCHANGED <<last, wrecked>>
    /\ UNCHANGED <<tree, initrd, listing>>

\* sys_ftruncate, and sys_truncate on the node its path leads to.
truncate(n, size) ==
    /\ n # NULL /\ tree[n].type = "FILE"
    /\ LET new == tmpfs_truncate(FileOf(file, n), size) IN
       \/ /\ new.end = "done" /\ file' = WithFile(file, n, new.file) /\ UNCHANGED wrecked
       \/ /\ new.end = "overrun" /\ wrecked' = new /\ UNCHANGED file
    /\ UNCHANGED <<tree, table, initrd, last, listing, misdirected>>

sys_truncate(path, size) == Up /\ truncate(vfs_lookup(tree, path), size)

sys_ftruncate(fd, size) == Up /\ table[fd] # NULL /\ truncate(table[fd].node, size)

\* If only one descriptor is free it is used up, and the call fails.
sys_pipe ==
    LET n == Cardinality(DOMAIN tree)
        node == [name |-> "pipe", type |-> "PIPE", parent |-> NULL, children |-> << >>]
    IN  /\ Up /\ n < MaxNodes
        /\ tree' = [m \in DOMAIN tree \cup {n} |-> IF m = n THEN node ELSE tree[m]]
        /\ file' = WithFile(file, n, NoFile)
        /\ table' = fd_alloc(fd_alloc(table, n, 0), n, 0)
        /\ UNCHANGED <<initrd, last, listing, misdirected, wrecked>>

-----------------------------------------------------------------------------
TreeCalls ==
    \/ initrd_load
    \/ \E p \in TreePaths :
          \/ sys_mkdir(p) \/ sys_unlink(p) \/ sys_opendir(p)
          \/ sys_open(p, {"CREAT"}) \/ sys_open(p, {"CREAT", "DIRECTORY"})
    \/ \E fd \in Fds : sys_readdir(fd) \/ sys_read(fd, 1) \/ sys_close(fd) \/ sys_seek(fd, 0, 0)

DataCalls ==
    \/ initrd_load \/ sys_pipe
    \/ \E p \in DataPaths :
          \/ sys_unlink(p)
          \/ \E flags \in {{"CREAT"}, {"CREAT", "TRUNC"}, {"CREAT", "APPEND"}} : sys_open(p, flags)
          \/ \E s \in Sizes \cup {HugeSize} : sys_truncate(p, s)
    \/ \E fd \in Fds :
          \/ sys_close(fd) \/ sys_dup(fd)
          \/ \E new \in DupTargets : sys_dup2(fd, new)
          \/ \E s \in Sizes, w \in {0, 1, 2} : sys_seek(fd, s, w) \/ sys_seek(fd, 0 - s, w)
          \/ sys_seek(fd, FarOffset, 0)
          \/ \E s \in Sizes \cup {2^WordBits - 1} : sys_read(fd, s)
          \/ \E s \in Sizes \cup {HugeSize} : sys_ftruncate(fd, s)
          \/ \E w \in Writes : sys_write(fd, w)

FilesNext == TreeCalls \/ DataCalls

FilesSpec == FilesInit /\ [][FilesNext]_filesVars

-----------------------------------------------------------------------------
\* Two entries of a directory have different names, except for names so long
\* that they were cut (tmpfs_create_node).
NamesDistinct ==
    \A n \in DOMAIN tree : \A c, d \in ToSet(tree[n].children) :
        c # d => tree[c].name # tree[d].name \/ tree[c].name = Cut

\* Whatever is created and removed in whatever order, names stay apart, the links
\* agree in both directions, and a node is either in the tree, once, or was unlinked and has
\* no children: no populated directory is orphaned (vfs_attach_child,
\* vfs_unlink).
TreeSound ==
    /\ NamesDistinct
    /\ tree[Root].parent = Root /\ tree[Root].type = "DIR"
    /\ \A n \in DOMAIN tree :
          /\ \A c \in ToSet(tree[n].children) : c # Root /\ tree[c].parent = n
          /\ IsInjective(tree[n].children)
          /\ tree[n].children # << >> => tree[n].type = "DIR"
          /\ n # Root /\ tree[n].parent # NULL =>
                tree[n].parent < n /\ n \in ToSet(tree[tree[n].parent].children)
          /\ tree[n].parent = NULL => tree[n].children = << >>

\* Every byte inside a file is the one last written there, or zero if none was
\* (a byte that was cut off comes back with its place), through growth, seeks past
\* the end, truncation and removal of the name; the file is never longer than its
\* memory (tmpfs_write, tmpfs_truncate).
FileHolds ==
    \A n \in DOMAIN file : tree[n].type = "FILE" =>
        /\ file[n].size <= Len(file[n].data)
        /\ \A i \in 1 .. file[n].size : file[n].data[i] = last[n][i]

\* A call that asks for no more than 2^31 bytes ends, and stays within the file's
\* memory (tmpfs_write, tmpfs_truncate, tmpfs_read).
SmallSizesSafe == wrecked # NULL => wrecked.size > BlockMod \div 2

\* A directory read to its end while nobody changed it has shown every entry
\* once (sys_readdir).
ListedOnce ==
    \A fd \in Fds :
        LET e == table[fd] IN
        e # NULL /\ listing[fd] # NULL /\ tree[e.node].type = "DIR"
           /\ e.offset >= Len(tree[e.node].children)
        => /\ IsInjective(listing[fd])
           /\ ToSet(listing[fd]) = ToSet(tree[e.node].children)

\* The tree is sound, and listings show it.
TreeExact == TreeSound /\ ListedOnce

\* If initrd_load reports success, every regular file of the archive is there
\* with its bytes, unless a later entry has the same path.
InitrdLoaded ==
    [][initrd.result = "loading" /\ initrd'.result = "loaded" =>
         \A i \in 1 .. initrd.next - 1 :
            LET e == initrd.archive.entries[i]
                n == vfs_lookup(tree', e.path)
            IN  /\ e.type = "FILE"
                /\ \A j \in i + 1 .. initrd.next - 1 : initrd.archive.entries[j].path # e.path
                => /\ n # NULL /\ tree'[n].type = "FILE"
                   /\ IsPrefix(e.data, FileOf(file', n).data)]_filesVars

\* What syscall_table.md says of sys_dup2 ("duplicate fd to specific number"):
\* bytes written to a descriptor go to the node it was made a duplicate of.
Dup2Redirects == ~ misdirected
=============================================================================
