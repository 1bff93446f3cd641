------------------------------- MODULE Memory -------------------------------
(***************************************************************************)
(* Page frames and page directories: kernel/mm/pmm.c and kernel/mm/        *)
(* paging.c, with the break of sys_sbrk (kernel/syscall/syscall.c).        *)
(*                                                                         *)
(* A frame is a number.  Memory sizes wrap as in the code: KiB * 1024 is   *)
(* taken in a word of WordSize bytes.                                      *)
(***************************************************************************)
EXTENDS Integers, Sequences, FiniteSets, FiniteSetsExt, Functions

CONSTANTS
    Frames,              \* frames of the bitmap
    PageSize, KiB, WordSize, \* bytes of a page, of a KiB, values of a word
    MemSizes, KernelEnd, \* memory in KiB as the loader says; end of the kernel
    LowFrames,           \* the frames of the first MiB
    UserSlots, KernelSlots, \* entries of a directory below and from 768 on
    Pages,               \* entries of a table
    SbrkPool, Increments \* size of sbrk_pool; increments asked for

ASSUME MemoryAssumption ==
    /\ Frames \cup MemSizes \cup {KiB, KernelEnd, SbrkPool} \subseteq Nat
    /\ {PageSize, WordSize} \subseteq Nat \ {0}
    /\ UserSlots \cap KernelSlots = {}
    /\ Increments \subseteq Int

NoFrame == -1            \* NULL, an entry that is not present
KernelDir == -2          \* kernel_dir
StaticTable == -3        \* table0, ..., high_table1
Device == -4             \* a page that is no RAM
Slots == UserSlots \cup KernelSlots

VARIABLES
    memUsed, memTotal, memCount, \* bitmap, total_frames, used_frames
    memDirs,             \* directories created, kernel_dir among them
    memEntries,          \* their entries: tables
    memTables,           \* the entries of each table made by alloc_table
    memBrk,              \* sbrk_ptr
    memHeld,             \* history: frames a caller of pmm_alloc has
    memLost              \* history: frames given to paging_map_page that it
                         \* could not map, or that another was mapped over

memVars == <<memUsed, memTotal, memCount, memDirs, memEntries, memTables, memBrk,
             memHeld, memLost>>

NoEntries == [p \in Pages |-> NoFrame]

\* The bitmap after pmm_init: all used, then free from the kernel's end to
\* total_frames, then the low frames used again.
KernelFrames == (KernelEnd + PageSize - 1) \div PageSize
Reserved == {f \in Frames : f \notin KernelFrames .. memTotal - 1 \/ f < LowFrames}

\* pmm_init and paging_init.
MemInit ==
    \E kb \in MemSizes :
        /\ memTotal = ((kb * KiB) % WordSize) \div PageSize
        /\ memUsed = Reserved
        /\ memCount = Cardinality(memUsed \cap (0 .. memTotal - 1))
        /\ memDirs = {KernelDir}
        /\ memEntries = [d \in memDirs |-> [s \in Slots |->
               IF s \in {Min(UserSlots), Min(KernelSlots)} THEN StaticTable ELSE NoFrame]]
        /\ memTables = [t \in {} |-> NoEntries]
        /\ memBrk = 0 /\ memHeld = {} /\ memLost = {}

---------------------------------------------------------------------------
(* Frames *)

FreeFrames == Frames \ memUsed

\* bitmap_first_free.
FirstFree == IF FreeFrames = {} THEN NoFrame ELSE Min(FreeFrames)

\* Allocated and Freed: what pmm_alloc and pmm_free do to bitmap and count.
Allocated(f) == memUsed' = memUsed \cup {f} /\ memCount' = memCount + 1

\* FAULT (FramesOwned): freeing a free frame is counted.
FreedBlindly(fs) == memUsed' = memUsed \ fs /\ memCount' = memCount - Cardinality(fs)
Freed(fs) ==
    /\ memUsed' = memUsed \ fs
    /\ memCount' = memCount - Cardinality(fs \cap memUsed)

\* pmm_alloc.
AllocFrame ==
    /\ FirstFree # NoFrame
    /\ Allocated(FirstFree)
    /\ memHeld' = memHeld \cup {FirstFree}
    /\ UNCHANGED <<memTotal, memDirs, memEntries, memTables, memBrk, memLost>>

\* pmm_free, of a frame the caller has, or once more of one that is free.
FreeFrame(f) ==
    /\ f \in memHeld \cup FreeFrames
    /\ Freed({f})
    /\ memHeld' = memHeld \ {f}
    /\ UNCHANGED <<memTotal, memDirs, memEntries, memTables, memBrk, memLost>>

---------------------------------------------------------------------------
(* Directories *)

\* paging_create_directory: the user half empty, the kernel's entries copied.
CreateDirectory ==
    /\ FirstFree # NoFrame
    /\ Allocated(FirstFree)
    /\ memDirs' = memDirs \cup {FirstFree}
    /\ memEntries' = [d \in memDirs' |->
           IF d # FirstFree THEN memEntries[d]
           ELSE [s \in Slots |-> IF s \in UserSlots THEN NoFrame ELSE memEntries[KernelDir][s]]]
    /\ UNCHANGED <<memTotal, memTables, memBrk, memHeld, memLost>>

\* FAULT (FramesOwned): the kernel's tables are freed as well.
AllTables(d) == {memEntries[d][s] : s \in Slots} \cap DOMAIN memTables
OwnTables(d) == {memEntries[d][s] : s \in UserSlots} \cap DOMAIN memTables
MappedBy(ts) == (UNION {Range(memTables[t]) : t \in ts}) \cap Frames

\* paging_destroy_directory: the pages and tables of the user half, and itself.
DestroyDirectory(d) ==
    LET ts == OwnTables(d)
    IN  /\ d \in memDirs \ {KernelDir}
        /\ Freed(ts \cup MappedBy(ts) \cup {d})
        /\ memDirs' = memDirs \ {d}
        /\ memEntries' = [e \in memDirs' |-> memEntries[e]]
        /\ memTables' = [t \in DOMAIN memTables \ ts |-> memTables[t]]
        /\ UNCHANGED <<memTotal, memBrk, memHeld, memLost>>

\* paging_map_page, of a frame the caller has, or of a device page into
\* kernel_dir (map_framebuffer, e1000_init).  It makes the table if there is
\* none; without a frame for that it returns as if it had mapped the page.  A
\* process's pages go to its own half, the kernel's tables belong to kernel_dir.
MapPage(d, s, p, page) ==
    LET table == memEntries[d][s]
        new == FirstFree
        replaced == IF table \in DOMAIN memTables THEN {memTables[table][p]} \cap Frames ELSE {}
    IN  /\ d \in memDirs
        /\ IF d = KernelDir THEN page = Device ELSE page \in memHeld /\ s \in UserSlots
        /\ table # StaticTable
        /\ memHeld' = memHeld \ {page}
        /\ \/ /\ table # NoFrame
              /\ memTables' = [memTables EXCEPT ![table][p] = page]
              /\ memLost' = memLost \cup replaced
              /\ UNCHANGED <<memUsed, memCount, memEntries>>
           \/ /\ table = NoFrame /\ new # NoFrame
              /\ Allocated(new)
              /\ memEntries' = [memEntries EXCEPT ![d][s] = new]
              /\ memTables' = [t \in DOMAIN memTables \cup {new} |->
                     IF t = new THEN [NoEntries EXCEPT ![p] = page] ELSE memTables[t]]
              /\ UNCHANGED memLost
           \/ /\ table = NoFrame /\ new = NoFrame
              /\ memLost' = memLost \cup ({page} \cap Frames)
              /\ UNCHANGED <<memUsed, memCount, memEntries, memTables>>
        /\ UNCHANGED <<memTotal, memDirs, memBrk>>

\* paging_unmap_page.  The caller has the frame again.
UnmapPage(d, s, p) ==
    LET table == memEntries[d][s]
    IN  /\ d \in memDirs \ {KernelDir} /\ s \in UserSlots
        /\ table \in DOMAIN memTables
        /\ memTables' = [memTables EXCEPT ![table][p] = NoFrame]
        /\ memHeld' = memHeld \cup ({memTables[table][p]} \cap Frames)
        /\ UNCHANGED <<memUsed, memTotal, memCount, memDirs, memEntries, memBrk, memLost>>

\* FAULT (TypeOK): the break may go below the pool.
BelowEnd(inc) == memBrk + inc <= SbrkPool
InPool(inc) == memBrk + inc \in 0 .. SbrkPool

\* sys_sbrk; out of the pool's bounds it returns -1.
Sbrk(inc) ==
    /\ InPool(inc)
    /\ memBrk' = memBrk + inc
    /\ UNCHANGED <<memUsed, memTotal, memCount, memDirs, memEntries, memTables, memHeld, memLost>>

MemNext ==
    \/ AllocFrame \/ CreateDirectory
    \/ \E f \in Frames : FreeFrame(f) \/ DestroyDirectory(f)
    \/ \E d \in memDirs, s \in Slots, p \in Pages :
           UnmapPage(d, s, p) \/ \E page \in Frames \cup {Device} : MapPage(d, s, p, page)
    \/ \E inc \in Increments : Sbrk(inc)

---------------------------------------------------------------------------
(* Properties *)

MemTypeOK ==
    /\ memUsed \subseteq Frames
    /\ memDirs \subseteq Frames \cup {KernelDir}
    /\ memEntries \in [memDirs -> [Slots -> Frames \cup {NoFrame, StaticTable}]]
    /\ DOMAIN memTables \subseteq Frames
    /\ memTables \in [DOMAIN memTables -> [Pages -> Frames \cup {NoFrame, Device}]]
    /\ memBrk \in 0 .. SbrkPool

\* The owners of the frames handed out: callers, directories, tables, pages
\* mapped, and those no one can free any more.
Owners == <<memHeld, memDirs \ {KernelDir}, DOMAIN memTables, MappedBy(DOMAIN memTables), memLost>>

\* Every frame handed out has exactly one owner, so that none leaks; those that
\* pmm_init kept back have none; and used_frames counts both, through repeated
\* frees, failed allocations in the middle of a mapping, and directories that
\* are destroyed while others share the kernel's tables.  A table of a user half is in one directory only.
FramesOwned ==
    /\ \A i, j \in DOMAIN Owners : i # j => Owners[i] \cap Owners[j] = {}
    /\ memUsed = Reserved \cup UNION Range(Owners)
    /\ Reserved \cap UNION Range(Owners) = {}
    /\ memCount = Cardinality(memUsed \cap (0 .. memTotal - 1))
    /\ \A d, e \in memDirs : d # e => OwnTables(d) \cap OwnTables(e) = {}
    /\ \A d \in memDirs : \A s \in Slots :
           memEntries[d][s] \in DOMAIN memTables \cup {NoFrame, StaticTable}
    /\ \A f, g \in (DOMAIN memTables) \X Pages :
           f # g /\ memTables[f[1]][f[2]] \in Frames => memTables[f[1]][f[2]] # memTables[g[1]][g[2]]
=============================================================================
