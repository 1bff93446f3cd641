------------------------------ MODULE StackFS ------------------------------
(***************************************************************************)
(* The file system, kernel/fs/stackfs.c: inodes, block bitmap and          *)
(* superblock are kept in memory, written back by stackfs_sync at the end  *)
(* of each operation that changes them; data blocks are written at once.   *)
(*                                                                         *)
(* One operation runs at a time (the shell calls the file system and waits *)
(* for it), but the machine may be switched off between any two writes to  *)
(* the disk and mounts what is there afterwards.  A step here is a change  *)
(* of memory together with the first write to the disk that follows it;    *)
(* memory alone does not outlive a power cut.                              *)
(*                                                                         *)
(* An inode's type, size and block pointers are kept, its other fields are *)
(* not.  Sizes and offsets count chunks, PerBlock of them to a block.  The *)
(* inode table is written one inode at a time (the code: one sector, 4.3   *)
(* inodes), the bitmap of the small disk and the superblock are one sector *)
(* each.  Writing a data block is one step.                                *)
(*                                                                         *)
(* A behaviour ends with the first mount after a power cut: what further   *)
(* operations do to a disk that was left damaged is not followed.          *)
(***************************************************************************)
EXTENDS Integers, FiniteSets

CONSTANTS
    NInodes,     \* STACKFS_MAX_INODES - 1: inodes 1 .. NInodes, the root is 1
    NBlocks,     \* total_blocks of the superblock
    Ptrs,        \* STACKFS_DIRECT_PTRS
    PerDir,      \* directory entries in a block
    PerBlock,    \* chunks in a block
    Names,       \* file names
    Lengths,     \* lengths of the writes, in chunks
    PowerCuts    \* whether the machine may be switched off

ASSUME StackFSAssumption ==
    /\ NInodes \in Nat \ {0}
    /\ NBlocks \in Nat
    /\ Ptrs \in Nat \ {0}
    /\ PerDir \in Nat \ {0}
    /\ PerBlock \in Nat \ {0}
    /\ Lengths \subseteq Nat \ {0}
    /\ PowerCuts \in BOOLEAN

Inodes == 1 .. NInodes
Root == 1
Blocks == 0 .. NBlocks - 1
Pointers == 0 .. Ptrs - 1
Slots == 0 .. PerDir - 1
NoName == "none"

VARIABLES
    inodes,    \* in memory: the inode table,
    bitmap,    \*   the set of blocks marked as used,
    sb,        \*   the superblock's free_blocks and free_inodes
    dirty,     \* the flags that are set, of "inodes", "bitmap", "sb"
    disk,      \* on disk: the same three
    data,      \* on disk: the data blocks
    pc,        \* "idle", "write" (in the loop of bfs_write), the part that
               \* stackfs_sync looks at next, or "remounted"
    sec,       \* in save_inodes_disk: the next inode to write
    op,        \* the operation under way and what it has changed
    promised   \* history: the entries (directory, name) reported as made

vars == <<inodes, bitmap, sb, dirty, disk, data, pc, sec, op, promised>>
memory == <<inodes, bitmap, sb, dirty>>

Entry == [ino : Inodes \cup {0}, name : Names \cup {NoName}]
NoEntry == [ino |-> 0, name |-> NoName]

\* A data block read as a directory, and the file whose data it holds (0: none).
Block(ents, owner) == [ents |-> ents, owner |-> owner]
Zeroed == Block([s \in Slots |-> NoEntry], 0)

\* A pointer 0 means "no block"; yet block 0 is allocated like any other.
Inode(type) == [type |-> type, size |-> 0, blocks |-> [k \in Pointers |-> 0]]
FreeInode == Inode("FREE")

\* op.ino is the inode the operation works on, op.grabbed the blocks it has
\* allocated; off, len and left belong to bfs_write.
Op(name, ino, grabbed) ==
    [name |-> name, ino |-> ino, grabbed |-> grabbed, off |-> 0, len |-> 0, left |-> 0]
NoOp == Op("none", 0, {})

FreshInodes == [i \in Inodes |-> IF i = Root THEN Inode("DIR") ELSE FreeInode]
\* stackfs_format counts the root's inode as free.
FreshSb == [freeBlocks |-> NBlocks, freeInodes |-> NInodes]

\* A disk just formatted and mounted.
Init ==
    /\ inodes = FreshInodes
    /\ bitmap = {}
    /\ sb = FreshSb
    /\ dirty = {}
    /\ disk = [inodes |-> FreshInodes, bitmap |-> {}, sb |-> FreshSb]
    /\ data = [b \in Blocks |-> Zeroed]
    /\ pc = "idle"
    /\ sec = 1
    /\ op = NoOp
    /\ promised = {}

---------------------------------------------------------------------------
(* Allocation *)

\* bitmap_alloc finds block b; with no clear bit it returns -1.
FirstClear(b) == b \notin bitmap /\ \A c \in Blocks : c < b => c \in bitmap
DiskFull == Blocks \subseteq bitmap

Marked(b) == bitmap \cup {b}

\* FAULT (TypeOK): every pointer of the inode is counted.
EveryPointerCounted(freed) == sb.freeBlocks + Ptrs
\* FAULT (CountsExact): freed blocks are not counted.
BlocksNotCounted(freed) == sb.freeBlocks
FreeBlocksAfter(freed) == sb.freeBlocks + Cardinality(freed)

\* alloc_inode.
FirstFreeInode(i) ==
    /\ inodes[i].type = "FREE"
    /\ \A j \in Inodes : j < i => inodes[j].type # "FREE"

---------------------------------------------------------------------------
(* Directories *)

InDir(d, k, s) == data[inodes[d].blocks[k]].ents[s]

\* bfs_finddir and bfs_unlink look through the blocks up to the first pointer
\* that is 0.
Searched(d, k) == \A j \in 0 .. k : inodes[d].blocks[j] # 0

Holds(d, name, k, s) ==
    Searched(d, k) /\ InDir(d, k, s).ino # 0 /\ InDir(d, k, s).name = name

Found(d, name) == \E k \in Pointers, s \in Slots : Holds(d, name, k, s)

FirstMatch(d, name, k, s) ==
    /\ Holds(d, name, k, s)
    /\ \A j \in Pointers, t \in Slots :
         j < k \/ (j = k /\ t < s) => ~Holds(d, name, j, t)

\* The inodes a path leads to: the shell looks up every component of a path,
\* by first match, each time a command runs.
Children(d) == {InDir(d, p[1], p[2]).ino :
                  p \in {q \in Pointers \X Slots :
                           \E name \in Names : FirstMatch(d, name, q[1], q[2])}}
Tree ==
    LET within[n \in 0 .. NInodes] ==
          IF n = 0 THEN {Root}
          ELSE within[n - 1] \cup
                 UNION {Children(d) : d \in {e \in within[n - 1] : inodes[e].type = "DIR"}}
    IN  within[NInodes]

HasRoom(d, k) == \E s \in Slots : InDir(d, k, s).ino = 0

\* The pointer at which dir_add_entry stops: 0, or a block with a free slot.
StopsAt(d, k) ==
    LET stops(j) == inodes[d].blocks[j] = 0 \/ HasRoom(d, j)
    IN  stops(k) /\ \A j \in 0 .. k - 1 : ~stops(j)

WithEntry(blk, i, name) ==
    LET s == CHOOSE t \in Slots :
               blk.ents[t].ino = 0 /\ \A u \in Slots : u < t => blk.ents[u].ino # 0
    IN  [blk EXCEPT !.ents[s] = [ino |-> i, name |-> name]]

\* The fields bfs_create and bfs_mkdir set; the pointers stay.
MadeFrom(ino, type) == [ino EXCEPT !.type = type, !.size = 0]

---------------------------------------------------------------------------
(* bfs_create and bfs_mkdir: allocate an inode, add the entry, sync.  What *)
(* dir_add_entry returns is not looked at.                                 *)

MakeNode(d, name, type) ==
    /\ pc = "idle"
    /\ d \in Tree /\ inodes[d].type = "DIR"
    /\ \E i \in Inodes :
        /\ FirstFreeInode(i)
        /\ \/ \* an entry goes into a block of the directory
              \E k \in Pointers :
                /\ StopsAt(d, k)
                /\ inodes[d].blocks[k] # 0
                /\ inodes' = [inodes EXCEPT ![i] = MadeFrom(@, type)]
                /\ data' = [data EXCEPT ![inodes[d].blocks[k]] = WithEntry(@, i, name)]
                /\ sb' = [sb EXCEPT !.freeInodes = @ - 1]
                /\ dirty' = dirty \cup {"inodes", "sb"}
                /\ op' = Op("make", i, {})
                /\ UNCHANGED bitmap
           \/ \* or into a new one
              \E k \in Pointers, b \in Blocks :
                /\ StopsAt(d, k)
                /\ inodes[d].blocks[k] = 0
                /\ FirstClear(b)
                /\ bitmap' = Marked(b)
                /\ inodes' = [inodes EXCEPT ![i] = MadeFrom(@, type), ![d].blocks[k] = b]
                /\ data' = [data EXCEPT ![b] = WithEntry(Zeroed, i, name)]
                /\ sb' = [freeInodes |-> sb.freeInodes - 1, freeBlocks |-> sb.freeBlocks - 1]
                /\ dirty' = dirty \cup {"inodes", "bitmap", "sb"}
                /\ op' = Op("make", i, {b})
           \/ \* or nowhere: directory or disk full
              /\ \A k \in Pointers :
                   StopsAt(d, k) => inodes[d].blocks[k] = 0 /\ DiskFull
              /\ inodes' = [inodes EXCEPT ![i] = MadeFrom(@, type)]
              /\ sb' = [sb EXCEPT !.freeInodes = @ - 1]
              /\ dirty' = dirty \cup {"inodes", "sb"}
              /\ op' = Op("make", i, {})
              /\ UNCHANGED <<data, bitmap>>
    /\ promised' = promised \cup {<<d, name>>}
    /\ pc' = "inodes"
    /\ UNCHANGED <<disk, sec>>

Create(d, name) == MakeNode(d, name, "FILE")
Mkdir(d, name) == MakeNode(d, name, "DIR")

---------------------------------------------------------------------------
(* bfs_unlink *)

\* The blocks released with an inode: those with a pointer that is not 0.
Held(ino) == {ino.blocks[k] : k \in Pointers} \ {0}

\* FAULT (BlocksNotShared, FileReadable): only the type is reset.
OnlyTypeReset(ino) == [ino EXCEPT !.type = "FREE"]
Cleared(ino) == FreeInode

\* FAULT (CrashDamage): the inode table is not marked dirty.
InodesForgotten(freed) == {"sb"} \cup (IF freed = {} THEN {} ELSE {"bitmap"})
FlagsSet(freed) == {"inodes", "sb"} \cup (IF freed = {} THEN {} ELSE {"bitmap"})

\* FAULT (EntriesLive): the entry stays.
EntryStays(blk, s) == blk
WithoutEntry(blk, s) == [blk EXCEPT !.ents[s] = NoEntry]

Unlink(d, name) ==
    /\ pc = "idle"
    /\ d \in Tree /\ inodes[d].type = "DIR"
    /\ \E k \in Pointers, s \in Slots :
        /\ FirstMatch(d, name, k, s)
        /\ LET i == InDir(d, k, s).ino
           IN  /\ bitmap' = bitmap \ Held(inodes[i])
               /\ sb' = [freeBlocks |-> FreeBlocksAfter(Held(inodes[i])),
                         freeInodes |-> sb.freeInodes + 1]
               /\ inodes' = [inodes EXCEPT ![i] = Cleared(@)]
               /\ dirty' = dirty \cup FlagsSet(Held(inodes[i]))
               /\ op' = Op("unlink", i, {})
               /\ promised' = {e \in promised : e # <<d, name>> /\ e[1] # i}
        /\ data' = [data EXCEPT ![inodes[d].blocks[k]] = WithoutEntry(@, s)]
    /\ pc' = "inodes"
    /\ UNCHANGED <<disk, sec>>

---------------------------------------------------------------------------
(* bfs_write, called on a file with offset 0 or its size.                  *)

BeginWrite(i, off, len) ==
    /\ pc = "idle"
    /\ i \in Tree /\ inodes[i].type = "FILE"
    /\ off \in {0, inodes[i].size}
    /\ op' = [Op("write", i, {}) EXCEPT !.off = off, !.len = len, !.left = len]
    /\ pc' = "write"
    /\ UNCHANGED <<memory, disk, data, sec, promised>>

Lesser(m, n) == IF m < n THEN m ELSE n
Position == op.off + op.len - op.left
Pointer == Position \div PerBlock
InThisBlock == Lesser(op.left, PerBlock - (Position % PerBlock))

\* The loop goes on: data left, a pointer for it, and a block.
GoesOn ==
    /\ op.left > 0
    /\ Pointer \in Pointers
    /\ DiskFull => inodes[op.ino].blocks[Pointer] # 0

\* One turn of the loop: allocate the block if there is none, write it.
WriteTurn ==
    /\ pc = "write" /\ GoesOn
    /\ LET old == inodes[op.ino].blocks[Pointer]
       IN  \/ /\ old # 0
              /\ data' = [data EXCEPT ![old].owner = op.ino]
              /\ op' = [op EXCEPT !.left = @ - InThisBlock]
              /\ UNCHANGED memory
           \/ /\ old = 0
              /\ \E b \in Blocks :
                  /\ FirstClear(b)
                  /\ bitmap' = Marked(b)
                  /\ sb' = [sb EXCEPT !.freeBlocks = @ - 1]
                  /\ inodes' = [inodes EXCEPT ![op.ino].blocks[Pointer] = b]
                  /\ data' = [data EXCEPT ![b] = [Zeroed EXCEPT !.owner = op.ino]]
                  /\ op' = [op EXCEPT !.left = @ - InThisBlock, !.grabbed = @ \cup {b}]
              /\ dirty' = dirty \cup {"bitmap", "sb"}
    /\ UNCHANGED <<disk, pc, sec, promised>>

\* FAULT (Synced): a grown inode is not marked dirty.
NeverGrows(i, n) == FALSE
Grows(i, n) == n > inodes[i].size

WriteEnd ==
    /\ pc = "write" /\ ~GoesOn
    /\ IF Grows(op.ino, Position)
         THEN /\ inodes' = [inodes EXCEPT ![op.ino].size = Position]
              /\ dirty' = dirty \cup {"inodes"}
         ELSE UNCHANGED <<inodes, dirty>>
    /\ pc' = "inodes"
    /\ UNCHANGED <<bitmap, sb, disk, data, sec, op, promised>>

---------------------------------------------------------------------------
(* stackfs_sync: inodes, then bitmap, then superblock.                     *)

SyncInode ==
    /\ pc = "inodes" /\ "inodes" \in dirty
    /\ disk' = [disk EXCEPT !.inodes[sec] = inodes[sec]]
    /\ IF sec < NInodes
         THEN /\ sec' = sec + 1
              /\ UNCHANGED <<pc, dirty>>
         ELSE /\ sec' = 1
              /\ dirty' = dirty \ {"inodes"}
              /\ pc' = "bitmap"
    /\ UNCHANGED <<inodes, bitmap, sb, data, op, promised>>

SkipInodes ==
    /\ pc = "inodes" /\ "inodes" \notin dirty
    /\ pc' = "bitmap"
    /\ UNCHANGED <<memory, disk, data, sec, op, promised>>

SyncBitmap ==
    /\ pc = "bitmap"
    /\ disk' = IF "bitmap" \in dirty THEN [disk EXCEPT !.bitmap = bitmap] ELSE disk
    /\ dirty' = dirty \ {"bitmap"}
    /\ pc' = "sb"
    /\ UNCHANGED <<inodes, bitmap, sb, data, sec, op, promised>>

SyncSb ==
    /\ pc = "sb"
    /\ disk' = IF "sb" \in dirty THEN [disk EXCEPT !.sb = sb] ELSE disk
    /\ dirty' = dirty \ {"sb"}
    /\ pc' = "idle"
    /\ op' = NoOp
    /\ UNCHANGED <<inodes, bitmap, sb, data, sec, promised>>

---------------------------------------------------------------------------
\* stackfs_format, up to its sync.
Format ==
    /\ pc = "idle"
    /\ inodes' = FreshInodes
    /\ bitmap' = {}
    /\ sb' = FreshSb
    /\ dirty' = {"inodes", "bitmap", "sb"}
    /\ op' = Op("format", 0, {})
    /\ promised' = {}
    /\ pc' = "inodes"
    /\ UNCHANGED <<disk, data, sec>>

\* The machine is switched off; at the next boot stackfs_mount loads the disk.
\* op keeps, as history, the operation that was cut short.
PowerCut ==
    /\ PowerCuts /\ pc # "remounted"
    /\ inodes' = disk.inodes
    /\ bitmap' = disk.bitmap
    /\ sb' = disk.sb
    /\ dirty' = {}
    /\ pc' = "remounted"
    /\ sec' = 1
    /\ UNCHANGED <<disk, data, op, promised>>

Next ==
    \/ \E d \in Inodes, name \in Names : Create(d, name)
    \/ \E d \in Inodes, name \in Names : Mkdir(d, name)
    \/ \E d \in Inodes, name \in Names : Unlink(d, name)
    \/ \E i \in Inodes, off \in 0 .. Ptrs * PerBlock, len \in Lengths :
         BeginWrite(i, off, len)
    \/ WriteTurn
    \/ WriteEnd
    \/ SyncInode
    \/ SkipInodes
    \/ SyncBitmap
    \/ SyncSb
    \/ Format
    \/ PowerCut

Spec == Init /\ [][Next]_vars

---------------------------------------------------------------------------
(* Properties *)

InodeRecord ==
    [type : {"FREE", "FILE", "DIR"}, size : 0 .. Ptrs * PerBlock,
     blocks : [Pointers -> Blocks \cup {0}]]
SbRecord == [freeBlocks : 0 .. NBlocks, freeInodes : 0 .. NInodes]

\* Types.  Among them: the free counts never go below 0 or above the totals,
\* and no write ends beyond the pointers of an inode.
TypeOK ==
    /\ inodes \in [Inodes -> InodeRecord]
    /\ bitmap \subseteq Blocks
    /\ sb \in SbRecord
    /\ dirty \subseteq {"inodes", "bitmap", "sb"}
    /\ disk \in [inodes : [Inodes -> InodeRecord], bitmap : SUBSET Blocks, sb : SbRecord]
    /\ data \in [Blocks -> [ents : [Slots -> Entry], owner : Inodes \cup {0}]]
    /\ pc \in {"idle", "write", "inodes", "bitmap", "sb", "remounted"}
    /\ sec \in Inodes
    /\ op.ino \in Inodes \cup {0} /\ op.grabbed \subseteq Blocks /\ op.left \in Nat
    /\ promised \subseteq Inodes \X Names

Referenced == UNION {Held(inodes[i]) : i \in Inodes}

\* No block belongs to two inodes, or to one of them twice.
BlocksNotShared ==
    \A i, j \in Inodes, k, l \in Pointers :
        inodes[i].blocks[k] # 0 /\ inodes[i].blocks[k] = inodes[j].blocks[l]
            => i = j /\ k = l

\* Without a power cut the bitmap marks exactly the blocks of the inodes, and
\* block 0 once it has been handed out (its bit is never cleared again: its
\* number is the pointer that means "no block"); the free counts agree with
\* bitmap and table, the one of inodes being one too high since the format.
CountsExact ==
    pc # "remounted" =>
        /\ bitmap \ {0} = Referenced
        /\ sb.freeBlocks = NBlocks - Cardinality(bitmap)
        /\ sb.freeInodes = Cardinality({i \in Inodes : inodes[i].type = "FREE"}) + 1

\* Entries: every entry of a directory leads to an inode in use, and no two
\* entries lead to the same one (there are no links), so that removing one
\* name never takes away the file of another.
InUse(p) == InDir(p[1], p[2], p[3]).ino # 0
Places == {p \in Inodes \X Pointers \X Slots :
             inodes[p[1]].type = "DIR" /\ inodes[p[1]].blocks[p[2]] # 0 /\ InUse(p)}
EntriesLive ==
    pc # "remounted" =>
        /\ \A p \in Places : inodes[InDir(p[1], p[2], p[3]).ino].type # "FREE"
        /\ \A p, q \in Places :
             InDir(p[1], p[2], p[3]).ino = InDir(q[1], q[2], q[3]).ino => p = q

\* What bfs_read finds: all chunks of a file, up to its size, are in blocks of
\* its own that were last written for this file.  In particular block 0, which
\* could not be read back, never becomes a block of a file: the first block
\* after a format goes to a directory.
FileReadable ==
    pc \in {"idle", "inodes", "bitmap", "sb"} =>
        \A i \in Inodes : inodes[i].type = "FILE" =>
            \A n \in 0 .. inodes[i].size - 1 :
                /\ inodes[i].blocks[n \div PerBlock] # 0
                /\ data[inodes[i].blocks[n \div PerBlock]].owner = i

\* When an operation has returned, everything it did is on the disk: switching
\* the machine off now loses nothing.
Synced ==
    pc = "idle" =>
        dirty = {} /\ disk = [inodes |-> inodes, bitmap |-> bitmap, sb |-> sb]

\* What a power cut may leave behind, seen at the next mount: blocks that are
\* in use and not marked are at most those the interrupted operation had just
\* allocated; a path that leads to a free inode leads to the one it worked on;
\* and no block is shared as yet.
CrashDamage ==
    pc = "remounted" =>
        /\ Referenced \ bitmap \subseteq op.grabbed
        /\ \A i \in Tree : inodes[i].type = "FREE" => i = op.ino
        /\ BlocksNotShared

\* kernel.c:106 logs "created /disk/{etc,home,tmp,var}" after the four mkdir:
\* an entry whose creation was reported, and that nobody removed, is found.
CreatedIsFound ==
    pc = "idle" => \A e \in promised : Found(e[1], e[2])
=============================================================================
