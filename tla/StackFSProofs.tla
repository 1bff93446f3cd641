---------------------------- MODULE StackFSProofs ----------------------------
(***************************************************************************)
(* Proofs about StackFS, for every size of disk, inode table, directory    *)
(* and file: in memory while operations run, on the disk when they have    *)
(* returned, and on the disk that a power cut leaves behind.               *)
(***************************************************************************)
EXTENDS StackFS, Lemmas, FiniteSetTheorems

(* No pointer of f is one of g, but the same pointer of the same inode; it *)
(* is zero or among B.                                                     *)
Apart(f, g) ==
    \A i, j \in Inodes, k, l \in Pointers :
        f[i].blocks[k] # 0 /\ f[i].blocks[k] = g[j].blocks[l] => i = j /\ k = l
Within(f, B) ==
    \A i \in Inodes, k \in Pointers : f[i].blocks[k] # 0 => f[i].blocks[k] \in B

(* An entry in use of directory i as f and dat have it, and where it leads.*)
Place(f, dat, i, k, s) ==
    f[i].type = "DIR" /\ f[i].blocks[k] # 0 /\ dat[f[i].blocks[k]].ents[s].ino # 0
Target(f, dat, i, k, s) == dat[f[i].blocks[k]].ents[s].ino

(* In memory: bitmap and pointers agree, and so do the counts.             *)
Marks ==
    /\ Apart(inodes, inodes) /\ Within(inodes, bitmap)
    /\ \A b \in bitmap : b # 0 => \E i \in Inodes, k \in Pointers : inodes[i].blocks[k] = b
Counts ==
    /\ sb.freeBlocks = NBlocks - Cardinality(bitmap)
    /\ sb.freeInodes = Cardinality({i \in Inodes : inodes[i].type = "FREE"}) + 1

(* Entries lead to inodes in use, two of them to two, and none to the root;*)
(* a free inode has no blocks.                                             *)
Entries ==
    /\ \A i \in Inodes, k \in Pointers, s \in Slots :
           Place(inodes, data, i, k, s) =>
               inodes[Target(inodes, data, i, k, s)].type # "FREE"
    /\ \A i, j \in Inodes, k, l \in Pointers, s, t \in Slots :
           /\ Place(inodes, data, i, k, s) /\ Place(inodes, data, j, l, t)
           /\ Target(inodes, data, i, k, s) = Target(inodes, data, j, l, t)
           => i = j /\ k = l /\ s = t
    /\ \A b \in Blocks, s \in Slots : data[b].ents[s].ino # Root
    /\ inodes[Root].type = "DIR" /\ disk.inodes[Root].type = "DIR"
    /\ \A i \in Inodes : inodes[i].type = "FREE" =>
           \A k \in Pointers : inodes[i].blocks[k] = 0

(* Block 0 is the first to be handed out, and gone before there is a file. *)
ZeroTaken ==
    /\ bitmap # {} => 0 \in bitmap
    /\ Blocks # {} /\ (\E i \in Inodes : inodes[i].type = "FILE") => 0 \in bitmap

(* Chunk n of file i is in a block of the file, written for it.            *)
Stored(i, n) ==
    /\ inodes[i].blocks[n \div PerBlock] # 0
    /\ data[inodes[i].blocks[n \div PerBlock]].owner = i
Files ==
    \A i \in Inodes : inodes[i].type = "FILE" =>
        \A n \in 0 .. inodes[i].size - 1 : Stored(i, n)

(* In the loop of bfs_write: what lies in front of the position is stored; *)
(* an inode that has changed will have grown at the end.                   *)
Writing ==
    pc = "write" =>
        /\ op.ino \in Inodes /\ inodes[op.ino].type = "FILE"
        /\ op.left \in Nat /\ op.len \in Nat /\ op.off \in Nat /\ op.left <= op.len
        /\ Position <= Ptrs * PerBlock
        /\ \A n \in 0 .. Position - 1 : Stored(op.ino, n)
        /\ "inodes" \notin dirty
        /\ disk.inodes = inodes \/ Position > inodes[op.ino].size
        /\ Within(disk.inodes, bitmap)
        /\ op = [name |-> "write", ino |-> op.ino, grabbed |-> op.grabbed,
                 off |-> op.off, len |-> op.len, left |-> op.left]

(* stackfs_sync: what is not dirty is on the disk, of the inodes the first *)
(* sec - 1.                                                                *)
Syncing ==
    /\ sec > 1 => pc = "inodes" /\ "inodes" \in dirty
    /\ \A i \in 1 .. sec - 1 : disk.inodes[i] = inodes[i]
    /\ pc # "write" /\ "inodes" \notin dirty => disk.inodes = inodes
    /\ "bitmap" \notin dirty => disk.bitmap = bitmap
    /\ "sb" \notin dirty => disk.sb = sb
    /\ pc \in {"bitmap", "sb", "idle"} => "inodes" \notin dirty
    /\ pc \in {"sb", "idle"} => "bitmap" \notin dirty
    /\ pc = "idle" => "sb" \notin dirty /\ op = NoOp

(* What the disk may be left with: no block is shared, between the inodes  *)
(* written and those to come neither; blocks not marked on the disk belong *)
(* to the operation; and so do entries to free inodes.  A format that is   *)
(* under way leaves entries behind, but first of all empties the root.     *)
AllLive(f, g, dat, made) ==
    \A i \in Inodes, k \in Pointers, s \in Slots :
        Place(f, dat, i, k, s) /\ Target(f, dat, i, k, s) # made =>
            /\ f[Target(f, dat, i, k, s)].type # "FREE"
            /\ g[Target(f, dat, i, k, s)].type # "FREE"
Formatting ==
    /\ inodes = FreshInodes
    /\ \/ \A k \in Pointers : disk.inodes[Root].blocks[k] = 0
       \/ /\ pc = "inodes" /\ sec = 1 /\ "inodes" \in dirty
          /\ \A i \in Inodes, k \in Pointers, s \in Slots :
                 Place(disk.inodes, data, i, k, s) =>
                     disk.inodes[Target(disk.inodes, data, i, k, s)].type # "FREE"
CutSafe ==
    /\ Apart(disk.inodes, disk.inodes) /\ Apart(disk.inodes, inodes)
    /\ Within(disk.inodes, disk.bitmap \cup op.grabbed)
    /\ Within(inodes, disk.bitmap \cup op.grabbed)
    /\ IF op.name = "format" THEN Formatting
       ELSE /\ AllLive(disk.inodes, inodes, data, op.ino)
            /\ AllLive(inodes, disk.inodes, data, op.ino)

Running ==
    Marks /\ Counts /\ Entries /\ ZeroTaken /\ Files /\ Writing /\ Syncing /\ CutSafe

(* After a power cut: the root is empty, or entries lead to inodes in use, *)
(* but for the one the operation worked on.                                *)
Cut ==
    /\ Apart(inodes, inodes) /\ Within(inodes, bitmap \cup op.grabbed)
    /\ inodes[Root].type = "DIR"
    /\ \/ \A k \in Pointers : inodes[Root].blocks[k] = 0
       \/ \A i \in Inodes, k \in Pointers, s \in Slots :
              Place(inodes, data, i, k, s) /\ Target(inodes, data, i, k, s) # op.ino =>
                  inodes[Target(inodes, data, i, k, s)].type # "FREE"

(* The inductive invariant.                                                *)
IInv ==
    /\ TypeOK
    /\ pc # "remounted" => Running
    /\ pc = "remounted" => Cut

---------------------------------------------------------------------------
(* Sets, types and the definitions above.                                  *)

LEMMA Sizes ==
    /\ NInodes \in Nat \ {0} /\ NBlocks \in Nat /\ Ptrs \in Nat \ {0}
    /\ PerDir \in Nat \ {0} /\ PerBlock \in Nat \ {0}
    /\ Root \in Inodes /\ 1 \in Inodes /\ Inodes \subseteq Nat \ {0} /\ 0 \notin Inodes
    /\ 0 \in Pointers /\ Pointers \subseteq Nat
    /\ 0 \in Slots /\ Slots \subseteq Nat
    /\ Blocks \subseteq Nat
BY StackFSAssumption DEF StackFSAssumption, Root, Inodes, Pointers, Slots, Blocks

LEMMA Finite ==
    /\ IsFiniteSet(Inodes) /\ Cardinality(Inodes) = NInodes
    /\ IsFiniteSet(Blocks) /\ Cardinality(Blocks) = NBlocks
<1>1. IsFiniteSet(Inodes) /\ Cardinality(Inodes) = NInodes
  BY Sizes, FS_Interval DEF Inodes
<1>2. IsFiniteSet(0 .. NBlocks - 1)
      /\ Cardinality(0 .. NBlocks - 1) = IF 0 > NBlocks - 1 THEN 0 ELSE (NBlocks - 1) - 0 + 1
  <2>1. 0 \in Int /\ NBlocks - 1 \in Int
    BY Sizes
  <2> QED BY <2>1, FS_Interval
<1>3. IsFiniteSet(Blocks) /\ Cardinality(Blocks) = NBlocks
  BY <1>2, Sizes DEF Blocks
<1> QED BY <1>1, <1>3

DiskSet == [inodes : [Inodes -> InodeRecord], bitmap : SUBSET Blocks, sb : SbRecord]
BlockSet == [ents : [Slots -> Entry], owner : Inodes \cup {0}]

LEMMA Types ==
    ASSUME TypeOK
    PROVE  /\ inodes \in [Inodes -> InodeRecord] /\ bitmap \subseteq Blocks /\ sb \in SbRecord
           /\ disk \in DiskSet /\ disk.inodes \in [Inodes -> InodeRecord]
           /\ disk.bitmap \subseteq Blocks /\ disk.sb \in SbRecord
           /\ data \in [Blocks -> BlockSet]
           /\ sec \in Inodes
BY DEF TypeOK, DiskSet, BlockSet

LEMMA NodeFields ==
    ASSUME NEW f \in [Inodes -> InodeRecord], NEW i \in Inodes
    PROVE  /\ f[i] = [type |-> f[i].type, size |-> f[i].size, blocks |-> f[i].blocks]
           /\ f[i].type \in {"FREE", "FILE", "DIR"} /\ f[i].size \in 0 .. Ptrs * PerBlock
           /\ f[i].blocks \in [Pointers -> Blocks \cup {0}]
           /\ \A k \in Pointers : f[i].blocks[k] \in Blocks \cup {0}
BY DEF InodeRecord

(* A chunk of a file has a pointer.                                        *)
LEMMA ChunkBlock ==
    ASSUME NEW n \in Nat
    PROVE  /\ n \div PerBlock \in Nat
           /\ PerBlock * (n \div PerBlock) <= n
           /\ n < PerBlock * (n \div PerBlock) + PerBlock
           /\ n = PerBlock * (n \div PerBlock) + (n % PerBlock)
           /\ n % PerBlock \in 0 .. PerBlock - 1
BY Sizes

LEMMA ChunkInBlock ==
    ASSUME NEW n \in Nat, NEW q \in Nat, PerBlock * q <= n, n < PerBlock * q + PerBlock
    PROVE  n \div PerBlock = q
<1> DEFINE r == n \div PerBlock
<1>1. r \in Nat /\ PerBlock * r <= n /\ n < PerBlock * r + PerBlock
  BY ChunkBlock
<1> HIDE DEF r
<1>2. ASSUME NEW x \in Nat, NEW y \in Nat, x < y PROVE PerBlock * x + PerBlock <= PerBlock * y
  <2>1. x + 1 <= y
    BY <1>2
  <2>2. PerBlock * (x + 1) <= PerBlock * y
    BY <2>1, Sizes
  <2> QED BY <2>2, Sizes
<1>3. ~ (r < q) /\ ~ (q < r)
  <2>1. PerBlock * r \in Nat /\ PerBlock * q \in Nat /\ PerBlock \in Nat
    BY <1>1, Sizes
  <2>2. CASE r < q
    <3>1. PerBlock * r + PerBlock <= PerBlock * q
      BY <1>1, <1>2, <2>2
    <3> QED BY <1>1, <2>1, <3>1
  <2>3. CASE q < r
    <3>1. PerBlock * q + PerBlock <= PerBlock * r
      BY <1>1, <1>2, <2>3
    <3> QED BY <1>1, <2>1, <3>1
  <2> QED BY <2>2, <2>3
<1>4. r = q
  BY <1>1, <1>3
<1> QED BY <1>4 DEF r

LEMMA ChunkInRange ==
    ASSUME NEW n \in Nat, n < Ptrs * PerBlock
    PROVE  n \div PerBlock \in Pointers
<1> DEFINE q == n \div PerBlock
<1>1. q \in Nat /\ PerBlock * q <= n
  BY ChunkBlock
<1> HIDE DEF q
<1>2. q < Ptrs
  <2>1. SUFFICES ASSUME q >= Ptrs PROVE FALSE
    BY <1>1, Sizes
  <2>2. PerBlock * q >= PerBlock * Ptrs
    BY <1>1, <2>1, Sizes
  <2> QED BY <1>1, <2>2, Sizes
<1>3. q \in Pointers
  BY <1>1, <1>2, Sizes DEF Pointers
<1> QED BY <1>3 DEF q

LEMMA ChunkPointer ==
    ASSUME NEW f \in [Inodes -> InodeRecord], NEW i \in Inodes, NEW n \in 0 .. f[i].size - 1
    PROVE  n \in Nat /\ n < Ptrs * PerBlock /\ n \div PerBlock \in Pointers
<1> DEFINE all == Ptrs * PerBlock
<1>1. f[i].size \in 0 .. all
  BY NodeFields
<1>2. all \in Nat
  BY Sizes
<1> HIDE DEF all
<1>3. n \in Nat /\ n < all
  BY <1>1, <1>2
<1> QED BY <1>3, ChunkInRange DEF all

LEMMA FreshFields ==
    /\ FreshInodes \in [Inodes -> InodeRecord] /\ FreshSb \in SbRecord
    /\ FreeInode \in InodeRecord
    /\ FreeInode.type = "FREE" /\ FreeInode.size = 0
    /\ \A k \in Pointers : FreeInode.blocks[k] = 0
    /\ \A i \in Inodes : /\ FreshInodes[i].type = IF i = Root THEN "DIR" ELSE "FREE"
                         /\ FreshInodes[i].size = 0
                         /\ \A k \in Pointers : FreshInodes[i].blocks[k] = 0
    /\ FreshSb.freeBlocks = NBlocks /\ FreshSb.freeInodes = NInodes
<1>1. 0 \in 0 .. Ptrs * PerBlock
  BY Sizes
<1>2. \A type \in {"FREE", "DIR"} :
          /\ Inode(type) \in InodeRecord /\ Inode(type).type = type /\ Inode(type).size = 0
          /\ \A k \in Pointers : Inode(type).blocks[k] = 0
  BY <1>1 DEF Inode, InodeRecord
<1>3. FreshSb \in SbRecord
  BY Sizes DEF FreshSb, SbRecord
<1>4. FreshSb.freeBlocks = NBlocks /\ FreshSb.freeInodes = NInodes
  BY DEF FreshSb
<1>5. \A i \in Inodes : FreshInodes[i] = IF i = Root THEN Inode("DIR") ELSE Inode("FREE")
  BY DEF FreshInodes, FreeInode
<1>6. FreshInodes \in [Inodes -> InodeRecord]
  <2>1. \A i \in Inodes : (IF i = Root THEN Inode("DIR") ELSE FreeInode) \in InodeRecord
    BY <1>2 DEF FreeInode
  <2> QED BY <2>1 DEF FreshInodes
<1> QED BY <1>2, <1>3, <1>4, <1>5, <1>6 DEF FreeInode

(* Counts are in range: the root is never free.                            *)
LEMMA CountsInRange ==
    ASSUME NEW B, B \subseteq Blocks, NEW F, F \subseteq Inodes \ {Root}
    PROVE  [freeBlocks |-> NBlocks - Cardinality(B), freeInodes |-> Cardinality(F) + 1] \in SbRecord
<1>1. Cardinality(B) \in Nat /\ Cardinality(B) <= NBlocks
  BY Finite, FS_Subset, FS_CardinalityType
<1>2. IsFiniteSet(Inodes \ {Root}) /\ Cardinality(Inodes \ {Root}) = NInodes - 1
  BY Sizes, Finite, FS_RemoveElement
<1>3. Cardinality(F) \in Nat /\ Cardinality(F) <= NInodes - 1
  BY <1>2, FS_Subset, FS_CardinalityType
<1>4. NBlocks - Cardinality(B) \in 0 .. NBlocks /\ Cardinality(F) + 1 \in 0 .. NInodes
  BY <1>1, <1>3, Sizes
<1> QED BY <1>4 DEF SbRecord

(* One element more or less.                                               *)
LEMMA OneLess ==
    ASSUME NEW S, IsFiniteSet(S), NEW F, F \subseteq S, NEW x \in F
    PROVE  Cardinality(F \ {x}) = Cardinality(F) - 1 /\ Cardinality(F) \in Nat
BY FS_Subset, FS_RemoveElement, FS_CardinalityType

LEMMA OneMoreCounted ==
    ASSUME NEW S, IsFiniteSet(S), NEW F, F \subseteq S, NEW x, x \notin F
    PROVE  Cardinality(F \cup {x}) = Cardinality(F) + 1 /\ Cardinality(F) \in Nat
BY FS_Subset, FS_AddElement, FS_CardinalityType

(* The first free slot takes the entry.                                    *)
LEMMA WithEntryAdds ==
    ASSUME NEW blk \in BlockSet, \E s \in Slots : blk.ents[s].ino = 0,
           NEW i \in Inodes, NEW name \in Names
    PROVE  /\ WithEntry(blk, i, name) \in BlockSet
           /\ WithEntry(blk, i, name).owner = blk.owner
           /\ \E s0 \in Slots :
                  /\ blk.ents[s0].ino = 0 /\ WithEntry(blk, i, name).ents[s0].ino = i
                  /\ \A s \in Slots \ {s0} : WithEntry(blk, i, name).ents[s] = blk.ents[s]
<1> DEFINE Free == {s \in Slots : blk.ents[s].ino = 0}
           s0 == CHOOSE t \in Slots :
                   blk.ents[t].ino = 0 /\ \A u \in Slots : u < t => blk.ents[u].ino # 0
<1>1. \E t \in Slots : blk.ents[t].ino = 0 /\ \A u \in Slots : u < t => blk.ents[u].ino # 0
  <2>1. Free \subseteq Nat /\ Free # {}
    BY Sizes
  <2>2. PICK t \in Free : \A u \in Free : t <= u
    BY <2>1, LeastElement
  <2>3. \A u \in Slots : u < t => u \notin Free
    BY <2>2, Sizes
  <2> QED BY <2>2, <2>3
<1>2. s0 \in Slots /\ blk.ents[s0].ino = 0
  BY <1>1
<1>3. WithEntry(blk, i, name) = [blk EXCEPT !.ents[s0] = [ino |-> i, name |-> name]]
  BY DEF WithEntry
<1> HIDE DEF s0
<1>4. [ino |-> i, name |-> name] \in Entry
  BY DEF Entry
<1>5. blk.ents \in [Slots -> Entry] /\ blk = [ents |-> blk.ents, owner |-> blk.owner]
      /\ blk.owner \in Inodes \cup {0}
  BY DEF BlockSet
<1> DEFINE ents == [blk.ents EXCEPT ![s0] = [ino |-> i, name |-> name]]
<1>6. ents \in [Slots -> Entry] /\ ents[s0].ino = i
      /\ \A s \in Slots \ {s0} : ents[s] = blk.ents[s]
  BY <1>2, <1>4, <1>5
<1>7. WithEntry(blk, i, name) = [ents |-> ents, owner |-> blk.owner]
  BY <1>3, <1>5
<1> HIDE DEF ents
<1>8. WithEntry(blk, i, name) \in BlockSet
  BY <1>5, <1>6, <1>7 DEF BlockSet
<1> QED BY <1>2, <1>6, <1>7, <1>8

LEMMA ZeroedFields ==
    /\ Zeroed \in BlockSet /\ Zeroed.owner = 0 /\ \A s \in Slots : Zeroed.ents[s].ino = 0
<1>1. NoEntry \in Entry /\ NoEntry.ino = 0
  BY DEF NoEntry, Entry
<1> QED BY <1>1 DEF Zeroed, Block, BlockSet

---------------------------------------------------------------------------
(* Between operations, and what leaves memory alone.                       *)

LEMMA Idle ==
    ASSUME TypeOK, Running, pc = "idle"
    PROVE  /\ disk.inodes = inodes /\ disk.bitmap = bitmap /\ disk.sb = sb
           /\ dirty = {} /\ sec = 1
           /\ op.ino = 0 /\ op.grabbed = {} /\ op.name = "none"
<1>1. /\ "inodes" \notin dirty /\ "bitmap" \notin dirty /\ "sb" \notin dirty /\ op = NoOp
      /\ disk.inodes = inodes /\ disk.bitmap = bitmap /\ disk.sb = sb
      /\ ~ (sec > 1)
  BY DEF Running, Syncing
<1>2. dirty = {}
  BY <1>1 DEF TypeOK
<1>3. sec = 1
  BY <1>1, Sizes DEF TypeOK, Inodes
<1> QED BY <1>1, <1>2, <1>3 DEF NoOp, Op

LEMMA SyncedLive ==
    ASSUME Entries, NEW made
    PROVE  AllLive(inodes, inodes, data, made)
BY DEF Entries, AllLive

LEMMA MemoryKept ==
    ASSUME Marks, Counts, Entries, ZeroTaken, Files, UNCHANGED <<inodes, bitmap, sb, data>>,
           disk'.inodes[Root].type = "DIR"
    PROVE  Marks' /\ Counts' /\ Entries' /\ ZeroTaken' /\ Files'
<1>1. Counts' /\ ZeroTaken'
  BY DEF Counts, ZeroTaken
<1>2. Apart(inodes', inodes') /\ Within(inodes', bitmap')
  BY DEF Marks
<1>3. Marks'
  BY <1>2 DEF Marks
<1>4. \A i \in Inodes, k \in Pointers, s \in Slots :
          /\ Place(inodes', data', i, k, s) <=> Place(inodes, data, i, k, s)
          /\ Target(inodes', data', i, k, s) = Target(inodes, data, i, k, s)
  OBVIOUS
<1>5. Entries'
  BY <1>4 DEF Entries
<1>6. Files'
  BY DEF Files, Stored
<1> QED BY <1>1, <1>3, <1>5, <1>6

LEMMA IdleDisk ==
    ASSUME TypeOK, Running, pc = "idle"
    PROVE  /\ Apart(disk.inodes, disk.inodes) /\ Apart(disk.inodes, inodes)
           /\ Within(disk.inodes, disk.bitmap) /\ Within(inodes, disk.bitmap)
BY Idle DEF Running, Marks

LEMMA BeginWriteKeeps ==
    ASSUME TypeOK, Running,
           NEW i \in Inodes, NEW off \in 0 .. Ptrs * PerBlock, NEW len \in Lengths,
           BeginWrite(i, off, len)
    PROVE  TypeOK' /\ Running'
<1>1. /\ pc = "idle" /\ pc' = "write" /\ inodes[i].type = "FILE" /\ off \in {0, inodes[i].size}
      /\ UNCHANGED <<inodes, bitmap, sb, dirty, disk, data, sec, promised>>
      /\ op' = [Op("write", i, {}) EXCEPT !.off = off, !.len = len, !.left = len]
  BY DEF BeginWrite, memory
<1>2. op' = [name |-> "write", ino |-> i, grabbed |-> {}, off |-> off, len |-> len, left |-> len]
  BY <1>1 DEF Op
<1>3. len \in Nat /\ off \in Nat /\ off + len - len = off
  BY Sizes, StackFSAssumption DEF StackFSAssumption
<1>4. Marks' /\ Counts' /\ Entries' /\ ZeroTaken' /\ Files'
  BY <1>1, MemoryKept DEF Running, Entries
<1>5. Writing'
  <2>1. \A n \in 0 .. off - 1 : Stored(i, n)
    BY <1>1 DEF Running, Files
  <2>2. \A n \in 0 .. off - 1 : Stored(i, n)'
    BY <1>1, <2>1 DEF Stored
  <2>3. Position' = off
    BY <1>2, <1>3 DEF Position
  <2>4. Within(disk.inodes, bitmap)'
    BY <1>1, Idle DEF Running, Marks, Within
  <2>5. "inodes" \notin dirty' /\ disk'.inodes = inodes'
    BY <1>1, Idle
  <2>6. /\ op'.ino = i /\ op'.off = off /\ op'.len = len /\ op'.left = len /\ op'.name = "write"
        /\ op'.grabbed = {}
    BY <1>2
  <2>7. op' = [name |-> "write", ino |-> op'.ino, grabbed |-> op'.grabbed,
               off |-> op'.off, len |-> op'.len, left |-> op'.left]
    BY <1>2, <2>6
  <2>8. Position' <= Ptrs * PerBlock
    BY <2>3, Sizes
  <2> QED BY <1>1, <1>3, <2>2, <2>3, <2>4, <2>5, <2>6, <2>7, <2>8 DEF Writing
<1>6. Syncing'
  BY <1>1, Idle, Sizes DEF Syncing
<1>7. CutSafe'
  <2>1. AllLive(inodes, inodes, data, i)
    BY SyncedLive DEF Running
  <2>2. /\ AllLive(disk'.inodes, inodes', data', op'.ino)
        /\ AllLive(inodes', disk'.inodes, data', op'.ino)
    <3>1. disk'.inodes = inodes /\ inodes' = inodes /\ data' = data
      BY <1>1, Idle
    <3>2. op'.ino = i
      BY <1>2
    <3> QED BY <2>1, <3>1, <3>2
  <2>3. op'.name # "format" /\ op'.grabbed = {}
    BY <1>2
  <2>4. /\ Apart(disk.inodes, disk.inodes)' /\ Apart(disk.inodes, inodes)'
        /\ Within(disk.inodes, disk.bitmap)' /\ Within(inodes, disk.bitmap)'
    BY <1>1, IdleDisk DEF Apart, Within
  <2> QED BY <2>2, <2>3, <2>4 DEF CutSafe, Within
<1>8. TypeOK'
  <2>1. op'.ino \in Inodes \cup {0} /\ op'.grabbed \subseteq Blocks /\ op'.left \in Nat
    BY <1>2, <1>3
  <2> QED BY <1>1, <2>1 DEF TypeOK
<1> QED BY <1>4, <1>5, <1>6, <1>7, <1>8 DEF Running

(* The stages of stackfs_sync.                                             *)
LEMMA SyncInodeKeeps == TypeOK /\ Running /\ SyncInode => TypeOK' /\ Running'
<1> SUFFICES ASSUME TypeOK, Running, SyncInode PROVE TypeOK' /\ Running'
  OBVIOUS
<1>1. /\ pc = "inodes" /\ "inodes" \in dirty /\ UNCHANGED <<inodes, bitmap, sb, data, op, promised>>
      /\ disk' = [disk EXCEPT !.inodes[sec] = inodes[sec]]
      /\ IF sec < NInodes THEN sec' = sec + 1 /\ UNCHANGED <<pc, dirty>>
         ELSE sec' = 1 /\ dirty' = dirty \ {"inodes"} /\ pc' = "bitmap"
  BY DEF SyncInode
<1>2. /\ inodes \in [Inodes -> InodeRecord] /\ disk \in DiskSet /\ sec \in Inodes
      /\ disk.inodes \in [Inodes -> InodeRecord]
  BY Types
<1>3. /\ disk' \in DiskSet /\ disk'.inodes \in [Inodes -> InodeRecord]
      /\ disk'.bitmap = disk.bitmap /\ disk'.sb = disk.sb
      /\ \A j \in Inodes : disk'.inodes[j] = IF j = sec THEN inodes[j] ELSE disk.inodes[j]
  <2> DEFINE f == [disk.inodes EXCEPT ![sec] = inodes[sec]]
  <2>1. /\ f \in [Inodes -> InodeRecord]
        /\ \A j \in Inodes : f[j] = IF j = sec THEN inodes[j] ELSE disk.inodes[j]
    BY <1>2
  <2>2. disk = [inodes |-> disk.inodes, bitmap |-> disk.bitmap, sb |-> disk.sb]
        /\ disk.bitmap \in SUBSET Blocks /\ disk.sb \in SbRecord
    BY <1>2 DEF DiskSet
  <2>3. disk' = [inodes |-> f, bitmap |-> disk.bitmap, sb |-> disk.sb]
    BY <1>1, <2>2
  <2> HIDE DEF f
  <2> QED BY <2>1, <2>2, <2>3 DEF DiskSet
<1>4. sec' \in Inodes /\ sec \in 1 .. NInodes /\ (~ (sec < NInodes) => sec = NInodes)
  BY <1>1, <1>2, Sizes DEF Inodes
<1>5. Marks' /\ Counts' /\ Entries' /\ ZeroTaken' /\ Files'
  <2>1. disk'.inodes[Root].type = "DIR"
    BY <1>3, Sizes DEF Running, Entries
  <2> QED BY <1>1, <2>1, MemoryKept DEF Running
<1>6. pc' # "write" /\ Writing'
  BY <1>1 DEF Writing
<1>7. Syncing'
  <2>1. \A i \in 1 .. sec - 1 : disk.inodes[i] = inodes[i]
    BY DEF Running, Syncing
  <2>2. \A i \in 1 .. sec : disk'.inodes[i] = inodes[i]
    BY <1>3, <1>4, <2>1, Sizes DEF Inodes
  <2>3. /\ "bitmap" \notin dirty => disk.bitmap = bitmap
        /\ "sb" \notin dirty => disk.sb = sb
    BY DEF Running, Syncing
  <2>4. CASE sec < NInodes
    <3>1. sec' = sec + 1 /\ UNCHANGED <<pc, dirty>> /\ sec' - 1 = sec
      BY <1>1, <1>4, <2>4
    <3> QED BY <1>1, <1>3, <2>2, <2>3, <3>1 DEF Syncing
  <2>5. CASE ~ (sec < NInodes)
    <3>1. sec' = 1 /\ dirty' = dirty \ {"inodes"} /\ pc' = "bitmap"
      BY <1>1, <2>5
    <3>2. disk'.inodes = inodes
      <4>1. \A j \in Inodes : disk'.inodes[j] = inodes[j]
        BY <1>4, <2>2, <2>5 DEF Inodes
      <4> QED BY <1>2, <1>3, <4>1
    <3> QED BY <1>1, <1>3, <2>3, <3>1, <3>2, Sizes DEF Syncing
  <2> QED BY <2>4, <2>5
<1>8. CutSafe'
  <2>1. /\ Apart(disk.inodes, disk.inodes) /\ Apart(disk.inodes, inodes)
        /\ Apart(inodes, inodes)
        /\ Within(disk.inodes, disk.bitmap \cup op.grabbed)
        /\ Within(inodes, disk.bitmap \cup op.grabbed)
    BY DEF Running, CutSafe, Marks
  <2>2. Apart(disk'.inodes, disk'.inodes) /\ Apart(disk'.inodes, inodes)
    BY <1>3, <2>1 DEF Apart
  <2>3. Within(disk'.inodes, disk.bitmap \cup op.grabbed)
    BY <1>3, <2>1 DEF Within
  <2>4. CASE op.name = "format"
    <3>1. Formatting /\ FreshInodes[Root] = inodes[Root]
      BY <2>4 DEF Running, CutSafe, Formatting
    <3>2. \A k \in Pointers : disk'.inodes[Root].blocks[k] = 0
      BY <1>3, <3>1, Sizes, FreshFields DEF Formatting, Root
    <3> QED BY <1>1, <1>3, <2>1, <2>2, <2>3, <2>4, <3>1, <3>2 DEF CutSafe, Formatting
  <2>5. CASE op.name # "format"
    <3>1. AllLive(disk.inodes, inodes, data, op.ino) /\ AllLive(inodes, disk.inodes, data, op.ino)
      BY <2>5 DEF Running, CutSafe
    <3>2. \A t \in Inodes : disk.inodes[t].type # "FREE" /\ inodes[t].type # "FREE"
                           => disk'.inodes[t].type # "FREE"
      BY <1>3
    <3>3. \A i \in Inodes, k \in Pointers, s \in Slots :
              Place(disk'.inodes, data, i, k, s) =>
                  \/ /\ Place(disk.inodes, data, i, k, s)
                     /\ Target(disk'.inodes, data, i, k, s) = Target(disk.inodes, data, i, k, s)
                  \/ /\ Place(inodes, data, i, k, s)
                     /\ Target(disk'.inodes, data, i, k, s) = Target(inodes, data, i, k, s)
      <4>1. \A i \in Inodes : disk'.inodes[i] \in {disk.inodes[i], inodes[i]}
        BY <1>3
      <4> QED BY <4>1 DEF Place, Target
    <3>4. /\ \A i \in Inodes, k \in Pointers, s \in Slots :
              Place(disk'.inodes, data, i, k, s) => Target(disk'.inodes, data, i, k, s) \in Inodes
          /\ \A i \in Inodes, k \in Pointers, s \in Slots :
              Place(inodes, data, i, k, s) => Target(inodes, data, i, k, s) \in Inodes
      <4>1. \A b \in Blocks, s \in Slots : data[b].ents[s].ino \in Inodes \cup {0}
        BY Types DEF BlockSet, Entry
      <4>2. \A i \in Inodes, k \in Pointers :
                /\ disk'.inodes[i].blocks[k] \in Blocks \cup {0}
                /\ inodes[i].blocks[k] \in Blocks \cup {0}
        BY <1>2, <1>3, NodeFields
      <4> QED BY <4>1, <4>2 DEF Place, Target
    <3>5. /\ AllLive(disk'.inodes, inodes, data, op.ino)
          /\ AllLive(inodes, disk'.inodes, data, op.ino)
      BY <3>1, <3>2, <3>3, <3>4 DEF AllLive
    <3> QED BY <1>1, <1>3, <2>1, <2>2, <2>3, <2>5, <3>5 DEF CutSafe
  <2> QED BY <2>4, <2>5
<1>9. TypeOK'
  BY <1>1, <1>3, <1>4 DEF TypeOK, DiskSet
<1> QED BY <1>5, <1>6, <1>7, <1>8, <1>9 DEF Running

LEMMA SkipInodesKeeps == TypeOK /\ Running /\ SkipInodes => TypeOK' /\ Running'
<1> SUFFICES ASSUME TypeOK, Running, SkipInodes PROVE TypeOK' /\ Running'
  OBVIOUS
<1>1. /\ pc = "inodes" /\ "inodes" \notin dirty /\ pc' = "bitmap"
      /\ UNCHANGED <<inodes, bitmap, sb, dirty, disk, data, sec, op, promised>>
  BY DEF SkipInodes, memory
<1>2. Marks' /\ Counts' /\ Entries' /\ ZeroTaken' /\ Files'
  BY <1>1, MemoryKept DEF Running, Entries
<1>3. Writing' /\ Syncing'
  BY <1>1 DEF Writing, Running, Syncing
<1>4. CutSafe'
  <2>1. CASE op.name = "format"
    <3>1. Formatting'
      BY <1>1, <2>1 DEF Running, CutSafe, Formatting
    <3> QED BY <1>1, <2>1, <3>1 DEF Running, CutSafe, Within, Apart
  <2>2. CASE op.name # "format"
    BY <1>1, <2>2 DEF Running, CutSafe, Within, Apart
  <2> QED BY <2>1, <2>2
<1>5. TypeOK'
  BY <1>1 DEF TypeOK
<1> QED BY <1>2, <1>3, <1>4, <1>5 DEF Running

(* A disk whose inodes are those in memory, and marked.                    *)
LEMMA SyncedCut ==
    ASSUME TypeOK, Running, disk.inodes = inodes, NEW B, NEW made, NEW grabbed,
           bitmap \subseteq B
    PROVE  /\ Apart(disk.inodes, disk.inodes) /\ Apart(disk.inodes, inodes)
           /\ Within(disk.inodes, B \cup grabbed) /\ Within(inodes, B \cup grabbed)
           /\ AllLive(disk.inodes, inodes, data, made) /\ AllLive(inodes, disk.inodes, data, made)
BY SyncedLive DEF Running, Marks, Within

LEMMA SyncBitmapKeeps == TypeOK /\ Running /\ SyncBitmap => TypeOK' /\ Running'
<1> SUFFICES ASSUME TypeOK, Running, SyncBitmap PROVE TypeOK' /\ Running'
  OBVIOUS
<1>1. /\ pc = "bitmap" /\ UNCHANGED <<inodes, bitmap, sb, data, sec, op, promised>>
      /\ disk' = IF "bitmap" \in dirty THEN [disk EXCEPT !.bitmap = bitmap] ELSE disk
      /\ dirty' = dirty \ {"bitmap"} /\ pc' = "sb"
  BY DEF SyncBitmap
<1>2. disk \in DiskSet /\ bitmap \subseteq Blocks
  BY Types
<1>3. disk.inodes = inodes /\ "inodes" \notin dirty /\ ("bitmap" \notin dirty => disk.bitmap = bitmap)
      /\ ("sb" \notin dirty => disk.sb = sb) /\ ~ (sec > 1)
  BY <1>1 DEF Running, Syncing
<1>4. disk' \in DiskSet /\ disk'.inodes = disk.inodes /\ disk'.bitmap = bitmap /\ disk'.sb = disk.sb
  <2>1. disk = [inodes |-> disk.inodes, bitmap |-> disk.bitmap, sb |-> disk.sb]
        /\ disk.inodes \in [Inodes -> InodeRecord] /\ disk.sb \in SbRecord
    BY <1>2 DEF DiskSet
  <2>2. disk' = [inodes |-> disk.inodes, bitmap |-> bitmap, sb |-> disk.sb]
    BY <1>1, <1>3, <2>1
  <2> QED BY <1>2, <2>1, <2>2 DEF DiskSet
<1>5. Marks' /\ Counts' /\ Entries' /\ ZeroTaken' /\ Files'
  BY <1>1, <1>4, MemoryKept DEF Running, Entries
<1>6. Writing' /\ Syncing'
  <2>1. \A i \in 1 .. sec - 1 : disk.inodes[i] = inodes[i]
    BY DEF Running, Syncing
  <2> QED BY <1>1, <1>3, <1>4, <2>1 DEF Writing, Syncing
<1>7. CutSafe'
  <2>1. /\ Apart(disk.inodes, disk.inodes) /\ Apart(disk.inodes, inodes)
        /\ Within(disk.inodes, bitmap \cup op.grabbed) /\ Within(inodes, bitmap \cup op.grabbed)
        /\ AllLive(disk.inodes, inodes, data, op.ino) /\ AllLive(inodes, disk.inodes, data, op.ino)
    BY <1>3, SyncedCut
  <2>2. op.name = "format" => Formatting'
    <3>1. op.name = "format" => inodes = FreshInodes
      BY DEF Running, CutSafe, Formatting
    <3> QED BY <1>1, <1>3, <1>4, <3>1, FreshFields, Sizes DEF Formatting
  <2> QED BY <1>1, <1>4, <2>1, <2>2 DEF CutSafe
<1>8. TypeOK'
  BY <1>1, <1>4 DEF TypeOK, DiskSet
<1> QED BY <1>5, <1>6, <1>7, <1>8 DEF Running

LEMMA SyncSbKeeps == TypeOK /\ Running /\ SyncSb => TypeOK' /\ Running'
<1> SUFFICES ASSUME TypeOK, Running, SyncSb PROVE TypeOK' /\ Running'
  OBVIOUS
<1>1. /\ pc = "sb" /\ UNCHANGED <<inodes, bitmap, sb, data, sec, promised>>
      /\ disk' = IF "sb" \in dirty THEN [disk EXCEPT !.sb = sb] ELSE disk
      /\ dirty' = dirty \ {"sb"} /\ pc' = "idle" /\ op' = NoOp
  BY DEF SyncSb
<1>2. disk \in DiskSet /\ sb \in SbRecord
  BY Types
<1>3. disk.inodes = inodes /\ "inodes" \notin dirty /\ "bitmap" \notin dirty
      /\ disk.bitmap = bitmap
      /\ ("sb" \notin dirty => disk.sb = sb) /\ ~ (sec > 1)
  BY <1>1 DEF Running, Syncing
<1>4. disk' \in DiskSet /\ disk'.inodes = disk.inodes /\ disk'.bitmap = disk.bitmap /\ disk'.sb = sb
  <2>1. disk = [inodes |-> disk.inodes, bitmap |-> disk.bitmap, sb |-> disk.sb]
        /\ disk.inodes \in [Inodes -> InodeRecord] /\ disk.bitmap \in SUBSET Blocks
    BY <1>2 DEF DiskSet
  <2>2. disk' = [inodes |-> disk.inodes, bitmap |-> disk.bitmap, sb |-> sb]
    BY <1>1, <1>3, <2>1
  <2> QED BY <1>2, <2>1, <2>2 DEF DiskSet
<1>5. Marks' /\ Counts' /\ Entries' /\ ZeroTaken' /\ Files'
  BY <1>1, <1>4, MemoryKept DEF Running, Entries
<1>6. Writing' /\ Syncing'
  <2>1. \A i \in 1 .. sec - 1 : disk.inodes[i] = inodes[i]
    BY DEF Running, Syncing
  <2> QED BY <1>1, <1>3, <1>4, <2>1 DEF Writing, Syncing
<1>7. op'.ino = 0 /\ op'.grabbed = {} /\ op'.name = "none" /\ op'.left = 0
  BY <1>1 DEF NoOp, Op
<1>8. CutSafe'
  <2>1. /\ Apart(disk.inodes, disk.inodes) /\ Apart(disk.inodes, inodes)
        /\ Within(disk.inodes, disk.bitmap \cup {}) /\ Within(inodes, disk.bitmap \cup {})
        /\ AllLive(disk.inodes, inodes, data, 0) /\ AllLive(inodes, disk.inodes, data, 0)
    BY <1>3, SyncedCut
  <2> QED BY <1>1, <1>4, <1>7, <2>1 DEF CutSafe
<1>9. TypeOK'
  <2>1. op'.ino \in Inodes \cup {0} /\ op'.grabbed \subseteq Blocks /\ op'.left \in Nat
    BY <1>7
  <2> QED BY <1>1, <1>4, <2>1 DEF TypeOK, DiskSet
<1> QED BY <1>5, <1>6, <1>8, <1>9 DEF Running

---------------------------------------------------------------------------
(* stackfs_format.                                                         *)

LEMMA FreshCounts ==
    /\ FreshSb.freeBlocks = NBlocks - Cardinality({})
    /\ FreshSb.freeInodes = Cardinality(Inodes \ {Root}) + 1
<1>1. Cardinality(Inodes \ {Root}) = NInodes - 1
  BY Finite, Sizes, FS_RemoveElement
<1>2. Cardinality({}) = 0
  BY FS_EmptySet
<1> QED BY <1>1, <1>2, FreshFields, Sizes

(* A new file system in memory.                                            *)
LEMMA FreshMemory ==
    ASSUME inodes = FreshInodes, bitmap = {}, sb = FreshSb, disk.inodes[Root].type = "DIR",
           \A b \in Blocks, s \in Slots : data[b].ents[s].ino # Root
    PROVE  Marks /\ Counts /\ Entries /\ ZeroTaken /\ Files
<1>1. Marks
  BY FreshFields DEF Marks, Apart, Within
<1>2. Counts
  <2>1. {i \in Inodes : inodes[i].type = "FREE"} = Inodes \ {Root}
    BY FreshFields
  <2>2. sb.freeBlocks = NBlocks - Cardinality(bitmap) /\ sb.freeInodes = Cardinality(Inodes \ {Root}) + 1
    BY FreshCounts
  <2> QED BY <2>1, <2>2 DEF Counts
<1>3. Entries
  BY FreshFields, Sizes DEF Entries, Place
<1>4. ZeroTaken /\ Files
  BY FreshFields DEF ZeroTaken, Files
<1> QED BY <1>1, <1>2, <1>3, <1>4

LEMMA FormatKeeps == TypeOK /\ Running /\ Format => TypeOK' /\ Running'
<1> SUFFICES ASSUME TypeOK, Running, Format PROVE TypeOK' /\ Running'
  OBVIOUS
<1>1. /\ pc = "idle" /\ inodes' = FreshInodes /\ bitmap' = {} /\ sb' = FreshSb
      /\ dirty' = {"inodes", "bitmap", "sb"} /\ op' = Op("format", 0, {}) /\ promised' = {}
      /\ pc' = "inodes" /\ UNCHANGED <<disk, data, sec>>
  BY DEF Format
<1>2. op'.name = "format" /\ op'.ino = 0 /\ op'.grabbed = {} /\ op'.left = 0
  BY <1>1 DEF Op
<1>3. Marks' /\ Counts' /\ Entries' /\ ZeroTaken' /\ Files'
  <2>1. /\ disk'.inodes[Root].type = "DIR"
        /\ \A b \in Blocks, s \in Slots : data'[b].ents[s].ino # Root
    BY <1>1 DEF Running, Entries
  <2>2. Marks'
    BY <1>1, FreshFields DEF Marks, Apart, Within
  <2>3. Counts'
    <3>1. {i \in Inodes : inodes'[i].type = "FREE"} = Inodes \ {Root}
      BY <1>1, FreshFields
    <3>2. /\ sb'.freeBlocks = NBlocks - Cardinality(bitmap')
          /\ sb'.freeInodes = Cardinality(Inodes \ {Root}) + 1
      BY <1>1, FreshCounts
    <3> QED BY <3>1, <3>2 DEF Counts
  <2>4. Entries'
    BY <1>1, <2>1, FreshFields, Sizes DEF Entries, Place
  <2>5. ZeroTaken' /\ Files'
    BY <1>1, FreshFields DEF ZeroTaken, Files
  <2> QED BY <2>2, <2>3, <2>4, <2>5
<1>4. Writing' /\ Syncing'
  BY <1>1, Idle, Sizes DEF Writing, Syncing
<1>5. CutSafe'
  <2>1. /\ Apart(disk.inodes, disk.inodes) /\ Within(disk.inodes, disk.bitmap)
    BY <1>1, IdleDisk
  <2>2. Apart(disk'.inodes, inodes') /\ Within(inodes', disk'.bitmap \cup op'.grabbed)
    BY <1>1, FreshFields DEF Apart, Within
  <2>3. Apart(disk'.inodes, disk'.inodes) /\ Within(disk'.inodes, disk'.bitmap \cup op'.grabbed)
    BY <1>1, <2>1 DEF Apart, Within
  <2>4. Formatting'
    <3>1. \A i \in Inodes, k \in Pointers, s \in Slots :
              Place(disk.inodes, data, i, k, s) =>
                  disk.inodes[Target(disk.inodes, data, i, k, s)].type # "FREE"
      BY <1>1, Idle DEF Running, Entries
    <3>2. sec' = 1 /\ pc' = "inodes" /\ "inodes" \in dirty' /\ disk' = disk /\ data' = data
      BY <1>1, Idle
    <3> QED BY <1>1, <3>1, <3>2 DEF Formatting
  <2> QED BY <1>2, <2>2, <2>3, <2>4 DEF CutSafe
<1>6. TypeOK'
  <2>1. op'.ino \in Inodes \cup {0} /\ op'.grabbed \subseteq Blocks /\ op'.left \in Nat
    BY <1>2
  <2> QED BY <1>1, <2>1, FreshFields DEF TypeOK
<1> QED BY <1>3, <1>4, <1>5, <1>6 DEF Running

LEMMA Initial == Init => TypeOK /\ Running /\ pc # "remounted"
<1> SUFFICES ASSUME Init PROVE TypeOK /\ Running /\ pc # "remounted"
  OBVIOUS
<1>1. /\ inodes = FreshInodes /\ bitmap = {} /\ sb = FreshSb /\ dirty = {}
      /\ disk = [inodes |-> FreshInodes, bitmap |-> {}, sb |-> FreshSb]
      /\ data = [b \in Blocks |-> Zeroed] /\ pc = "idle" /\ sec = 1 /\ op = NoOp /\ promised = {}
  BY DEF Init
<1>2. disk.inodes = FreshInodes /\ disk.bitmap = {} /\ disk.sb = FreshSb /\ disk \in DiskSet
  BY <1>1, FreshFields DEF DiskSet
<1>3. op.ino = 0 /\ op.grabbed = {} /\ op.name = "none" /\ op.left = 0
  BY <1>1 DEF NoOp, Op
<1>4. data \in [Blocks -> BlockSet] /\ \A b \in Blocks, s \in Slots : data[b].ents[s].ino # Root
  BY <1>1, ZeroedFields, Sizes
<1>5. TypeOK
  BY <1>1, <1>2, <1>3, <1>4, FreshFields, Sizes DEF TypeOK, DiskSet, BlockSet
<1>6. Marks /\ Counts /\ Entries /\ ZeroTaken /\ Files
  <2>1. disk.inodes[Root].type = "DIR"
    BY <1>2, FreshFields, Sizes
  <2> QED BY <1>1, <1>4, <2>1, FreshMemory
<1>7. Writing /\ Syncing
  BY <1>1, <1>2 DEF Writing, Syncing
<1>8. CutSafe
  <2>1. AllLive(disk.inodes, inodes, data, op.ino) /\ AllLive(inodes, disk.inodes, data, op.ino)
    BY <1>1, <1>2, <1>6, SyncedLive
  <2> QED BY <1>1, <1>2, <1>3, <1>6, <2>1, FreshFields DEF CutSafe, Marks, Within
<1> QED BY <1>1, <1>5, <1>6, <1>7, <1>8 DEF Running

---------------------------------------------------------------------------
(* bfs_create and bfs_mkdir.                                               *)

(* What lies on the disk as f and dat have it: the entries there were, and *)
(* at most one more, that leads to i.                                      *)
OneMore(f, dat, i) ==
    \E d \in Inodes, k \in Pointers, s \in Slots :
        \A j \in Inodes, l \in Pointers, t \in Slots :
            Place(f, dat, j, l, t) =>
                \/ j = d /\ l = k /\ t = s /\ Target(f, dat, j, l, t) = i
                \/ /\ Place(inodes, data, j, l, t)
                   /\ Target(f, dat, j, l, t) = Target(inodes, data, j, l, t)

LEMMA Targets ==
    ASSUME TypeOK, Running, NEW j \in Inodes, NEW l \in Pointers, NEW t \in Slots,
           Place(inodes, data, j, l, t)
    PROVE  /\ Target(inodes, data, j, l, t) \in Inodes \ {Root}
           /\ inodes[Target(inodes, data, j, l, t)].type # "FREE"
<1>1. inodes[j].blocks[l] \in Blocks /\ inodes[j].blocks[l] # 0
  <2>1. inodes[j].blocks[l] \in Blocks \cup {0}
    <3>1. inodes \in [Inodes -> InodeRecord]
      BY Types
    <3> QED BY <3>1, NodeFields
  <2> QED BY <2>1 DEF Place
<1>2. data[inodes[j].blocks[l]].ents[t].ino \in Inodes \cup {0}
  <2>1. data[inodes[j].blocks[l]] \in BlockSet
    BY <1>1, Types
  <2>2. data[inodes[j].blocks[l]].ents[t] \in Entry
    BY <2>1 DEF BlockSet
  <2> QED BY <2>2 DEF Entry
<1>3. data[inodes[j].blocks[l]].ents[t].ino # Root
  BY <1>1 DEF Running, Entries
<1> QED BY <1>2, <1>3 DEF Place, Target, Running, Entries

(* The entries after a node has been made, in memory and on the disk.      *)
Live(f, dat) ==
    \A j \in Inodes, k \in Pointers, s \in Slots :
        Place(f, dat, j, k, s) => f[Target(f, dat, j, k, s)].type # "FREE"
Distinct(f, dat) ==
    \A j, m \in Inodes, k, l \in Pointers, s, t \in Slots :
        /\ Place(f, dat, j, k, s) /\ Place(f, dat, m, l, t)
        /\ Target(f, dat, j, k, s) = Target(f, dat, m, l, t)
        => j = m /\ k = l /\ s = t
Typed(f, i, type) ==
    \A j \in Inodes : f[j].type = IF j = i THEN type ELSE inodes[j].type

LEMMA OneMoreLive ==
    ASSUME TypeOK, Running, pc = "idle", NEW i \in Inodes, inodes[i].type = "FREE",
           NEW type, type # "FREE", NEW g, NEW f, NEW dat,
           Typed(g, i, type),
           f = g \/ f = inodes,
           OneMore(f, dat, i)
    PROVE  /\ f = g => Live(f, dat)
           /\ Distinct(f, dat) /\ AllLive(f, g, dat, i) /\ AllLive(f, inodes, dat, i)
<1> DEFINE Is(j, l, t) == Target(f, dat, j, l, t)
           Old(j, l, t) == Place(inodes, data, j, l, t) /\ Is(j, l, t) = Target(inodes, data, j, l, t)
<1>1. PICK d \in Inodes, k \in Pointers, s \in Slots :
          \A j \in Inodes, l \in Pointers, t \in Slots : Place(f, dat, j, l, t) =>
              (j = d /\ l = k /\ t = s /\ Is(j, l, t) = i) \/ Old(j, l, t)
  BY DEF OneMore
<1>2. \A j \in Inodes, l \in Pointers, t \in Slots : Old(j, l, t) =>
          Is(j, l, t) \in Inodes /\ inodes[Is(j, l, t)].type # "FREE" /\ Is(j, l, t) # i
  BY Targets
<1>3. \A j, m \in Inodes, l, n \in Pointers, t, u \in Slots :
          Old(j, l, t) /\ Old(m, n, u) /\ Is(j, l, t) = Is(m, n, u) => j = m /\ l = n /\ t = u
  <2>1. \A j, m \in Inodes, l, n \in Pointers, t, u \in Slots :
            /\ Place(inodes, data, j, l, t) /\ Place(inodes, data, m, n, u)
            /\ Target(inodes, data, j, l, t) = Target(inodes, data, m, n, u)
            => j = m /\ l = n /\ t = u
    BY DEF Running, Entries
  <2>2. TAKE j, m \in Inodes, l, n \in Pointers, t, u \in Slots
  <2>3. HAVE Old(j, l, t) /\ Old(m, n, u) /\ Is(j, l, t) = Is(m, n, u)
  <2>4. Target(inodes, data, j, l, t) = Target(inodes, data, m, n, u)
    BY <2>3
  <2> QED BY <2>1, <2>3, <2>4
<1> HIDE DEF Old
<1>4. \A j \in Inodes, l \in Pointers, t \in Slots : Place(f, dat, j, l, t) =>
          g[Is(j, l, t)].type # "FREE" /\ (Is(j, l, t) # i => inodes[Is(j, l, t)].type # "FREE")
  BY <1>1, <1>2 DEF Typed
<1>5. \A j, m \in Inodes, l, n \in Pointers, t, u \in Slots :
          Place(f, dat, j, l, t) /\ Place(f, dat, m, n, u) /\ Is(j, l, t) = Is(m, n, u)
              => j = m /\ l = n /\ t = u
  BY <1>1, <1>2, <1>3
<1>6. AllLive(f, g, dat, i) /\ AllLive(f, inodes, dat, i)
  BY <1>4 DEF AllLive
<1> QED BY <1>4, <1>5, <1>6 DEF Live, Distinct

(* The new node i, of the given type: what becomes of the table, of the    *)
(* data blocks and of the rest; grabbed is the new block, if there is one. *)
NewTable(i, type, grabbed) ==
    /\ inodes' \in [Inodes -> InodeRecord]
    /\ Typed(inodes', i, type)
    /\ inodes'[i].size = 0
    /\ \A j \in Inodes \ {i} : inodes[j].type = "FILE" => inodes'[j] = inodes[j]
    /\ \A j \in Inodes, k \in Pointers :
           \/ inodes'[j].blocks[k] = inodes[j].blocks[k]
           \/ /\ inodes[j].type = "DIR" /\ inodes[j].blocks[k] = 0
              /\ inodes'[j].blocks[k] \in grabbed
    /\ \A j, m \in Inodes, k, l \in Pointers :
           inodes'[j].blocks[k] # inodes[j].blocks[k] /\ inodes'[m].blocks[l] # inodes[m].blocks[l]
               => j = m /\ k = l
    /\ \A b \in grabbed : \E j \in Inodes, k \in Pointers : inodes'[j].blocks[k] = b
NewData(i) ==
    /\ data' \in [Blocks -> BlockSet]
    /\ \A b \in bitmap : data'[b].owner = data[b].owner
    /\ \A b \in Blocks, s \in Slots : data'[b].ents[s].ino # Root
    /\ OneMore(inodes', data', i) /\ OneMore(inodes, data', i)
NewCounts(i, type, grabbed) ==
    /\ bitmap' = bitmap \cup grabbed
    /\ sb' = [freeBlocks |-> NBlocks - Cardinality(bitmap'), freeInodes |-> sb.freeInodes - 1]
    /\ dirty' = {"inodes", "sb"} \cup (IF grabbed = {} THEN {} ELSE {"bitmap"})
    /\ op' = Op("make", i, grabbed)
    /\ bitmap' # {} => 0 \in bitmap'
    /\ Blocks # {} /\ type = "FILE" => 0 \in bitmap'
    /\ pc' = "inodes" /\ promised' \subseteq Inodes \X Names /\ UNCHANGED <<disk, sec>>

LEMMA MadeKeeps ==
    ASSUME TypeOK, Running, pc = "idle",
           NEW i \in Inodes, inodes[i].type = "FREE", NEW type \in {"FILE", "DIR"},
           NEW grabbed, grabbed \subseteq Blocks, grabbed \cap bitmap = {},
           NewTable(i, type, grabbed), NewData(i), NewCounts(i, type, grabbed)
    PROVE  TypeOK' /\ Running'
<1>0. /\ \A j \in Inodes : inodes'[j].type = IF j = i THEN type ELSE inodes[j].type
      /\ \A j \in Inodes, k \in Pointers :
             \/ inodes'[j].blocks[k] = inodes[j].blocks[k]
             \/ /\ inodes[j].type = "DIR" /\ inodes[j].blocks[k] = 0
                /\ inodes'[j].blocks[k] \in grabbed
      /\ \A j, m \in Inodes, k, l \in Pointers :
             inodes'[j].blocks[k] # inodes[j].blocks[k] /\ inodes'[m].blocks[l] # inodes[m].blocks[l]
                 => j = m /\ k = l
  BY DEF NewTable, Typed
<1> USE <1>0 DEF NewTable, NewData, NewCounts
<1>1. /\ disk'.inodes = inodes /\ disk'.bitmap = bitmap /\ disk'.sb = sb /\ sec' = 1
      /\ i # Root /\ inodes[Root].type = "DIR"
  BY Idle DEF Running, Entries
<1>2. op'.name = "make" /\ op'.ino = i /\ op'.grabbed = grabbed /\ op'.left = 0
  BY DEF Op
<1>3. /\ Apart(inodes, inodes) /\ Within(inodes, bitmap)
      /\ \A b \in bitmap : b # 0 => \E j \in Inodes, k \in Pointers : inodes[j].blocks[k] = b
  BY DEF Running, Marks
<1>4. /\ Apart(inodes', inodes') /\ Apart(inodes, inodes')
      /\ Within(inodes', bitmap \cup grabbed)
  <2> USE <1>0, <1>3 DEF Apart, Within
  <2>1. Within(inodes', bitmap \cup grabbed)
    OBVIOUS
  <2>2. Apart(inodes, inodes')
    OBVIOUS
  <2>3. Apart(inodes', inodes')
    OBVIOUS
  <2> QED BY <2>1, <2>2, <2>3
<1>5. Marks'
  <2>1. \A b \in bitmap' : b # 0 => \E j \in Inodes, k \in Pointers : inodes'[j].blocks[k] = b
    <3>1. TAKE b \in bitmap'
    <3>2. HAVE b # 0
    <3>3. CASE b \in grabbed
      BY <3>3
    <3>4. CASE b \in bitmap
      <4>1. PICK j \in Inodes, k \in Pointers : inodes[j].blocks[k] = b
        BY <1>3, <3>2, <3>4
      <4>2. inodes'[j].blocks[k] = b
        BY <3>2, <4>1
      <4> QED BY <4>2
    <3> QED BY <3>3, <3>4
  <2> QED BY <1>4, <2>1 DEF Marks
<1> DEFINE Free == {j \in Inodes : inodes[j].type = "FREE"}
<1>6. {j \in Inodes : inodes'[j].type = "FREE"} = Free \ {i}
  OBVIOUS
<1>7. /\ Free \subseteq Inodes /\ i \in Free /\ Free \ {i} \subseteq Inodes \ {Root}
      /\ sb.freeInodes = Cardinality(Free) + 1
  BY <1>1 DEF Running, Counts
<1> HIDE DEF Free
<1>8. Cardinality(Free \ {i}) + 1 = sb.freeInodes - 1
  BY <1>7, Finite, OneLess
<1>9. Counts'
  <2>1. sb'.freeInodes = Cardinality(Free \ {i}) + 1 /\ sb'.freeBlocks = NBlocks - Cardinality(bitmap')
    BY <1>8
  <2> QED BY <1>6, <2>1 DEF Counts
<1>10. sb' \in SbRecord
  <2>1. sb' = [freeBlocks |-> NBlocks - Cardinality(bitmap'), freeInodes |-> Cardinality(Free \ {i}) + 1]
    BY <1>8
  <2>2. bitmap' \subseteq Blocks
    BY Types
  <2> QED BY <1>7, <2>1, <2>2, CountsInRange
<1>11. Live(inodes', data') /\ Distinct(inodes', data') /\ AllLive(inodes', inodes, data', i)
  <2>1. Typed(inodes', i, type) /\ type # "FREE"
    BY DEF Typed
  <2> QED BY <2>1, OneMoreLive
<1>12. AllLive(inodes, inodes', data', i)
  <2>1. Typed(inodes', i, type) /\ type # "FREE"
    BY DEF Typed
  <2> QED BY <2>1, OneMoreLive
<1>13. Entries'
  <2>1. \A j \in Inodes : inodes'[j].type = "FREE" => \A k \in Pointers : inodes'[j].blocks[k] = 0
    <3>1. \A j \in Inodes : inodes[j].type = "FREE" => \A k \in Pointers : inodes[j].blocks[k] = 0
      BY DEF Running, Entries
    <3>2. \A j \in Inodes, k \in Pointers : inodes[j].type = "FREE" => inodes'[j].blocks[k] = 0
      BY <1>0, <3>1
    <3> QED BY <3>1, <3>2, <1>0
  <2> QED BY <1>1, <1>11, <2>1, Sizes DEF Entries, Live, Distinct, Place, Target
<1>14. ZeroTaken'
  <2>1. Blocks # {} /\ (\E j \in Inodes : inodes[j].type = "FILE") => 0 \in bitmap
    BY DEF Running, ZeroTaken
  <2> QED BY <2>1 DEF ZeroTaken
<1>15. Files'
  <2>1. SUFFICES ASSUME NEW j \in Inodes, inodes'[j].type = "FILE",
                        NEW n \in 0 .. inodes'[j].size - 1
                 PROVE  Stored(j, n)'
    BY DEF Files
  <2>2. j # i
    BY <2>1
  <2>3. inodes[j].type = "FILE" /\ inodes'[j] = inodes[j]
    BY <2>1, <2>2
  <2>4. Stored(j, n) /\ n \div PerBlock \in Pointers
    BY <2>3, Types, ChunkPointer DEF Running, Files
  <2>5. inodes[j].blocks[n \div PerBlock] \in bitmap
    BY <1>3, <2>4 DEF Stored, Within
  <2> QED BY <2>3, <2>4, <2>5 DEF Stored
<1>16. Writing' /\ Syncing'
  BY <1>1, Sizes DEF Writing, Syncing
<1>17. CutSafe'
  BY <1>1, <1>2, <1>3, <1>4, <1>11, <1>12 DEF CutSafe, Within
<1>18. TypeOK'
  <2>1. op'.ino \in Inodes \cup {0} /\ op'.grabbed \subseteq Blocks /\ op'.left \in Nat
    BY <1>2
  <2> QED BY <1>10, <2>1 DEF TypeOK, BlockSet
<1> QED BY <1>5, <1>9, <1>13, <1>14, <1>15, <1>16, <1>17, <1>18 DEF Running

LEMMA OneMoreEntry ==
    ASSUME TypeOK, NEW i \in Inodes, NEW d \in Inodes, NEW k \in Pointers,
           NEW b \in Blocks, NEW s0 \in Slots, NEW f, NEW dat,
           \A j \in Inodes, l \in Pointers : f[j].blocks[l] # 0 =>
               /\ f[j].type = inodes[j].type /\ f[j].blocks[l] \in Blocks
               /\ \/ f[j].blocks[l] = inodes[j].blocks[l] /\ f[j].blocks[l] # b
                  \/ f[j].blocks[l] = b /\ j = d /\ l = k,
           \A c \in Blocks \ {b} : dat[c] = data[c],
           dat[b].ents[s0].ino = i,
           \A s \in Slots \ {s0} : \/ dat[b].ents[s].ino = 0
                                   \/ dat[b].ents[s] = data[b].ents[s] /\ inodes[d].blocks[k] = b
    PROVE  OneMore(f, dat, i)
<1>1. ASSUME NEW j \in Inodes, NEW l \in Pointers, NEW t \in Slots, Place(f, dat, j, l, t)
      PROVE  \/ j = d /\ l = k /\ t = s0 /\ Target(f, dat, j, l, t) = i
             \/ /\ Place(inodes, data, j, l, t)
                /\ Target(f, dat, j, l, t) = Target(inodes, data, j, l, t)
  <2>1. CASE f[j].blocks[l] = b
    BY <1>1, <2>1 DEF Place, Target
  <2>2. CASE f[j].blocks[l] # b
    BY <1>1, <2>2 DEF Place, Target
  <2> QED BY <2>1, <2>2
<1> QED BY <1>1 DEF OneMore

LEMMA MadeFromFields ==
    ASSUME NEW r \in InodeRecord, NEW type \in {"FILE", "DIR"}
    PROVE  /\ MadeFrom(r, type) \in InodeRecord
           /\ MadeFrom(r, type).type = type /\ MadeFrom(r, type).size = 0
           /\ MadeFrom(r, type).blocks = r.blocks
<1>1. 0 \in 0 .. Ptrs * PerBlock
  BY Sizes
<1> QED BY <1>1 DEF MadeFrom, InodeRecord

(* What the three ways to make a node have in common.                      *)
LEMMA NewNode ==
    ASSUME TypeOK, Running, pc = "idle", NEW d \in Inodes, inodes[d].type = "DIR",
           NEW i \in Inodes, inodes[i].type = "FREE", NEW type \in {"FILE", "DIR"}
    PROVE  /\ i # d /\ i # Root /\ \A k \in Pointers : inodes[i].blocks[k] = 0
           /\ LET node == MadeFrom(inodes[i], type)
              IN  /\ node \in InodeRecord /\ node.type = type /\ node.size = 0
                  /\ node.blocks = inodes[i].blocks
           /\ sb = [freeBlocks |-> sb.freeBlocks, freeInodes |-> sb.freeInodes]
           /\ sb.freeBlocks = NBlocks - Cardinality(bitmap) /\ sb.freeInodes \in Nat
           /\ dirty = {}
           /\ \A b \in Blocks, s \in Slots : data[b].ents[s].ino # Root
           /\ \A j \in Inodes, k \in Pointers : inodes[j].blocks[k] # 0 =>
                  inodes[j].blocks[k] \in bitmap /\ inodes[j].blocks[k] \in Blocks
           /\ Apart(inodes, inodes)
           /\ bitmap # {} => 0 \in bitmap
<1>1. i # d /\ i # Root /\ \A k \in Pointers : inodes[i].blocks[k] = 0
  BY DEF Running, Entries
<1>2. /\ MadeFrom(inodes[i], type) \in InodeRecord
      /\ MadeFrom(inodes[i], type).type = type /\ MadeFrom(inodes[i], type).size = 0
      /\ MadeFrom(inodes[i], type).blocks = inodes[i].blocks
  BY Types, MadeFromFields
<1>3. sb = [freeBlocks |-> sb.freeBlocks, freeInodes |-> sb.freeInodes] /\ sb.freeInodes \in Nat
  BY Types DEF SbRecord
<1>4. sb.freeBlocks = NBlocks - Cardinality(bitmap)
  BY DEF Running, Counts
<1>5. \A b \in Blocks, s \in Slots : data[b].ents[s].ino # Root
  BY DEF Running, Entries
<1>6. \A j \in Inodes, k \in Pointers : inodes[j].blocks[k] # 0 =>
          inodes[j].blocks[k] \in bitmap /\ inodes[j].blocks[k] \in Blocks
  BY Types DEF Running, Marks, Within
<1>7. Apart(inodes, inodes) /\ (bitmap # {} => 0 \in bitmap)
  BY DEF Running, Marks, ZeroTaken
<1> QED BY <1>1, <1>2, <1>3, <1>4, <1>5, <1>6, <1>7, Idle

LEMMA SameTable ==
    ASSUME NEW i \in Inodes, NEW type, inodes' \in [Inodes -> InodeRecord],
           \A j \in Inodes : inodes'[j].type = IF j = i THEN type ELSE inodes[j].type,
           inodes'[i].size = 0,
           \A j \in Inodes \ {i} : inodes'[j] = inodes[j],
           \A j \in Inodes : inodes'[j].blocks = inodes[j].blocks
    PROVE  NewTable(i, type, {})
<1>1. \A j \in Inodes, k \in Pointers : inodes'[j].blocks[k] = inodes[j].blocks[k]
  OBVIOUS
<1>2. Typed(inodes', i, type)
  BY DEF Typed
<1>3. \A j \in Inodes \ {i} : inodes[j].type = "FILE" => inodes'[j] = inodes[j]
  OBVIOUS
<1> QED BY <1>1, <1>2, <1>3 DEF NewTable

LEMMA MakeNodeKeeps ==
    ASSUME TypeOK, Running, NEW d \in Inodes, NEW name \in Names, NEW type \in {"FILE", "DIR"},
           MakeNode(d, name, type)
    PROVE  TypeOK' /\ Running'
<1>1. PICK i \in Inodes :
        /\ FirstFreeInode(i)
        /\ \/ \E k \in Pointers :
                /\ StopsAt(d, k)
                /\ inodes[d].blocks[k] # 0
                /\ inodes' = [inodes EXCEPT ![i] = MadeFrom(@, type)]
                /\ data' = [data EXCEPT ![inodes[d].blocks[k]] = WithEntry(@, i, name)]
                /\ sb' = [sb EXCEPT !.freeInodes = @ - 1]
                /\ dirty' = dirty \cup {"inodes", "sb"}
                /\ op' = Op("make", i, {})
                /\ UNCHANGED bitmap
           \/ \E k \in Pointers, b \in Blocks :
                /\ StopsAt(d, k)
                /\ inodes[d].blocks[k] = 0
                /\ FirstClear(b)
                /\ bitmap' = Marked(b)
                /\ inodes' = [inodes EXCEPT ![i] = MadeFrom(@, type), ![d].blocks[k] = b]
                /\ data' = [data EXCEPT ![b] = WithEntry(Zeroed, i, name)]
                /\ sb' = [freeInodes |-> sb.freeInodes - 1, freeBlocks |-> sb.freeBlocks - 1]
                /\ dirty' = dirty \cup {"inodes", "bitmap", "sb"}
                /\ op' = Op("make", i, {b})
           \/ /\ \A k \in Pointers :
                   StopsAt(d, k) => inodes[d].blocks[k] = 0 /\ DiskFull
              /\ inodes' = [inodes EXCEPT ![i] = MadeFrom(@, type)]
              /\ sb' = [sb EXCEPT !.freeInodes = @ - 1]
              /\ dirty' = dirty \cup {"inodes", "sb"}
              /\ op' = Op("make", i, {})
              /\ UNCHANGED <<data, bitmap>>
  BY DEF MakeNode
<1>2. /\ pc = "idle" /\ inodes[d].type = "DIR" /\ inodes[i].type = "FREE"
      /\ promised' = promised \cup {<<d, name>>} /\ pc' = "inodes" /\ UNCHANGED <<disk, sec>>
  BY <1>1 DEF MakeNode, FirstFreeInode
<1>3. promised' \subseteq Inodes \X Names
  BY <1>2 DEF TypeOK
<1> DEFINE node == MadeFrom(inodes[i], type)
<1>4. /\ i # d /\ i # Root /\ \A k \in Pointers : inodes[i].blocks[k] = 0
      /\ node \in InodeRecord /\ node.type = type /\ node.size = 0 /\ node.blocks = inodes[i].blocks
      /\ sb = [freeBlocks |-> sb.freeBlocks, freeInodes |-> sb.freeInodes]
      /\ sb.freeBlocks = NBlocks - Cardinality(bitmap) /\ sb.freeInodes \in Nat
      /\ dirty = {}
      /\ \A b \in Blocks, s \in Slots : data[b].ents[s].ino # Root
      /\ \A j \in Inodes, k \in Pointers : inodes[j].blocks[k] # 0 =>
             inodes[j].blocks[k] \in bitmap /\ inodes[j].blocks[k] \in Blocks
      /\ Apart(inodes, inodes)
      /\ bitmap # {} => 0 \in bitmap
  BY <1>2, NewNode
<1> HIDE DEF node
<1>5. /\ inodes \in [Inodes -> InodeRecord] /\ data \in [Blocks -> BlockSet] /\ bitmap \subseteq Blocks
  BY Types
(* The table with the new node and nothing else.                           *)
<1>6. LET f == [inodes EXCEPT ![i] = node]
      IN  /\ f \in [Inodes -> InodeRecord]
          /\ \A j \in Inodes : f[j].type = IF j = i THEN type ELSE inodes[j].type
          /\ f[i].size = 0
          /\ \A j \in Inodes \ {i} : f[j] = inodes[j]
          /\ \A j \in Inodes : f[j].blocks = inodes[j].blocks
          /\ \A j \in Inodes, k \in Pointers : f[j].blocks[k] # 0 => f[j].type = inodes[j].type
  BY <1>4, <1>5
<1>7. ASSUME NEW k \in Pointers,
             StopsAt(d, k), inodes[d].blocks[k] # 0,
             inodes' = [inodes EXCEPT ![i] = MadeFrom(@, type)],
             data' = [data EXCEPT ![inodes[d].blocks[k]] = WithEntry(@, i, name)],
             sb' = [sb EXCEPT !.freeInodes = @ - 1],
             dirty' = dirty \cup {"inodes", "sb"},
             op' = Op("make", i, {}),
             UNCHANGED bitmap
      PROVE  TypeOK' /\ Running'
  <2> DEFINE b == inodes[d].blocks[k]
  <2>1. b \in bitmap /\ b \in Blocks /\ b # 0
    BY <1>4, <1>7
  <2>2. \E s \in Slots : data[b].ents[s].ino = 0
    BY <1>7 DEF StopsAt, HasRoom, InDir
  <2>3. PICK s0 \in Slots :
            /\ WithEntry(data[b], i, name) \in BlockSet
            /\ WithEntry(data[b], i, name).owner = data[b].owner
            /\ WithEntry(data[b], i, name).ents[s0].ino = i
            /\ \A s \in Slots \ {s0} : WithEntry(data[b], i, name).ents[s] = data[b].ents[s]
    BY <1>5, <2>1, <2>2, WithEntryAdds
  <2>4. /\ data' \in [Blocks -> BlockSet] /\ \A c \in Blocks \ {b} : data'[c] = data[c]
        /\ data'[b].owner = data[b].owner /\ data'[b].ents[s0].ino = i
        /\ \A s \in Slots \ {s0} : data'[b].ents[s] = data[b].ents[s]
    BY <1>5, <1>7, <2>1, <2>3
  <2>5. inodes' = [inodes EXCEPT ![i] = node]
    BY <1>7 DEF node
  <2>6. \A f : f = inodes \/ f = inodes' => OneMore(f, data', i)
    <3>1. TAKE f
    <3>2. HAVE f = inodes \/ f = inodes'
    <3>3. \A j \in Inodes, l \in Pointers : f[j].blocks[l] # 0 =>
               /\ f[j].type = inodes[j].type /\ f[j].blocks[l] \in Blocks
               /\ \/ f[j].blocks[l] = inodes[j].blocks[l] /\ f[j].blocks[l] # b
                  \/ f[j].blocks[l] = b /\ j = d /\ l = k
      BY <1>4, <1>6, <2>1, <2>5, <3>2 DEF Apart
    <3> HIDE DEF b
    <3> QED BY <2>1, <2>4, <3>3, OneMoreEntry DEF b
  <2>7. sb' = [freeBlocks |-> NBlocks - Cardinality(bitmap'), freeInodes |-> sb.freeInodes - 1]
    BY <1>4, <1>7
  <2>8. \A c \in Blocks, s \in Slots : data'[c].ents[s].ino # Root
    BY <1>4, <2>4
  <2>9. \A c \in bitmap : data'[c].owner = data[c].owner
    BY <1>5, <2>4
  <2> HIDE DEF b
  <2>10. NewTable(i, type, {})
    BY <1>6, <2>5, SameTable
  <2>11. NewData(i)
    BY <2>4, <2>6, <2>8, <2>9 DEF NewData
  <2>12. NewCounts(i, type, {})
    BY <1>2, <1>3, <1>4, <1>7, <2>1, <2>7 DEF NewCounts
  <2> QED BY <1>2, <2>10, <2>11, <2>12, MadeKeeps
<1>8. ASSUME NEW k \in Pointers, NEW b \in Blocks,
             inodes[d].blocks[k] = 0,
             FirstClear(b),
             bitmap' = Marked(b),
             inodes' = [inodes EXCEPT ![i] = MadeFrom(@, type), ![d].blocks[k] = b],
             data' = [data EXCEPT ![b] = WithEntry(Zeroed, i, name)],
             sb' = [freeInodes |-> sb.freeInodes - 1, freeBlocks |-> sb.freeBlocks - 1],
             dirty' = dirty \cup {"inodes", "bitmap", "sb"},
             op' = Op("make", i, {b})
      PROVE  TypeOK' /\ Running'
  <2>1. b \notin bitmap /\ bitmap' = bitmap \cup {b} /\ 0 \in bitmap'
    BY <1>8, Sizes DEF FirstClear, Marked, Blocks
  <2>2. PICK s0 \in Slots :
            /\ WithEntry(Zeroed, i, name) \in BlockSet
            /\ WithEntry(Zeroed, i, name).ents[s0].ino = i
            /\ \A s \in Slots \ {s0} : WithEntry(Zeroed, i, name).ents[s] = Zeroed.ents[s]
    <3> DEFINE zero == Zeroed
    <3>1. zero \in BlockSet /\ \E s \in Slots : zero.ents[s].ino = 0
      BY ZeroedFields, Sizes
    <3> HIDE DEF zero
    <3>2. /\ WithEntry(zero, i, name) \in BlockSet
          /\ \E s0 \in Slots :
                 /\ zero.ents[s0].ino = 0 /\ WithEntry(zero, i, name).ents[s0].ino = i
                 /\ \A s \in Slots \ {s0} : WithEntry(zero, i, name).ents[s] = zero.ents[s]
      BY <3>1, WithEntryAdds
    <3> QED BY <3>2 DEF zero
  <2>3. /\ data' \in [Blocks -> BlockSet] /\ \A c \in Blocks \ {b} : data'[c] = data[c]
        /\ data'[b].ents[s0].ino = i
        /\ \A s \in Slots \ {s0} : data'[b].ents[s].ino = 0
    BY <1>5, <1>8, <2>2, ZeroedFields
  <2> DEFINE grown == [inodes[d] EXCEPT !.blocks[k] = b]
  <2>4. /\ grown \in InodeRecord /\ grown.type = inodes[d].type
        /\ \A l \in Pointers : grown.blocks[l] = IF l = k THEN b ELSE inodes[d].blocks[l]
    <3>1. inodes[d] = [type |-> inodes[d].type, size |-> inodes[d].size, blocks |-> inodes[d].blocks]
          /\ inodes[d].blocks \in [Pointers -> Blocks \cup {0}]
          /\ inodes[d].type \in {"FREE", "FILE", "DIR"} /\ inodes[d].size \in 0 .. Ptrs * PerBlock
      BY <1>5, NodeFields
    <3> DEFINE blocks == [inodes[d].blocks EXCEPT ![k] = b]
    <3>2. blocks \in [Pointers -> Blocks \cup {0}]
          /\ \A l \in Pointers : blocks[l] = IF l = k THEN b ELSE inodes[d].blocks[l]
      BY <3>1
    <3>3. grown = [type |-> inodes[d].type, size |-> inodes[d].size, blocks |-> blocks]
      BY <3>1
    <3> HIDE DEF blocks, grown
    <3> QED BY <3>1, <3>2, <3>3 DEF InodeRecord
  <2>5. inodes' = [[inodes EXCEPT ![i] = node] EXCEPT ![d] = grown]
    BY <1>4, <1>5, <1>8 DEF node
  <2> HIDE DEF grown
  <2>6. /\ inodes' \in [Inodes -> InodeRecord] /\ inodes'[i] = node /\ inodes'[d] = grown
        /\ \A j \in Inodes \ {i, d} : inodes'[j] = inodes[j]
    BY <1>4, <1>5, <2>4, <2>5
  <2>7. \A j \in Inodes, l \in Pointers :
            inodes'[j].blocks[l] = IF j = d /\ l = k THEN b ELSE inodes[j].blocks[l]
    BY <1>4, <2>4, <2>6
  <2>8. \A j \in Inodes : inodes'[j].type = IF j = i THEN type ELSE inodes[j].type
    BY <1>4, <2>4, <2>6
  <2>9. \A f : f = inodes \/ f = inodes' => OneMore(f, data', i)
    <3>1. TAKE f
    <3>2. HAVE f = inodes \/ f = inodes'
    <3>3. \A j \in Inodes, l \in Pointers : f[j].blocks[l] # 0 =>
               /\ f[j].type = inodes[j].type /\ f[j].blocks[l] \in Blocks
               /\ \/ f[j].blocks[l] = inodes[j].blocks[l] /\ f[j].blocks[l] # b
                  \/ f[j].blocks[l] = b /\ j = d /\ l = k
      BY <1>4, <2>1, <2>7, <2>8, <3>2
    <3> QED BY <2>3, <3>3, OneMoreEntry
  <2>10. sb' = [freeBlocks |-> NBlocks - Cardinality(bitmap'), freeInodes |-> sb.freeInodes - 1]
    <3>1. Cardinality(bitmap \cup {b}) = Cardinality(bitmap) + 1 /\ Cardinality(bitmap) \in Nat
      BY <1>5, <2>1, Finite, OneMoreCounted
    <3>2. sb.freeBlocks - 1 = NBlocks - Cardinality(bitmap')
      BY <1>4, <2>1, <3>1, Sizes
    <3> QED BY <1>8, <3>2
  <2>11. \A c \in Blocks, s \in Slots : data'[c].ents[s].ino # Root
    BY <1>4, <2>3, Sizes
  <2>12. /\ dirty' = {"inodes", "sb"} \cup (IF {b} = {} THEN {} ELSE {"bitmap"})
         /\ {b} \subseteq Blocks /\ {b} \cap bitmap = {}
    BY <1>4, <1>8, <2>1
  <2>13. \A c \in {b} : \E j \in Inodes, l \in Pointers : inodes'[j].blocks[l] = c
    BY <2>7
  <2>14. \A j \in Inodes, l \in Pointers :
            \/ inodes'[j].blocks[l] = inodes[j].blocks[l]
            \/ inodes[j].type = "DIR" /\ inodes[j].blocks[l] = 0 /\ inodes'[j].blocks[l] \in {b}
    <3>1. TAKE j \in Inodes, l \in Pointers
    <3>2. inodes'[j].blocks[l] = IF j = d /\ l = k THEN b ELSE inodes[j].blocks[l]
      BY <2>7
    <3>3. inodes[d].type = "DIR" /\ inodes[d].blocks[k] = 0
      BY <1>2, <1>8
    <3> QED BY <3>2, <3>3
  <2>15. \A j, m \in Inodes, l, n \in Pointers :
            inodes'[j].blocks[l] # inodes[j].blocks[l] /\ inodes'[m].blocks[n] # inodes[m].blocks[n]
                => j = m /\ l = n
    BY <2>7
  <2>16. inodes'[i].size = 0 /\ \A j \in Inodes \ {i} : inodes[j].type = "FILE" => inodes'[j] = inodes[j]
    BY <1>2, <1>4, <2>6
  <2>17. \A c \in bitmap : data'[c].owner = data[c].owner
    BY <1>5, <2>1, <2>3
  <2>18. NewTable(i, type, {b})
    <3>1. Typed(inodes', i, type)
      BY <2>8 DEF Typed
    <3> QED BY <2>6, <2>13, <2>14, <2>15, <2>16, <3>1 DEF NewTable
  <2>19. NewData(i)
    BY <2>3, <2>9, <2>11, <2>17 DEF NewData
  <2>20. NewCounts(i, type, {b})
    BY <1>2, <1>3, <1>8, <2>1, <2>10, <2>12 DEF NewCounts
  <2> QED BY <1>2, <2>12, <2>18, <2>19, <2>20, MadeKeeps
<1>9. ASSUME \A k \in Pointers : StopsAt(d, k) => inodes[d].blocks[k] = 0 /\ DiskFull,
             inodes' = [inodes EXCEPT ![i] = MadeFrom(@, type)],
             sb' = [sb EXCEPT !.freeInodes = @ - 1],
             dirty' = dirty \cup {"inodes", "sb"},
             op' = Op("make", i, {}),
             UNCHANGED <<data, bitmap>>
      PROVE  TypeOK' /\ Running'
  <2>1. inodes' = [inodes EXCEPT ![i] = node]
    BY <1>9 DEF node
  <2>2. \A f : f = inodes \/ f = inodes' => OneMore(f, data', i)
    <3>1. TAKE f
    <3>2. HAVE f = inodes \/ f = inodes'
    <3>3. \A j \in Inodes, l \in Pointers, t \in Slots : Place(f, data', j, l, t) =>
              Place(inodes, data, j, l, t) /\ Target(f, data', j, l, t) = Target(inodes, data, j, l, t)
      BY <1>4, <1>6, <1>9, <2>1, <3>2 DEF Place, Target
    <3>4. \E e \in Inodes, k \in Pointers, s \in Slots : TRUE
      BY Sizes
    <3> QED BY <3>3, <3>4 DEF OneMore
  <2>3. Blocks # {} => 0 \in bitmap
    <3>1. CASE StopsAt(d, 0)
      BY <1>9, <3>1, Sizes DEF DiskFull, Blocks
    <3>2. CASE ~ StopsAt(d, 0)
      <4>1. inodes[d].blocks[0] # 0
        BY <3>2 DEF StopsAt
      <4> QED BY <1>4, <4>1, Sizes
    <3> QED BY <3>1, <3>2
  <2>4. sb' = [freeBlocks |-> NBlocks - Cardinality(bitmap'), freeInodes |-> sb.freeInodes - 1]
    BY <1>4, <1>9
  <2>5. \A b \in Blocks, s \in Slots : data'[b].ents[s].ino # Root
    BY <1>4, <1>9
  <2>6. NewTable(i, type, {})
    BY <1>6, <2>1, SameTable
  <2>7. NewData(i)
    BY <1>5, <1>9, <2>2, <2>5 DEF NewData
  <2>8. NewCounts(i, type, {})
    BY <1>2, <1>3, <1>4, <1>9, <2>3, <2>4 DEF NewCounts
  <2> QED BY <1>2, <2>6, <2>7, <2>8, MadeKeeps
<1> QED BY <1>1, <1>7, <1>8, <1>9

---------------------------------------------------------------------------
(* bfs_unlink.                                                             *)

(* The entries of f and dat are entries of g and old, and lead to the same.*)
EntriesOf(f, dat, g, old) ==
    \A j \in Inodes, l \in Pointers, t \in Slots : Place(f, dat, j, l, t) =>
        Place(g, old, j, l, t) /\ Target(f, dat, j, l, t) = Target(g, old, j, l, t)

LEMMA UnlinkKeeps ==
    ASSUME TypeOK, Running, NEW d \in Inodes, NEW name \in Names, Unlink(d, name)
    PROVE  TypeOK' /\ Running'
<1>1. PICK k \in Pointers, s \in Slots :
        /\ FirstMatch(d, name, k, s)
        /\ LET i == InDir(d, k, s).ino
           IN  /\ bitmap' = bitmap \ Held(inodes[i])
               /\ sb' = [freeBlocks |-> FreeBlocksAfter(Held(inodes[i])),
                         freeInodes |-> sb.freeInodes + 1]
               /\ inodes' = [inodes EXCEPT ![i] = Cleared(@)]
               /\ dirty' = dirty \cup FlagsSet(Held(inodes[i]))
               /\ op' = Op("unlink", i, {})
               /\ promised' = {e \in promised : e # <<d, name>> /\ e[1] # i}
        /\ data' = [data EXCEPT ![inodes[d].blocks[k]] = WithoutEntry(@, s)]
  BY DEF Unlink
<1>2. pc = "idle" /\ inodes[d].type = "DIR" /\ pc' = "inodes" /\ UNCHANGED <<disk, sec>>
  BY DEF Unlink
<1> DEFINE i == InDir(d, k, s).ino
           b == inodes[d].blocks[k]
           held == Held(inodes[i])
<1>3. /\ inodes \in [Inodes -> InodeRecord] /\ data \in [Blocks -> BlockSet]
      /\ bitmap \subseteq Blocks /\ sb \in SbRecord
      /\ disk'.inodes = inodes /\ disk'.bitmap = bitmap /\ disk'.sb = sb /\ sec' = 1 /\ dirty = {}
  BY <1>2, Types, Idle
<1>4. Place(inodes, data, d, k, s) /\ Target(inodes, data, d, k, s) = i
  <2>1. Searched(d, k) /\ InDir(d, k, s).ino # 0
    BY <1>1 DEF FirstMatch, Holds
  <2>2. inodes[d].blocks[k] # 0
    BY <2>1 DEF Searched, Pointers
  <2> QED BY <1>2, <2>1, <2>2 DEF Place, Target, InDir
<1>5. i \in Inodes \ {Root} /\ inodes[i].type # "FREE"
  BY <1>4, Targets
<1>6. /\ Apart(inodes, inodes) /\ Within(inodes, bitmap)
      /\ \A c \in bitmap : c # 0 => \E j \in Inodes, l \in Pointers : inodes[j].blocks[l] = c
      /\ \A j \in Inodes, l \in Pointers : inodes[j].blocks[l] # 0 =>
             inodes[j].blocks[l] \in bitmap /\ inodes[j].blocks[l] \in Blocks
  BY <1>3 DEF Running, Marks, Within
<1>7. b \in Blocks /\ b # 0
  BY <1>3, <1>4, <1>6 DEF Place, Within
<1>8. /\ bitmap' = bitmap \ held
      /\ sb' = [freeBlocks |-> sb.freeBlocks + Cardinality(held), freeInodes |-> sb.freeInodes + 1]
      /\ inodes' = [inodes EXCEPT ![i] = FreeInode]
      /\ dirty' = {"inodes", "sb"} \cup (IF held = {} THEN {} ELSE {"bitmap"})
      /\ op' = Op("unlink", i, {})
      /\ promised' \subseteq promised
      /\ data' = [data EXCEPT ![b] = WithoutEntry(@, s)]
  BY <1>1, <1>3 DEF FreeBlocksAfter, Cleared, FlagsSet
<1>9. op'.name = "unlink" /\ op'.ino = i /\ op'.grabbed = {} /\ op'.left = 0
  BY <1>8 DEF Op
<1>10. \A c : c \in held <=> c # 0 /\ \E l \in Pointers : inodes[i].blocks[l] = c
  BY DEF Held
<1> HIDE DEF i, b, held
<1>11. /\ inodes' \in [Inodes -> InodeRecord] /\ inodes'[i] = FreeInode
       /\ \A j \in Inodes \ {i} : inodes'[j] = inodes[j]
       /\ \A l \in Pointers : inodes'[i].blocks[l] = 0
       /\ inodes'[i].type = "FREE"
  BY <1>3, <1>5, <1>8, FreshFields
<1>12. /\ data' \in [Blocks -> BlockSet]
       /\ \A c \in Blocks : data'[c].owner = data[c].owner
       /\ \A c \in Blocks, t \in Slots :
             IF c = b /\ t = s THEN data'[c].ents[t].ino = 0 ELSE data'[c].ents[t] = data[c].ents[t]
  <2>1. data[b] \in BlockSet
    BY <1>3, <1>7
  <2>2. data[b] = [ents |-> data[b].ents, owner |-> data[b].owner]
        /\ data[b].ents \in [Slots -> Entry] /\ data[b].owner \in Inodes \cup {0}
    BY <2>1 DEF BlockSet
  <2>3. NoEntry \in Entry /\ NoEntry.ino = 0
    BY DEF NoEntry, Entry
  <2> DEFINE ents == [data[b].ents EXCEPT ![s] = NoEntry]
  <2>4. /\ ents \in [Slots -> Entry]
        /\ \A t \in Slots : ents[t] = IF t = s THEN NoEntry ELSE data[b].ents[t]
    BY <2>2, <2>3
  <2>5. WithoutEntry(data[b], s) = [ents |-> ents, owner |-> data[b].owner]
    BY <2>2 DEF WithoutEntry
  <2> HIDE DEF ents
  <2>6. WithoutEntry(data[b], s) \in BlockSet
    BY <2>2, <2>4, <2>5 DEF BlockSet
  <2>7. data' \in [Blocks -> BlockSet] /\ data'[b] = [ents |-> ents, owner |-> data[b].owner]
        /\ \A c \in Blocks \ {b} : data'[c] = data[c]
    BY <1>3, <1>7, <1>8, <2>5, <2>6
  <2> QED BY <1>7, <2>3, <2>4, <2>7
<1>13. \A j \in Inodes, l \in Pointers : inodes'[j].blocks[l] # 0 =>
           j # i /\ inodes'[j] = inodes[j] /\ inodes[j].blocks[l] \in bitmap \ held
  <2>1. TAKE j \in Inodes, l \in Pointers
  <2>2. HAVE inodes'[j].blocks[l] # 0
  <2>3. j # i /\ inodes'[j] = inodes[j]
    BY <1>11, <2>2
  <2>4. inodes[j].blocks[l] # 0 /\ inodes[j].blocks[l] \in bitmap
    BY <1>6, <2>2, <2>3
  <2>5. inodes[j].blocks[l] \notin held
    BY <1>5, <1>6, <1>10, <2>3, <2>4 DEF Apart
  <2> QED BY <2>3, <2>4, <2>5
<1>14. /\ Apart(inodes', inodes') /\ Apart(inodes, inodes') /\ Within(inodes', bitmap \ held)
       /\ Within(inodes', bitmap)
  BY <1>6, <1>13 DEF Apart, Within
<1>15. Marks'
  <2>1. ASSUME NEW c \in bitmap', c # 0
        PROVE  \E j \in Inodes, l \in Pointers : inodes'[j].blocks[l] = c
    <3>1. c \in bitmap /\ c \notin held
      BY <1>8, <2>1
    <3>2. PICK j \in Inodes, l \in Pointers : inodes[j].blocks[l] = c
      BY <1>6, <2>1, <3>1
    <3>3. j # i
      BY <1>10, <2>1, <3>1, <3>2
    <3> QED BY <1>11, <3>2, <3>3
  <2> QED BY <1>8, <1>14, <2>1 DEF Marks
<1> DEFINE Free == {j \in Inodes : inodes[j].type = "FREE"}
<1>16. {j \in Inodes : inodes'[j].type = "FREE"} = Free \cup {i}
  BY <1>5, <1>11
<1>17. /\ Free \subseteq Inodes /\ i \notin Free /\ Free \cup {i} \subseteq Inodes \ {Root}
       /\ sb.freeInodes = Cardinality(Free) + 1 /\ sb.freeBlocks = NBlocks - Cardinality(bitmap)
  BY <1>5 DEF Running, Counts, Entries
<1> HIDE DEF Free
<1>18. sb.freeInodes + 1 = Cardinality(Free \cup {i}) + 1
  BY <1>17, Finite, OneMoreCounted
<1>19. sb.freeBlocks + Cardinality(held) = NBlocks - Cardinality(bitmap \ held)
  <2>1. held \subseteq bitmap
    BY <1>5, <1>6, <1>10 DEF Within
  <2>2. IsFiniteSet(bitmap) /\ bitmap \cap held = held
    BY <1>3, <2>1, Finite, FS_Subset
  <2>3. /\ Cardinality(bitmap \ held) = Cardinality(bitmap) - Cardinality(bitmap \cap held)
        /\ IsFiniteSet(held)
    BY <2>1, <2>2, FS_Difference, FS_Subset
  <2>4. Cardinality(bitmap) \in Nat /\ Cardinality(held) \in Nat
    BY <2>2, <2>3, FS_CardinalityType
  <2>5. Cardinality(bitmap \ held) = Cardinality(bitmap) - Cardinality(held)
    BY <2>2, <2>3
  <2>6. NBlocks \in Nat /\ sb.freeBlocks = NBlocks - Cardinality(bitmap)
    BY <1>17, Sizes
  <2> DEFINE m == Cardinality(bitmap)
             n == Cardinality(held)
             r == Cardinality(bitmap \ held)
  <2>7. m \in Nat /\ n \in Nat /\ r = m - n /\ sb.freeBlocks = NBlocks - m
    BY <2>4, <2>5, <2>6
  <2> HIDE DEF m, n, r
  <2>8. sb.freeBlocks + n = NBlocks - r
    BY <2>6, <2>7
  <2> QED BY <2>8 DEF n, r
<1>20. /\ sb'.freeBlocks = NBlocks - Cardinality(bitmap')
       /\ sb'.freeInodes = Cardinality(Free \cup {i}) + 1
       /\ sb' = [freeBlocks |-> NBlocks - Cardinality(bitmap'),
                 freeInodes |-> Cardinality(Free \cup {i}) + 1]
  BY <1>8, <1>18, <1>19
<1>21. Counts'
  BY <1>16, <1>20 DEF Counts
<1>22. sb' \in SbRecord
  <2>1. bitmap' \subseteq Blocks
    BY <1>3, <1>8
  <2> QED BY <1>17, <1>20, <2>1, CountsInRange
<1>23. /\ EntriesOf(inodes', data', inodes, data) /\ EntriesOf(inodes, data', inodes, data)
       /\ \A j \in Inodes, l \in Pointers, t \in Slots :
             Place(inodes', data', j, l, t) => Target(inodes', data', j, l, t) # i
  <2>1. ASSUME NEW f, f = inodes \/ f = inodes', NEW j \in Inodes, NEW l \in Pointers, NEW t \in Slots,
               Place(f, data', j, l, t)
        PROVE  /\ Place(inodes, data, j, l, t)
               /\ Target(f, data', j, l, t) = Target(inodes, data, j, l, t)
               /\ ~ (j = d /\ l = k /\ t = s)
    <3>1. f[j] = inodes[j] /\ f[j].blocks[l] # 0
      BY <1>11, <2>1 DEF Place
    <3>2. inodes[j].blocks[l] \in Blocks
      BY <1>6, <3>1
    <3>3. ~ (inodes[j].blocks[l] = b /\ t = s)
      BY <1>12, <2>1, <3>1, <3>2 DEF Place
    <3> QED BY <1>12, <2>1, <3>1, <3>2, <3>3 DEF Place, Target, b
  <2>2. ASSUME NEW j \in Inodes, NEW l \in Pointers, NEW t \in Slots, Place(inodes', data', j, l, t)
        PROVE  Target(inodes', data', j, l, t) # i
    <3>1. Distinct(inodes, data)
      BY DEF Running, Entries, Distinct
    <3> QED BY <1>4, <2>1, <2>2, <3>1 DEF Distinct
  <2> QED BY <2>1, <2>2 DEF EntriesOf
<1>24. \A j \in Inodes, l \in Pointers, t \in Slots : Place(inodes, data, j, l, t) =>
           /\ Target(inodes, data, j, l, t) \in Inodes
           /\ inodes[Target(inodes, data, j, l, t)].type # "FREE"
  BY Targets
<1>25. AllLive(inodes, inodes', data', i) /\ AllLive(inodes', inodes, data', i)
  BY <1>11, <1>23, <1>24 DEF AllLive, EntriesOf
<1>26. Live(inodes', data')
  BY <1>11, <1>23, <1>24 DEF Live, EntriesOf
<1>27. Distinct(inodes', data')
  <2>1. Distinct(inodes, data)
    BY DEF Running, Entries, Distinct
  <2> QED BY <1>23, <2>1 DEF Distinct, EntriesOf
<1>28. Entries'
  <2>1. \A c \in Blocks, t \in Slots : data'[c].ents[t].ino # Root
    BY <1>12, Sizes DEF Running, Entries
  <2>2. \A j \in Inodes : inodes'[j].type = "FREE" => \A l \in Pointers : inodes'[j].blocks[l] = 0
    BY <1>11 DEF Running, Entries
  <2>3. inodes'[Root].type = "DIR" /\ disk'.inodes[Root].type = "DIR"
    BY <1>3, <1>5, <1>11, Sizes DEF Running, Entries
  <2> QED BY <1>26, <1>27, <2>1, <2>2, <2>3 DEF Entries, Live, Distinct, Place, Target
<1>29. ZeroTaken'
  <2>1. 0 \notin held
    BY <1>10
  <2> QED BY <1>8, <1>11, <2>1 DEF Running, ZeroTaken
<1>30. Files'
  <2>1. SUFFICES ASSUME NEW j \in Inodes, inodes'[j].type = "FILE",
                        NEW n \in 0 .. inodes'[j].size - 1
                 PROVE  Stored(j, n)'
    BY DEF Files
  <2>2. j # i /\ inodes'[j] = inodes[j]
    BY <1>11, <2>1
  <2>3. Stored(j, n) /\ n \div PerBlock \in Pointers
    BY <1>3, <2>1, <2>2, ChunkPointer DEF Running, Files
  <2>4. inodes[j].blocks[n \div PerBlock] \in Blocks
    BY <1>6, <2>3 DEF Stored
  <2> QED BY <1>12, <2>2, <2>3, <2>4 DEF Stored
<1>31. Writing' /\ Syncing'
  BY <1>2, <1>3, <1>8, Sizes DEF Writing, Syncing
<1>32. CutSafe'
  BY <1>3, <1>6, <1>9, <1>14, <1>25 DEF CutSafe, Within
<1>33. TypeOK'
  <2>1. op'.ino \in Inodes \cup {0} /\ op'.grabbed \subseteq Blocks /\ op'.left \in Nat
    BY <1>5, <1>9
  <2> QED BY <1>2, <1>3, <1>8, <1>11, <1>12, <1>22, <2>1 DEF TypeOK, BlockSet
<1> QED BY <1>15, <1>21, <1>28, <1>29, <1>30, <1>31, <1>32, <1>33 DEF Running

---------------------------------------------------------------------------
(* bfs_write.                                                              *)

(* The chunks of one turn are in one block.                                *)
LEMMA TurnChunks ==
    ASSUME NEW p \in Nat, NEW left \in Nat \ {0}, p \div PerBlock \in Pointers
    PROVE  LET step == Lesser(left, PerBlock - (p % PerBlock))
           IN  /\ step \in Nat \ {0} /\ step <= left
               /\ p + step <= Ptrs * PerBlock
               /\ \A n \in p .. p + step - 1 : n \div PerBlock = p \div PerBlock
<1> DEFINE q == p \div PerBlock
           r == p % PerBlock
           step == Lesser(left, PerBlock - r)
           first == PerBlock * q
<1>1. q \in Nat /\ p = first + r /\ r \in 0 .. PerBlock - 1
  BY ChunkBlock
<1>2. q < Ptrs
  BY Sizes DEF Pointers
<1>3. first \in Nat
  <2> HIDE DEF q
  <2> QED BY <1>1, Sizes
<1>4. first + PerBlock <= Ptrs * PerBlock
  <2> HIDE DEF q
  <2>1. PerBlock * (q + 1) <= PerBlock * Ptrs
    BY <1>1, <1>2, Sizes
  <2> QED BY <1>1, <2>1, Sizes
<1> DEFINE all == Ptrs * PerBlock
<1>5. all \in Nat
  BY Sizes
<1>6. step = IF left < PerBlock - r THEN left ELSE PerBlock - r
  BY DEF Lesser
<1> HIDE DEF q, r, step, all
<1>7. step \in Nat \ {0} /\ step <= left /\ step <= PerBlock - r
  BY <1>1, <1>6, Sizes
<1>8. p + step <= all
  <2> HIDE DEF first
  <2> QED BY <1>1, <1>3, <1>4, <1>5, <1>7, Sizes DEF all
<1>9. ASSUME NEW n \in p .. p + step - 1 PROVE n \div PerBlock = q
  <2>1. n \in Nat /\ first <= n /\ n < first + PerBlock
    <3> HIDE DEF first
    <3> QED BY <1>1, <1>3, <1>7, <1>9, Sizes
  <2> QED BY <1>1, <2>1, ChunkInBlock
<1> QED BY <1>7, <1>8, <1>9 DEF q, r, step, all

(* A turn that writes block b at pointer q of inode i, a new one if grabbed*)
(* is not empty.                                                           *)
Turn(i, q, b, grabbed) ==
    /\ grabbed \subseteq {b} /\ grabbed \cap bitmap = {}
    /\ inodes' \in [Inodes -> InodeRecord] /\ inodes'[i].blocks[q] = b
    /\ \A j \in Inodes : inodes'[j].type = inodes[j].type /\ inodes'[j].size = inodes[j].size
    /\ \A j \in Inodes \ {i} : inodes'[j] = inodes[j]
    /\ \A l \in Pointers \ {q} : inodes'[i].blocks[l] = inodes[i].blocks[l]
    /\ IF grabbed = {} THEN inodes' = inodes /\ sb' = sb /\ dirty' = dirty
       ELSE /\ inodes[i].blocks[q] = 0
            /\ sb' = [freeBlocks |-> sb.freeBlocks - 1, freeInodes |-> sb.freeInodes]
            /\ dirty' = dirty \cup {"bitmap", "sb"}
    /\ bitmap' = bitmap \cup grabbed
    /\ data' \in [Blocks -> BlockSet] /\ data'[b].owner = i
    /\ \A c \in Blocks \ {b} : data'[c] = data[c]
    /\ \A s \in Slots : \/ data'[b].ents[s] = data[b].ents[s] /\ grabbed = {}
                        \/ data'[b].ents[s].ino = 0
    /\ op' = [name |-> "write", ino |-> i, grabbed |-> op.grabbed \cup grabbed,
              off |-> op.off, len |-> op.len, left |-> op.left - InThisBlock]
    /\ UNCHANGED <<disk, pc, sec, promised>>

LEMMA WriteOp ==
    ASSUME op = [name |-> "write", ino |-> op.ino, grabbed |-> op.grabbed,
                 off |-> op.off, len |-> op.len, left |-> op.left],
           NEW left, NEW grabbed
    PROVE  [op EXCEPT !.left = left, !.grabbed = grabbed]
               = [name |-> "write", ino |-> op.ino, grabbed |-> grabbed,
                  off |-> op.off, len |-> op.len, left |-> left]
<1>1. [op EXCEPT !.left = left]
          = [name |-> "write", ino |-> op.ino, grabbed |-> op.grabbed,
             off |-> op.off, len |-> op.len, left |-> left]
  OBVIOUS
<1>2. [op EXCEPT !.left = left, !.grabbed = grabbed]
          = [[op EXCEPT !.left = left] EXCEPT !.grabbed = grabbed]
  OBVIOUS
<1>3. [[name |-> "write", ino |-> op.ino, grabbed |-> op.grabbed,
        off |-> op.off, len |-> op.len, left |-> left] EXCEPT !.grabbed = grabbed]
          = [name |-> "write", ino |-> op.ino, grabbed |-> grabbed,
             off |-> op.off, len |-> op.len, left |-> left]
  OBVIOUS
<1> QED BY <1>1, <1>2, <1>3

LEMMA WriteTurnIs ==
    ASSUME TypeOK, Running, WriteTurn
    PROVE  \E b \in Blocks \ {0}, grabbed \in SUBSET Blocks : Turn(op.ino, Pointer, b, grabbed)
<1> DEFINE i == op.ino
           q == Pointer
           old == inodes[i].blocks[q]
<1>1. pc = "write" /\ GoesOn /\ UNCHANGED <<disk, pc, sec, promised>>
  BY DEF WriteTurn
<1>2. q \in Pointers
  BY <1>1 DEF GoesOn
<1>3. /\ i \in Inodes /\ inodes[i].type = "FILE"
      /\ op = [name |-> "write", ino |-> op.ino, grabbed |-> op.grabbed,
               off |-> op.off, len |-> op.len, left |-> op.left]
  BY <1>1 DEF Running, Writing
<1>4. /\ inodes \in [Inodes -> InodeRecord] /\ data \in [Blocks -> BlockSet]
      /\ bitmap \subseteq Blocks /\ sb \in SbRecord
  BY Types
<1>5. /\ inodes[i] = [type |-> inodes[i].type, size |-> inodes[i].size, blocks |-> inodes[i].blocks]
      /\ inodes[i].type \in {"FREE", "FILE", "DIR"} /\ inodes[i].size \in 0 .. Ptrs * PerBlock
      /\ inodes[i].blocks \in [Pointers -> Blocks \cup {0}]
  BY <1>3, <1>4, NodeFields
<1> HIDE DEF i, q
<1>6. CASE /\ old # 0
           /\ data' = [data EXCEPT ![old].owner = op.ino]
           /\ op' = [op EXCEPT !.left = @ - InThisBlock]
           /\ UNCHANGED memory
  <2>1. old \in Blocks \ {0}
    BY <1>2, <1>5, <1>6
  <2> DEFINE blk == [data[old] EXCEPT !.owner = i]
  <2>2. blk \in BlockSet /\ blk.owner = i /\ blk.ents = data[old].ents
    <3>1. data[old] \in BlockSet /\ i \in Inodes \cup {0}
      BY <1>3, <1>4, <2>1
    <3> QED BY <3>1 DEF BlockSet
  <2>3. data' = [data EXCEPT ![old] = blk]
    BY <1>6 DEF i
  <2> HIDE DEF blk
  <2>4. /\ data' \in [Blocks -> BlockSet] /\ data'[old].owner = i
        /\ \A c \in Blocks \ {old} : data'[c] = data[c]
        /\ data'[old].ents = data[old].ents
    BY <1>4, <2>1, <2>2, <2>3
  <2>5. op' = [name |-> "write", ino |-> i, grabbed |-> op.grabbed \cup {},
               off |-> op.off, len |-> op.len, left |-> op.left - InThisBlock]
    BY <1>3, <1>6 DEF i
  <2>6. Turn(i, q, old, {})
    BY <1>1, <1>4, <1>6, <2>4, <2>5 DEF Turn, memory
  <2> QED BY <2>1, <2>6 DEF i, q
<1>7. ASSUME NEW b \in Blocks, old = 0,
             FirstClear(b),
             bitmap' = Marked(b),
             sb' = [sb EXCEPT !.freeBlocks = @ - 1],
             inodes' = [inodes EXCEPT ![op.ino].blocks[Pointer] = b],
             data' = [data EXCEPT ![b] = [Zeroed EXCEPT !.owner = op.ino]],
             op' = [op EXCEPT !.left = @ - InThisBlock, !.grabbed = @ \cup {b}],
             dirty' = dirty \cup {"bitmap", "sb"}
      PROVE  \E c \in Blocks \ {0}, grabbed \in SUBSET Blocks : Turn(op.ino, Pointer, c, grabbed)
  <2>1. b \notin bitmap /\ bitmap' = bitmap \cup {b}
    BY <1>7 DEF FirstClear, Marked
  <2>2. b # 0
    BY <1>3, <2>1 DEF Running, ZeroTaken
  <2> DEFINE node == [inodes[i] EXCEPT !.blocks[q] = b]
             blocks == [inodes[i].blocks EXCEPT ![q] = b]
  <2>3. blocks \in [Pointers -> Blocks \cup {0}] /\ blocks[q] = b
        /\ \A l \in Pointers \ {q} : blocks[l] = inodes[i].blocks[l]
    BY <1>2, <1>5
  <2>4. inodes' = [inodes EXCEPT ![i] = node]
    BY <1>7 DEF i, q
  <2>5. /\ node \in InodeRecord /\ node.type = inodes[i].type /\ node.size = inodes[i].size
        /\ node.blocks = blocks
    <3>1. node = [type |-> inodes[i].type, size |-> inodes[i].size, blocks |-> blocks]
      BY <1>5
    <3> HIDE DEF blocks, node
    <3> QED BY <1>5, <2>3, <3>1 DEF InodeRecord
  <2> HIDE DEF blocks, node
  <2>6. /\ inodes' \in [Inodes -> InodeRecord] /\ inodes'[i] = node
        /\ \A j \in Inodes \ {i} : inodes'[j] = inodes[j]
    BY <1>3, <1>4, <2>4, <2>5
  <2>7. /\ \A j \in Inodes : inodes'[j].type = inodes[j].type /\ inodes'[j].size = inodes[j].size
        /\ inodes'[i].blocks[q] = b
        /\ \A l \in Pointers \ {q} : inodes'[i].blocks[l] = inodes[i].blocks[l]
    BY <2>3, <2>5, <2>6
  <2>8. /\ [Zeroed EXCEPT !.owner = i] \in BlockSet /\ [Zeroed EXCEPT !.owner = i].owner = i
        /\ \A s \in Slots : [Zeroed EXCEPT !.owner = i].ents[s].ino = 0
    BY <1>3, ZeroedFields DEF BlockSet
  <2>9. /\ data' \in [Blocks -> BlockSet] /\ data'[b].owner = i
        /\ \A c \in Blocks \ {b} : data'[c] = data[c]
        /\ \A s \in Slots : data'[b].ents[s].ino = 0
    BY <1>4, <1>7, <2>8 DEF i
  <2>10. op' = [name |-> "write", ino |-> i, grabbed |-> op.grabbed \cup {b},
                off |-> op.off, len |-> op.len, left |-> op.left - InThisBlock]
    BY <1>3, <1>7, WriteOp DEF i
  <2>11. sb' = [freeBlocks |-> sb.freeBlocks - 1, freeInodes |-> sb.freeInodes]
    BY <1>4, <1>7 DEF SbRecord
  <2>12. Turn(i, q, b, {b})
    <3>1. /\ {b} \subseteq {b} /\ {b} \cap bitmap = {} /\ {b} # {}
          /\ inodes[i].blocks[q] = 0
          /\ dirty' = dirty \cup {"bitmap", "sb"}
          /\ bitmap' = bitmap \cup {b}
      BY <1>7, <2>1 DEF i, q
    <3> QED BY <1>1, <2>6, <2>7, <2>9, <2>10, <2>11, <3>1 DEF Turn
  <2> QED BY <2>2, <2>12 DEF i, q
<1> QED BY <1>6, <1>7 DEF WriteTurn, i, q

LEMMA TurnKeeps ==
    ASSUME TypeOK, Running, pc = "write", GoesOn,
           NEW b \in Blocks \ {0}, NEW grabbed \in SUBSET Blocks,
           Turn(op.ino, Pointer, b, grabbed)
    PROVE  TypeOK' /\ Running'
<1>0. PICK i : i = op.ino
  OBVIOUS
<1> DEFINE q == Pointer
           p == Position
           step == InThisBlock
<1>1. /\ i \in Inodes /\ inodes[i].type = "FILE"
      /\ op.left \in Nat /\ op.len \in Nat /\ op.off \in Nat /\ op.left <= op.len
      /\ \A n \in 0 .. p - 1 : Stored(i, n)
      /\ "inodes" \notin dirty /\ Within(disk.inodes, bitmap)
      /\ disk.inodes = inodes \/ p > inodes[i].size
      /\ p <= Ptrs * PerBlock
  BY <1>0 DEF Running, Writing
<1>2. p \in Nat /\ op.left \in Nat \ {0} /\ q = p \div PerBlock /\ q \in Pointers
  BY <1>1 DEF Position, GoesOn, Pointer
<1>3. /\ step \in Nat \ {0} /\ step <= op.left /\ p + step <= Ptrs * PerBlock
      /\ \A n \in p .. p + step - 1 : n \div PerBlock = q
  BY <1>2, TurnChunks DEF InThisBlock
<1>4. Position' = p + step /\ op.left - step \in Nat /\ op.left - step <= op.len
  <2>1. op'.off = op.off /\ op'.len = op.len /\ op'.left = op.left - step
    BY DEF Turn
  <2> HIDE DEF step
  <2> QED BY <1>1, <1>3, <2>1 DEF Position
<1> HIDE DEF q, p, step
<1>5. Turn(i, q, b, grabbed)
  BY <1>0 DEF q
<1>6. /\ grabbed = {} \/ grabbed = {b}
      /\ grabbed \cap bitmap = {} /\ bitmap' = bitmap \cup grabbed
      /\ inodes' \in [Inodes -> InodeRecord] /\ inodes'[i].blocks[q] = b
      /\ \A j \in Inodes : inodes'[j].type = inodes[j].type /\ inodes'[j].size = inodes[j].size
      /\ \A j \in Inodes \ {i} : inodes'[j] = inodes[j]
      /\ \A l \in Pointers \ {q} : inodes'[i].blocks[l] = inodes[i].blocks[l]
      /\ UNCHANGED <<disk, pc, sec, promised>>
  BY <1>5 DEF Turn
<1>7. /\ grabbed = {} => inodes' = inodes /\ sb' = sb /\ dirty' = dirty
      /\ grabbed # {} =>
            /\ inodes[i].blocks[q] = 0
            /\ sb' = [freeBlocks |-> sb.freeBlocks - 1, freeInodes |-> sb.freeInodes]
            /\ dirty' = dirty \cup {"bitmap", "sb"}
  BY <1>5 DEF Turn
<1>8. /\ data' \in [Blocks -> BlockSet] /\ data'[b].owner = i
      /\ \A c \in Blocks \ {b} : data'[c] = data[c]
      /\ \A s \in Slots : \/ data'[b].ents[s] = data[b].ents[s] /\ grabbed = {}
                          \/ data'[b].ents[s].ino = 0
  BY <1>5 DEF Turn
<1>9. /\ op' = [name |-> "write", ino |-> i, grabbed |-> op.grabbed \cup grabbed,
                off |-> op.off, len |-> op.len, left |-> op.left - step]
      /\ op'.name = "write" /\ op'.ino = i /\ op'.grabbed = op.grabbed \cup grabbed
      /\ op'.off = op.off /\ op'.len = op.len /\ op'.left = op.left - step
  BY <1>5 DEF Turn, step
<1>10. /\ op.name = "write" /\ bitmap \subseteq Blocks /\ op.grabbed \subseteq Blocks
       /\ inodes \in [Inodes -> InodeRecord] /\ sb \in SbRecord
  BY Types DEF Running, Writing, TypeOK
<1>11. /\ Apart(inodes, inodes) /\ Within(inodes, bitmap)
       /\ \A c \in bitmap : c # 0 => \E j \in Inodes, l \in Pointers : inodes[j].blocks[l] = c
  BY DEF Running, Marks
<1>12. \A j \in Inodes, l \in Pointers :
           IF j = i /\ l = q THEN inodes'[j].blocks[l] = b
           ELSE inodes'[j].blocks[l] = inodes[j].blocks[l]
  BY <1>6
(* Nobody else has block b.                                                *)
<1>13. \A j \in Inodes, l \in Pointers : inodes'[j].blocks[l] = b => j = i /\ l = q
  <2>1. CASE grabbed = {}
    <3>1. inodes[i].blocks[q] = b /\ b # 0
      BY <1>6, <1>7, <2>1
    <3> QED BY <1>1, <1>2, <1>11, <1>12, <3>1 DEF Apart
  <2>2. CASE grabbed = {b}
    BY <1>6, <1>11, <1>12, <2>2 DEF Within
  <2> QED BY <1>6, <2>1, <2>2
<1>14. Apart(inodes', inodes')
  BY <1>11, <1>12, <1>13 DEF Apart
<1>15. \A B : Within(inodes, B) /\ grabbed \subseteq B => Within(inodes', B)
  BY <1>6, <1>7, <1>12 DEF Within
<1>16. Marks'
  <2>1. Within(inodes', bitmap')
    BY <1>6, <1>11, <1>15 DEF Within
  <2>2. ASSUME NEW c \in bitmap', c # 0
        PROVE  \E j \in Inodes, l \in Pointers : inodes'[j].blocks[l] = c
    <3>1. CASE c = b
      BY <1>1, <1>2, <1>6, <3>1
    <3>2. CASE c # b
      <4>1. PICK j \in Inodes, l \in Pointers : inodes[j].blocks[l] = c
        BY <1>6, <1>11, <2>2, <3>2
      <4>2. ~ (j = i /\ l = q)
        BY <1>6, <1>7, <2>2, <3>2, <4>1
      <4> QED BY <1>12, <4>1, <4>2
    <3> QED BY <3>1, <3>2
  <2> QED BY <1>14, <2>1, <2>2 DEF Marks
<1> DEFINE Free == {j \in Inodes : inodes[j].type = "FREE"}
<1>17. {j \in Inodes : inodes'[j].type = "FREE"} = Free
  BY <1>6
<1>18. /\ Free \subseteq Inodes \ {Root}
       /\ sb.freeInodes = Cardinality(Free) + 1 /\ sb.freeBlocks = NBlocks - Cardinality(bitmap)
  BY DEF Running, Counts, Entries
<1> HIDE DEF Free
<1>19. /\ sb'.freeBlocks = NBlocks - Cardinality(bitmap') /\ sb'.freeInodes = Cardinality(Free) + 1
       /\ sb' = [freeBlocks |-> NBlocks - Cardinality(bitmap'), freeInodes |-> Cardinality(Free) + 1]
  <2>1. CASE grabbed = {}
    <3>1. sb' = sb /\ bitmap' = bitmap
      BY <1>6, <1>7, <2>1
    <3>2. sb = [freeBlocks |-> sb.freeBlocks, freeInodes |-> sb.freeInodes]
      BY <1>10 DEF SbRecord
    <3> QED BY <1>18, <3>1, <3>2
  <2>2. CASE grabbed = {b}
    <3>1. b \notin bitmap /\ bitmap' = bitmap \cup {b}
      BY <1>6, <2>2
    <3>2. Cardinality(bitmap \cup {b}) = Cardinality(bitmap) + 1 /\ Cardinality(bitmap) \in Nat
      BY <1>10, <3>1, Finite, OneMoreCounted
    <3>3. sb.freeBlocks - 1 = NBlocks - Cardinality(bitmap')
      BY <1>18, <3>1, <3>2, Sizes
    <3>4. sb' = [freeBlocks |-> sb.freeBlocks - 1, freeInodes |-> sb.freeInodes]
      BY <1>7, <2>2
    <3> QED BY <1>18, <3>3, <3>4
  <2> QED BY <1>6, <2>1, <2>2
<1>20. Counts'
  BY <1>17, <1>19 DEF Counts
<1>21. sb' \in SbRecord /\ bitmap' \subseteq Blocks
  <2>1. bitmap' \subseteq Blocks
    BY <1>6, <1>10
  <2> QED BY <1>18, <1>19, <2>1, CountsInRange
(* Entries: block b has none, or those it had.                             *)
<1>22. \A c \in Blocks, s \in Slots :
           data'[c].ents[s] = data[c].ents[s] \/ data'[c].ents[s].ino = 0
  BY <1>8
<1>23. \A f \in [Inodes -> InodeRecord] : EntriesOf(f, data', f, data)
  <2>1. SUFFICES ASSUME NEW f \in [Inodes -> InodeRecord], NEW j \in Inodes, NEW l \in Pointers,
                        NEW t \in Slots, Place(f, data', j, l, t)
                 PROVE  Place(f, data, j, l, t) /\ Target(f, data', j, l, t) = Target(f, data, j, l, t)
    BY DEF EntriesOf
  <2>2. f[j].blocks[l] \in Blocks
    BY <2>1, NodeFields DEF Place
  <2> QED BY <1>22, <2>1, <2>2 DEF Place, Target
<1>24. \A j \in Inodes, l \in Pointers, t \in Slots : Place(inodes', data', j, l, t) =>
           /\ Place(inodes, data', j, l, t)
           /\ Target(inodes', data', j, l, t) = Target(inodes, data', j, l, t)
  BY <1>1, <1>6 DEF Place, Target
<1>25. EntriesOf(inodes', data', inodes, data) /\ EntriesOf(disk.inodes, data', disk.inodes, data)
  <2>1. EntriesOf(inodes, data', inodes, data) /\ EntriesOf(disk.inodes, data', disk.inodes, data)
    BY <1>23, Types
  <2> QED BY <1>24, <2>1 DEF EntriesOf
<1>26. \A j \in Inodes, l \in Pointers, t \in Slots : Place(inodes, data, j, l, t) =>
           /\ Target(inodes, data, j, l, t) \in Inodes
           /\ inodes[Target(inodes, data, j, l, t)].type # "FREE"
  BY Targets
<1>27. Live(inodes', data')
  BY <1>6, <1>25, <1>26 DEF Live, EntriesOf
<1>28. Distinct(inodes', data')
  <2>1. Distinct(inodes, data)
    BY DEF Running, Entries, Distinct
  <2> QED BY <1>25, <2>1 DEF Distinct, EntriesOf
<1>29. Entries'
  <2>1. \A c \in Blocks, t \in Slots : data'[c].ents[t].ino # Root
    BY <1>22, Sizes DEF Running, Entries
  <2>2. \A j \in Inodes : inodes'[j].type = "FREE" => \A l \in Pointers : inodes'[j].blocks[l] = 0
    BY <1>1, <1>6 DEF Running, Entries
  <2>3. inodes'[Root].type = "DIR" /\ disk'.inodes[Root].type = "DIR"
    BY <1>6, Sizes DEF Running, Entries
  <2> QED BY <1>27, <1>28, <2>1, <2>2, <2>3 DEF Entries, Live, Distinct, Place, Target
<1>30. 0 \in bitmap /\ ZeroTaken'
  <2>1. 0 \in bitmap
    BY <1>1 DEF Running, ZeroTaken
  <2> QED BY <1>6, <2>1 DEF ZeroTaken
(* What was stored stays stored.                                           *)
<1>31. ASSUME NEW j \in Inodes, NEW n \in Nat, n \div PerBlock \in Pointers, Stored(j, n)
       PROVE  Stored(j, n)'
  <2> DEFINE l == n \div PerBlock
  <2> HIDE DEF l
  <2>1. inodes[j].blocks[l] # 0 /\ data[inodes[j].blocks[l]].owner = j /\ l \in Pointers
    BY <1>31 DEF Stored, l
  <2>2. inodes[j].blocks[l] \in Blocks
    BY <1>10, <1>11, <2>1 DEF Within
  <2>3. inodes'[j].blocks[l] = inodes[j].blocks[l]
    <3>1. CASE grabbed = {}
      BY <1>7, <3>1
    <3>2. CASE grabbed # {}
      BY <1>7, <1>12, <2>1, <3>2
    <3> QED BY <3>1, <3>2
  <2>4. data'[inodes'[j].blocks[l]].owner = j
    <3>1. CASE inodes[j].blocks[l] = b
      BY <1>8, <1>13, <2>1, <2>3, <3>1
    <3>2. CASE inodes[j].blocks[l] # b
      BY <1>8, <2>1, <2>2, <2>3, <3>2
    <3> QED BY <3>1, <3>2
  <2> QED BY <2>1, <2>3, <2>4 DEF Stored, l
<1>32. Files'
  <2>1. SUFFICES ASSUME NEW j \in Inodes, inodes'[j].type = "FILE",
                        NEW n \in 0 .. inodes'[j].size - 1
                 PROVE  Stored(j, n)'
    BY DEF Files
  <2>2. inodes[j].type = "FILE" /\ n \in 0 .. inodes[j].size - 1
    BY <1>6, <2>1
  <2>3. Stored(j, n) /\ n \in Nat /\ n \div PerBlock \in Pointers
    BY <1>10, <2>2, ChunkPointer DEF Running, Files
  <2> QED BY <1>31, <2>3
<1>33. \A n \in 0 .. p + step - 1 : Stored(i, n)'
  <2>1. TAKE n \in 0 .. p + step - 1
  <2>2. CASE n < p
    <3>1. n \in Nat /\ n \in 0 .. p - 1
      BY <1>2, <1>3, <2>2
    <3> DEFINE all == Ptrs * PerBlock
    <3>2. p <= all /\ all \in Nat
      BY <1>1, Sizes
    <3> HIDE DEF all
    <3>3. n < all
      BY <1>2, <3>1, <3>2
    <3>4. n \div PerBlock \in Pointers
      BY <3>1, <3>3, ChunkInRange DEF all
    <3> QED BY <1>1, <1>31, <3>1, <3>4
  <2>3. CASE ~ (n < p)
    <3>1. n \in p .. p + step - 1
      BY <1>2, <1>3, <2>3
    <3>2. n \div PerBlock = q
      BY <1>3, <3>1
    <3> QED BY <1>6, <1>8, <3>2 DEF Stored
  <2> QED BY <2>2, <2>3
<1>34. disk.inodes = inodes' \/ p + step > inodes'[i].size
  <2>1. CASE grabbed = {}
    <3>1. inodes' = inodes /\ inodes[i].size \in Nat
      <4>1. inodes[i].size \in 0 .. Ptrs * PerBlock
        BY <1>1, <1>10, NodeFields
      <4> QED BY <1>7, <2>1, <4>1
    <3> QED BY <1>1, <1>2, <1>3, <3>1
  <2>2. CASE grabbed # {}
    <3>1. inodes[i].blocks[q] = 0
      BY <1>7, <2>2
    <3>2. inodes[i].size \in Nat
      <4>1. inodes[i].size \in 0 .. Ptrs * PerBlock
        BY <1>1, <1>10, NodeFields
      <4> QED BY <4>1
    <3>3. ~ (p < inodes[i].size)
      <4>1. SUFFICES ASSUME p < inodes[i].size PROVE FALSE
        OBVIOUS
      <4>2. p \in 0 .. inodes[i].size - 1
        BY <1>2, <3>2, <4>1
      <4>3. Stored(i, p)
        BY <1>1, <4>2 DEF Running, Files
      <4> QED BY <1>2, <3>1, <4>3 DEF Stored
    <3> QED BY <1>1, <1>2, <1>3, <1>6, <3>2, <3>3
  <2> QED BY <2>1, <2>2
<1>35. Writing'
  <2>1. Within(disk.inodes, bitmap')
    BY <1>1, <1>6 DEF Within
  <2>2. "inodes" \notin dirty'
    BY <1>1, <1>6, <1>7
  <2>3. Position' = p + step
    BY <1>4
  <2>4. op' = [name |-> "write", ino |-> op'.ino, grabbed |-> op'.grabbed,
               off |-> op'.off, len |-> op'.len, left |-> op'.left]
    BY <1>9
  <2>5. op'.ino \in Inodes /\ inodes'[op'.ino].type = "FILE"
    BY <1>1, <1>6, <1>9
  <2>6. op'.left \in Nat /\ op'.len \in Nat /\ op'.off \in Nat /\ op'.left <= op'.len
    BY <1>1, <1>4, <1>9
  <2>7. Position' <= Ptrs * PerBlock
    BY <1>3, <2>3
  <2>8. \A n \in 0 .. Position' - 1 : Stored(op.ino, n)'
    <3>1. 0 .. Position' - 1 = 0 .. p + step - 1
      BY <1>2, <1>3, <2>3
    <3>2. ASSUME NEW n, n \in 0 .. Position' - 1 PROVE Stored(op.ino, n)'
      <4>1. Stored(i, n)'
        BY <1>33, <3>1, <3>2
      <4> QED BY <1>9, <4>1 DEF Stored
    <3> QED BY <3>2
  <2>9. disk'.inodes = inodes' \/ Position' > inodes'[op'.ino].size
    BY <1>6, <1>9, <1>34, <2>3
  <2>10. Within(disk'.inodes, bitmap')
    BY <1>6, <2>1
  <2>11. Within(disk.inodes, bitmap)'
    BY <2>10 DEF Within
  <2> QED BY <2>2, <2>4, <2>5, <2>6, <2>7, <2>8, <2>9, <2>11 DEF Writing
<1>36. Syncing'
  <2>1. \A j \in 1 .. sec - 1 : disk.inodes[j] = inodes'[j]
    <3>1. sec \in Nat /\ ~ (sec > 1)
      BY Types, Sizes DEF Running, Syncing
    <3> QED BY <3>1
  <2>2. sec > 1 => FALSE
    BY DEF Running, Syncing
  <2>3. /\ "bitmap" \notin dirty => disk.bitmap = bitmap
        /\ "sb" \notin dirty => disk.sb = sb
    BY DEF Running, Syncing
  <2>4. /\ "bitmap" \notin dirty' => disk.bitmap = bitmap'
        /\ "sb" \notin dirty' => disk.sb = sb'
    BY <1>6, <1>7, <2>3
  <2> QED BY <1>6, <2>1, <2>2, <2>4 DEF Syncing
<1>37. CutSafe'
  <2>1. /\ Apart(disk.inodes, disk.inodes) /\ Apart(disk.inodes, inodes)
        /\ Within(disk.inodes, disk.bitmap \cup op.grabbed)
        /\ Within(inodes, disk.bitmap \cup op.grabbed)
        /\ AllLive(disk.inodes, inodes, data, i) /\ AllLive(inodes, disk.inodes, data, i)
    BY <1>0, <1>10 DEF Running, CutSafe
  <2>2. Apart(disk.inodes, inodes')
    <3>1. CASE grabbed = {}
      BY <1>7, <2>1, <3>1
    <3>2. CASE grabbed = {b}
      <4>1. b \notin bitmap
        BY <1>6, <3>2
      <4> QED BY <1>1, <1>12, <2>1, <4>1 DEF Apart, Within
    <3> QED BY <1>6, <3>1, <3>2
  <2>3. /\ Within(disk.inodes, disk.bitmap \cup op'.grabbed)
        /\ Within(inodes', disk.bitmap \cup op'.grabbed)
    <3>1. /\ Within(disk.inodes, disk.bitmap \cup op'.grabbed)
          /\ Within(inodes, disk.bitmap \cup op'.grabbed)
      BY <1>9, <2>1 DEF Within
    <3> QED BY <1>9, <1>15, <3>1
  <2>4. /\ AllLive(disk.inodes, inodes', data', i) /\ AllLive(inodes', disk.inodes, data', i)
    <3>1. \A j \in Inodes, l \in Pointers, t \in Slots : Place(disk.inodes, data, j, l, t) =>
              Target(disk.inodes, data, j, l, t) \in Inodes
      <4>1. \A c \in Blocks, t \in Slots : data[c].ents[t].ino \in Inodes \cup {0}
        BY Types DEF BlockSet, Entry
      <4>2. \A j \in Inodes, l \in Pointers : disk.inodes[j].blocks[l] \in Blocks \cup {0}
        BY Types, NodeFields
      <4> QED BY <4>1, <4>2 DEF Place, Target
    <3>2. AllLive(disk.inodes, inodes', data', i)
      BY <1>6, <1>25, <2>1, <3>1 DEF AllLive, EntriesOf
    <3>3. AllLive(inodes', disk.inodes, data', i)
      BY <1>6, <1>25, <1>26, <2>1 DEF AllLive, EntriesOf
    <3> QED BY <3>2, <3>3
  <2> QED BY <1>6, <1>9, <2>1, <2>2, <2>3, <2>4 DEF CutSafe
<1>38. TypeOK'
  <2>1. op'.ino \in Inodes \cup {0} /\ op'.grabbed \subseteq Blocks /\ op'.left \in Nat
    BY <1>1, <1>4, <1>9, <1>10
  <2>2. dirty' \subseteq {"inodes", "bitmap", "sb"}
    BY <1>6, <1>7 DEF TypeOK
  <2> QED BY <1>6, <1>8, <1>21, <2>1, <2>2 DEF TypeOK, BlockSet
<1> QED BY <1>16, <1>20, <1>29, <1>30, <1>32, <1>35, <1>36, <1>37, <1>38 DEF Running

LEMMA WriteTurnKeeps == TypeOK /\ Running /\ WriteTurn => TypeOK' /\ Running'
BY WriteTurnIs, TurnKeeps DEF WriteTurn

(* The end of bfs_write: the file grows to the position.                   *)
LEMMA WriteEndKeeps == TypeOK /\ Running /\ WriteEnd => TypeOK' /\ Running'
<1> SUFFICES ASSUME TypeOK, Running, WriteEnd PROVE TypeOK' /\ Running'
  OBVIOUS
<1>0. PICK i : i = op.ino
  OBVIOUS
<1> DEFINE p == Position
<1>1. /\ pc = "write" /\ pc' = "inodes" /\ UNCHANGED <<bitmap, sb, disk, data, sec, op, promised>>
      /\ IF p > inodes[i].size
         THEN inodes' = [inodes EXCEPT ![i].size = p] /\ dirty' = dirty \cup {"inodes"}
         ELSE UNCHANGED <<inodes, dirty>>
  BY <1>0 DEF WriteEnd, Grows
<1>2. /\ i \in Inodes /\ inodes[i].type = "FILE"
      /\ op.left \in Nat /\ op.len \in Nat /\ op.off \in Nat /\ op.left <= op.len
      /\ \A n \in 0 .. p - 1 : Stored(i, n)
      /\ "inodes" \notin dirty /\ Within(disk.inodes, bitmap)
      /\ disk.inodes = inodes \/ p > inodes[i].size
      /\ p <= Ptrs * PerBlock /\ op.name = "write"
  BY <1>0, <1>1 DEF Running, Writing
<1>3. p \in Nat
  BY <1>2 DEF Position
<1>4. inodes \in [Inodes -> InodeRecord]
  BY Types
<1> HIDE DEF p
<1>5. /\ inodes' \in [Inodes -> InodeRecord]
      /\ \A j \in Inodes : inodes'[j].type = inodes[j].type /\ inodes'[j].blocks = inodes[j].blocks
      /\ \A j \in Inodes : inodes'[j].size = inodes[j].size \/ (j = i /\ inodes'[j].size = p)
  <2>1. CASE p > inodes[i].size
    <3> DEFINE node == [inodes[i] EXCEPT !.size = p]
    <3>1. inodes' = [inodes EXCEPT ![i] = node]
      BY <1>1, <2>1
    <3>2. /\ node \in InodeRecord /\ node.type = inodes[i].type /\ node.size = p
          /\ node.blocks = inodes[i].blocks
      <4>1. inodes[i] \in InodeRecord /\ p \in 0 .. Ptrs * PerBlock
        BY <1>2, <1>3, <1>4, Sizes
      <4> QED BY <4>1 DEF InodeRecord
    <3> HIDE DEF node
    <3> QED BY <1>2, <1>4, <3>1, <3>2
  <2>2. CASE ~ (p > inodes[i].size)
    BY <1>1, <1>4, <2>2
  <2> QED BY <2>1, <2>2
<1>6. Marks' /\ Counts' /\ ZeroTaken'
  <2>1. Marks'
    BY <1>1, <1>5 DEF Running, Marks, Apart, Within
  <2>2. {j \in Inodes : inodes'[j].type = "FREE"} = {j \in Inodes : inodes[j].type = "FREE"}
    BY <1>5
  <2>3. Counts'
    BY <1>1, <2>2 DEF Running, Counts
  <2> QED BY <1>1, <1>5, <2>1, <2>3 DEF Running, ZeroTaken
<1>7. \A j \in Inodes, l \in Pointers, t \in Slots :
          /\ Place(inodes', data', j, l, t) <=> Place(inodes, data, j, l, t)
          /\ Target(inodes', data', j, l, t) = Target(inodes, data, j, l, t)
  BY <1>1, <1>5 DEF Place, Target
<1>8. \A j \in Inodes, l \in Pointers, t \in Slots : Place(inodes, data, j, l, t) =>
          /\ Target(inodes, data, j, l, t) \in Inodes
          /\ inodes[Target(inodes, data, j, l, t)].type # "FREE"
  BY Targets
<1>9. Entries'
  <2>1. Live(inodes', data')
    BY <1>5, <1>7, <1>8 DEF Live
  <2>2. Distinct(inodes', data')
    <3>1. Distinct(inodes, data)
      BY DEF Running, Entries, Distinct
    <3> QED BY <1>7, <3>1 DEF Distinct
  <2>3. /\ \A c \in Blocks, t \in Slots : data'[c].ents[t].ino # Root
        /\ inodes'[Root].type = "DIR" /\ disk'.inodes[Root].type = "DIR"
        /\ \A j \in Inodes : inodes'[j].type = "FREE" => \A l \in Pointers : inodes'[j].blocks[l] = 0
    BY <1>1, <1>5, Sizes DEF Running, Entries
  <2> QED BY <2>1, <2>2, <2>3 DEF Entries, Live, Distinct, Place, Target
<1>10. Files'
  <2>1. SUFFICES ASSUME NEW j \in Inodes, inodes'[j].type = "FILE",
                        NEW n \in 0 .. inodes'[j].size - 1
                 PROVE  Stored(j, n)'
    BY DEF Files
  <2>2. Stored(j, n)
    BY <1>2, <1>5, <2>1 DEF Running, Files
  <2> QED BY <1>1, <1>5, <2>2 DEF Stored
<1>11. Writing'
  BY <1>1 DEF Writing
<1>12. Syncing'
  <2>1. ~ (sec > 1) /\ sec \in Nat
    BY <1>1, Types, Sizes DEF Running, Syncing
  <2>2. \A j \in 1 .. sec - 1 : disk.inodes[j] = inodes'[j]
    BY <2>1
  <2>3. "inodes" \notin dirty' => disk.inodes = inodes'
    BY <1>1, <1>2
  <2>4. /\ "bitmap" \notin dirty' => disk.bitmap = bitmap
        /\ "sb" \notin dirty' => disk.sb = sb
    BY <1>1 DEF Running, Syncing
  <2> QED BY <1>1, <2>1, <2>2, <2>3, <2>4 DEF Syncing
<1>13. CutSafe'
  <2>1. /\ Apart(disk.inodes, disk.inodes) /\ Apart(disk.inodes, inodes)
        /\ Within(disk.inodes, disk.bitmap \cup op.grabbed)
        /\ Within(inodes, disk.bitmap \cup op.grabbed)
        /\ AllLive(disk.inodes, inodes, data, i) /\ AllLive(inodes, disk.inodes, data, i)
    BY <1>0, <1>2 DEF Running, CutSafe
  <2>2. Apart(disk.inodes, inodes') /\ Within(inodes', disk.bitmap \cup op.grabbed)
    BY <1>5, <2>1 DEF Apart, Within
  <2>3. AllLive(inodes', disk.inodes, data', i)
    BY <1>5, <1>7, <1>8, <2>1 DEF AllLive
  <2>4. AllLive(disk.inodes, inodes', data', i)
    <3>1. \A j \in Inodes, l \in Pointers, t \in Slots : Place(disk.inodes, data, j, l, t) =>
              Target(disk.inodes, data, j, l, t) \in Inodes
      <4>1. \A c \in Blocks, t \in Slots : data[c].ents[t].ino \in Inodes \cup {0}
        BY Types DEF BlockSet, Entry
      <4>2. \A j \in Inodes, l \in Pointers : disk.inodes[j].blocks[l] \in Blocks \cup {0}
        BY Types, NodeFields
      <4> QED BY <4>1, <4>2 DEF Place, Target
    <3> QED BY <1>1, <1>5, <2>1, <3>1 DEF AllLive
  <2> QED BY <1>0, <1>1, <1>2, <2>1, <2>2, <2>3, <2>4 DEF CutSafe
<1>14. TypeOK'
  <2>1. dirty' \subseteq {"inodes", "bitmap", "sb"}
    BY <1>1 DEF TypeOK
  <2> QED BY <1>1, <1>5, <2>1 DEF TypeOK
<1> QED BY <1>6, <1>9, <1>10, <1>11, <1>12, <1>13, <1>14 DEF Running

---------------------------------------------------------------------------
(* Power cuts.                                                             *)

LEMMA PowerCutKeeps == TypeOK /\ Running /\ PowerCut => TypeOK' /\ Cut' /\ pc' = "remounted"
<1> SUFFICES ASSUME TypeOK, Running, PowerCut PROVE TypeOK' /\ Cut' /\ pc' = "remounted"
  OBVIOUS
<1>1. /\ inodes' = disk.inodes /\ bitmap' = disk.bitmap /\ sb' = disk.sb /\ dirty' = {}
      /\ pc' = "remounted" /\ sec' = 1 /\ UNCHANGED <<disk, data, op, promised>>
  BY DEF PowerCut
<1>2. TypeOK'
  BY <1>1, Types, Sizes DEF TypeOK
<1>3. /\ Apart(inodes', inodes') /\ Within(inodes', bitmap' \cup op'.grabbed)
      /\ inodes'[Root].type = "DIR"
  BY <1>1 DEF Running, CutSafe, Entries
<1>4. \/ \A k \in Pointers : inodes'[Root].blocks[k] = 0
      \/ \A i \in Inodes, k \in Pointers, s \in Slots :
             Place(inodes', data', i, k, s) /\ Target(inodes', data', i, k, s) # op'.ino =>
                 inodes'[Target(inodes', data', i, k, s)].type # "FREE"
  <2>1. CASE op.name = "format"
    BY <1>1, <2>1 DEF Running, CutSafe, Formatting
  <2>2. CASE op.name # "format"
    <3>1. AllLive(disk.inodes, inodes, data, op.ino)
      BY <2>2 DEF Running, CutSafe
    <3> QED BY <1>1, <3>1 DEF AllLive
  <2> QED BY <2>1, <2>2
<1> QED BY <1>1, <1>2, <1>3, <1>4 DEF Cut

(* What paths lead to: the loop of Tree, from one depth to the next.       *)
Deeper(g, n) ==
    IF n = 0 THEN {Root}
    ELSE g[n - 1] \cup UNION {Children(d) : d \in {e \in g[n - 1] : inodes[e].type = "DIR"}}

LEMMA DepthsExist ==
    ASSUME NEW k \in Nat
    PROVE  \E g : g = [n \in 0 .. k |-> Deeper(g, n)]
<1> DEFINE T == {m \in Nat : \E g : g = [n \in 0 .. m |-> Deeper(g, n)]}
<1>1. 0 \in T
  <2> DEFINE g == [n \in 0 .. 0 |-> {Root}]
  <2>1. g = [n \in 0 .. 0 |-> Deeper(g, n)]
    BY DEF Deeper
  <2> QED BY <2>1
<1>2. ASSUME NEW m \in Nat, m \in T PROVE m + 1 \in T
  <2>1. PICK g : g = [n \in 0 .. m |-> Deeper(g, n)]
    BY <1>2
  <2> DEFINE more == [n \in 0 .. m + 1 |-> IF n = m + 1 THEN Deeper(g, n) ELSE g[n]]
  <2>2. \A n \in 0 .. m + 1 : more[n] = Deeper(more, n)
    <3> SUFFICES ASSUME NEW n \in 0 .. m + 1 PROVE more[n] = Deeper(more, n)
      OBVIOUS
    <3>1. more[n] = Deeper(g, n)
      BY <2>1
    <3>2. n # 0 => more[n - 1] = g[n - 1]
      OBVIOUS
    <3> HIDE DEF more
    <3>3. CASE n = 0
      BY <3>1, <3>3 DEF Deeper
    <3>4. CASE n # 0
      <4>1. more[n - 1] = g[n - 1]
        BY <3>2, <3>4
      <4> QED BY <3>1, <3>4, <4>1 DEF Deeper
    <3> QED BY <3>3, <3>4
  <2>3. more = [n \in 0 .. m + 1 |-> Deeper(more, n)]
    <3>1. more = [n \in 0 .. m + 1 |-> more[n]]
      OBVIOUS
    <3> HIDE DEF more
    <3> QED BY <2>2, <3>1
  <2> HIDE DEF more
  <2> QED BY <2>3
<1> HIDE DEF T
<1>3. k \in T
  BY <1>1, <1>2, SetInduction
<1> QED BY <1>3 DEF T

(* A set that has the root, and with a directory what it holds.            *)
LEMMA TreeWithin ==
    ASSUME NEW S, Root \in S, \A d \in S : inodes[d].type = "DIR" => Children(d) \subseteq S
    PROVE  Tree \subseteq S
<1> DEFINE within == CHOOSE g : g = [n \in 0 .. NInodes |-> Deeper(g, n)]
<1>1. within = [n \in 0 .. NInodes |-> Deeper(within, n)]
  BY Sizes, DepthsExist
<1>2. Tree = within[NInodes]
  BY DEF Tree, Deeper
<1> HIDE DEF within
<1> DEFINE T == {m \in Nat : m <= NInodes => within[m] \subseteq S}
<1>3. 0 \in T
  <2>1. within[0] = {Root}
    BY <1>1, Sizes DEF Deeper
  <2> QED BY <2>1
<1>4. ASSUME NEW m \in Nat, m \in T PROVE m + 1 \in T
  <2> SUFFICES ASSUME m + 1 <= NInodes PROVE within[m + 1] \subseteq S
    OBVIOUS
  <2>1. within[m + 1] = Deeper(within, m + 1) /\ within[m] \subseteq S /\ m + 1 # 0 /\ (m + 1) - 1 = m
    <3>1. m + 1 \in 0 .. NInodes /\ m <= NInodes /\ m + 1 # 0 /\ (m + 1) - 1 = m
      BY Sizes
    <3> QED BY <1>1, <1>4, <3>1
  <2>2. within[m + 1] =
            within[m] \cup UNION {Children(d) : d \in {e \in within[m] : inodes[e].type = "DIR"}}
    BY <2>1 DEF Deeper
  <2> QED BY <2>1, <2>2
<1> HIDE DEF T
<1>5. NInodes \in T
  BY <1>3, <1>4, Sizes, SetInduction
<1>6. within[NInodes] \subseteq S
  BY <1>5, Sizes DEF T
<1> QED BY <1>2, <1>6

LEMMA ChildrenPlaces ==
    ASSUME NEW d \in Inodes, inodes[d].type = "DIR", NEW c \in Children(d)
    PROVE  \E k \in Pointers, s \in Slots :
               Place(inodes, data, d, k, s) /\ Target(inodes, data, d, k, s) = c
<1>1. PICK p \in {q \in Pointers \X Slots : \E name \in Names : FirstMatch(d, name, q[1], q[2])} :
          c = InDir(d, p[1], p[2]).ino
  BY DEF Children
<1>2. PICK name \in Names : FirstMatch(d, name, p[1], p[2])
  BY <1>1
<1>3. p[1] \in Pointers /\ p[2] \in Slots
  BY <1>1
<1>4. Searched(d, p[1]) /\ InDir(d, p[1], p[2]).ino # 0
  BY <1>2 DEF FirstMatch, Holds
<1>5. inodes[d].blocks[p[1]] # 0
  <2>1. \A k \in Pointers : k \in 0 .. k
    BY Sizes
  <2> QED BY <1>3, <1>4, <2>1 DEF Searched
<1> QED BY <1>1, <1>3, <1>4, <1>5 DEF Place, Target, InDir

LEMMA CutDamage == TypeOK /\ Cut => CrashDamage
<1> SUFFICES ASSUME TypeOK, Cut PROVE CrashDamage
  OBVIOUS
<1>1. Referenced \ bitmap \subseteq op.grabbed
  BY DEF Cut, Within, Referenced, Held
<1>2. BlocksNotShared
  BY DEF Cut, Apart, BlocksNotShared
<1>3. \A i \in Tree : inodes[i].type = "FREE" => i = op.ino
  <2>1. CASE \A k \in Pointers : inodes[Root].blocks[k] = 0
    <3>1. \A d \in {Root} : inodes[d].type = "DIR" => Children(d) \subseteq {Root}
      BY <2>1, ChildrenPlaces, Sizes DEF Place
    <3>2. Tree \subseteq {Root}
      BY <3>1, TreeWithin
    <3> QED BY <3>2 DEF Cut
  <2>2. CASE \A i \in Inodes, k \in Pointers, s \in Slots :
                 Place(inodes, data, i, k, s) /\ Target(inodes, data, i, k, s) # op.ino =>
                     inodes[Target(inodes, data, i, k, s)].type # "FREE"
    <3> DEFINE S == {i \in Inodes : inodes[i].type = "FREE" => i = op.ino}
    <3>1. Root \in S
      BY Sizes DEF Cut
    <3>2. ASSUME NEW d \in S, inodes[d].type = "DIR", NEW c \in Children(d) PROVE c \in S
      <4>1. PICK k \in Pointers, s \in Slots :
                Place(inodes, data, d, k, s) /\ Target(inodes, data, d, k, s) = c
        BY <3>2, ChildrenPlaces
      <4>2. inodes[d].blocks[k] \in Blocks
        <5>1. d \in Inodes /\ inodes \in [Inodes -> InodeRecord]
          BY Types
        <5>2. inodes[d].blocks[k] \in Blocks \cup {0}
          BY <5>1, NodeFields
        <5> QED BY <4>1, <5>2 DEF Place
      <4>3. c \in Inodes
        BY <4>1, <4>2, Types DEF Place, Target, BlockSet, Entry
      <4> QED BY <2>2, <4>1, <4>3
    <3> HIDE DEF S
    <3>3. Tree \subseteq S
      BY <3>1, <3>2, TreeWithin
    <3> QED BY <3>3 DEF S
  <2> QED BY <2>1, <2>2 DEF Cut
<1> QED BY <1>1, <1>2, <1>3 DEF CrashDamage

---------------------------------------------------------------------------
(* All steps.                                                              *)

LEMMA IInvNext == IInv /\ [Next]_vars => IInv'
<1> SUFFICES ASSUME IInv, [Next]_vars PROVE IInv'
  OBVIOUS
<1>1. CASE UNCHANGED vars
  <2>1. UNCHANGED <<inodes, bitmap, sb, dirty, disk, data, pc, sec, op, promised>>
    BY <1>1 DEF vars
  <2>2. TypeOK'
    BY <2>1 DEF IInv, TypeOK
  <2>3. CASE pc = "remounted"
    BY <2>1, <2>2, <2>3 DEF IInv, Cut, Apart, Within
  <2>4. CASE pc # "remounted"
    <3>1. Running
      BY <2>4 DEF IInv
    <3>2. Marks' /\ Counts' /\ Entries' /\ ZeroTaken' /\ Files'
      BY <2>1, <3>1, MemoryKept DEF Running, Entries
    <3>3. Writing'
      BY <2>1, <3>1 DEF Running, Writing, Stored, Within, Position
    <3>4. Syncing'
      BY <2>1, <3>1 DEF Running, Syncing
    <3>5. CutSafe'
      BY <2>1, <3>1 DEF Running, CutSafe, Formatting, AllLive, Within, Apart
    <3> QED BY <2>1, <2>2, <2>4, <3>2, <3>3, <3>4, <3>5 DEF IInv, Running
  <2> QED BY <2>3, <2>4
<1>2. CASE Next
  <2>1. pc # "remounted"
    BY <1>2 DEF Next, Create, Mkdir, MakeNode, Unlink, BeginWrite, WriteTurn, WriteEnd, SyncInode,
                SkipInodes, SyncBitmap, SyncSb, Format, PowerCut
  <2>2. TypeOK /\ Running
    BY <2>1 DEF IInv
  <2>3. ASSUME TypeOK', Running', pc' # "remounted" PROVE IInv'
    BY <2>3 DEF IInv
  <2>4. CASE \E d \in Inodes, name \in Names : Create(d, name) \/ Mkdir(d, name)
    <3>1. PICK d \in Inodes, name \in Names, type \in {"FILE", "DIR"} : MakeNode(d, name, type)
      BY <2>4 DEF Create, Mkdir
    <3>2. pc' # "remounted"
      BY <3>1 DEF MakeNode
    <3> QED BY <2>2, <2>3, <3>1, <3>2, MakeNodeKeeps
  <2>5. CASE \E d \in Inodes, name \in Names : Unlink(d, name)
    <3>1. PICK d \in Inodes, name \in Names : Unlink(d, name)
      BY <2>5
    <3>2. pc' # "remounted"
      BY <3>1 DEF Unlink
    <3> QED BY <2>2, <2>3, <3>1, <3>2, UnlinkKeeps
  <2>6. CASE \E i \in Inodes, off \in 0 .. Ptrs * PerBlock, len \in Lengths : BeginWrite(i, off, len)
    <3>1. PICK i \in Inodes, off \in 0 .. Ptrs * PerBlock, len \in Lengths : BeginWrite(i, off, len)
      BY <2>6
    <3>2. pc' # "remounted"
      BY <3>1 DEF BeginWrite
    <3> QED BY <2>2, <2>3, <3>1, <3>2, BeginWriteKeeps
  <2>7. CASE WriteTurn
    <3>1. pc' # "remounted"
      BY <2>1, <2>7 DEF WriteTurn
    <3> QED BY <2>2, <2>3, <2>7, <3>1, WriteTurnKeeps
  <2>8. CASE WriteEnd
    <3>1. pc' # "remounted"
      BY <2>8 DEF WriteEnd
    <3> QED BY <2>2, <2>3, <2>8, <3>1, WriteEndKeeps
  <2>9. CASE SyncInode
    <3>1. pc' # "remounted"
      BY <2>1, <2>9 DEF SyncInode
    <3> QED BY <2>2, <2>3, <2>9, <3>1, SyncInodeKeeps
  <2>10. CASE SkipInodes
    <3>1. pc' # "remounted"
      BY <2>10 DEF SkipInodes
    <3> QED BY <2>2, <2>3, <2>10, <3>1, SkipInodesKeeps
  <2>11. CASE SyncBitmap
    <3>1. pc' # "remounted"
      BY <2>11 DEF SyncBitmap
    <3> QED BY <2>2, <2>3, <2>11, <3>1, SyncBitmapKeeps
  <2>12. CASE SyncSb
    <3>1. pc' # "remounted"
      BY <2>12 DEF SyncSb
    <3> QED BY <2>2, <2>3, <2>12, <3>1, SyncSbKeeps
  <2>13. CASE Format
    <3>1. pc' # "remounted"
      BY <2>13 DEF Format
    <3> QED BY <2>2, <2>3, <2>13, <3>1, FormatKeeps
  <2>14. CASE PowerCut
    BY <2>2, <2>14, PowerCutKeeps DEF IInv
  <2> QED BY <1>2, <2>4, <2>5, <2>6, <2>7, <2>8, <2>9, <2>10, <2>11, <2>12, <2>13, <2>14 DEF Next
<1> QED BY <1>1, <1>2

---------------------------------------------------------------------------
(* What follows from the invariant.                                        *)

LEMMA InitIInv == Init => IInv
BY Initial DEF IInv

\* The inductive invariant: memory and disk in every state, also in the middle
\* of an operation and after a power cut.
THEOREM StackFSInvariant == Spec => []IInv
<1> QED BY InitIInv, IInvNext, PTL DEF Spec

\* Types.  The free counts of the superblock never go below 0 or above the
\* totals, and no write of bfs_write ends beyond the pointers of an inode.
THEOREM StackFSTypes == Spec => []TypeOK
<1>1. IInv => TypeOK
  BY DEF IInv
<1> QED BY <1>1, StackFSInvariant, PTL

\* bitmap_alloc never gives a block to two inodes, or twice to one.
THEOREM StackFSBlocksNotShared == Spec => []BlocksNotShared
<1>1. IInv => BlocksNotShared
  BY DEF IInv, Running, Marks, Cut, Apart, BlocksNotShared
<1> QED BY <1>1, StackFSInvariant, PTL

\* After every change of memory by an operation the bitmap has the blocks of the
\* inodes, and the counts that stackfs_format began with are exact.
THEOREM StackFSCountsExact == Spec => []CountsExact
<1>1. IInv => CountsExact
  <2> SUFFICES ASSUME IInv, pc # "remounted"
               PROVE  /\ bitmap \ {0} = Referenced
                      /\ sb.freeBlocks = NBlocks - Cardinality(bitmap)
                      /\ sb.freeInodes = Cardinality({i \in Inodes : inodes[i].type = "FREE"}) + 1
    BY DEF CountsExact
  <2>1. Marks /\ Counts
    BY DEF IInv, Running
  <2>2. bitmap \ {0} = Referenced
    BY <2>1 DEF Marks, Within, Referenced, Held
  <2> QED BY <2>1, <2>2 DEF Counts
<1> QED BY <1>1, StackFSInvariant, PTL

\* No entry of a directory leads to a free inode, and no two to the same one:
\* bfs_unlink of one name never takes the file of another.
THEOREM StackFSEntriesLive == Spec => []EntriesLive
<1>1. IInv => EntriesLive
  <2> SUFFICES ASSUME IInv, pc # "remounted"
               PROVE  /\ \A p \in Places : inodes[InDir(p[1], p[2], p[3]).ino].type # "FREE"
                      /\ \A p, q \in Places :
                           InDir(p[1], p[2], p[3]).ino = InDir(q[1], q[2], q[3]).ino => p = q
    BY DEF EntriesLive
  <2>1. Live(inodes, data) /\ Distinct(inodes, data)
    BY DEF IInv, Running, Entries, Live, Distinct
  <2>2. ASSUME NEW p \in Places
        PROVE  /\ p[1] \in Inodes /\ p[2] \in Pointers /\ p[3] \in Slots /\ p = <<p[1], p[2], p[3]>>
               /\ Place(inodes, data, p[1], p[2], p[3])
               /\ InDir(p[1], p[2], p[3]).ino = Target(inodes, data, p[1], p[2], p[3])
    BY DEF Places, InUse, InDir, Place, Target
  <2>3. ASSUME NEW p \in Places PROVE inodes[InDir(p[1], p[2], p[3]).ino].type # "FREE"
    BY <2>1, <2>2 DEF Live
  <2>4. ASSUME NEW p \in Places, NEW q \in Places,
               InDir(p[1], p[2], p[3]).ino = InDir(q[1], q[2], q[3]).ino
        PROVE  p = q
    <3>1. p[1] = q[1] /\ p[2] = q[2] /\ p[3] = q[3]
      BY <2>1, <2>2, <2>4 DEF Distinct
    <3> QED BY <2>2, <3>1
  <2> QED BY <2>3, <2>4
<1> QED BY <1>1, StackFSInvariant, PTL

\* All chunks that bfs_read may ask for, up to the size of a file, are in blocks
\* last written for that file; none is in block 0.
THEOREM StackFSFileReadable == Spec => []FileReadable
<1>1. IInv => FileReadable
  <2>1. IInv /\ pc # "remounted" => Files
    BY DEF IInv, Running
  <2> QED BY <2>1 DEF Files, Stored, FileReadable
<1> QED BY <1>1, StackFSInvariant, PTL

\* When an operation has returned, stackfs_sync has left nothing to be written.
THEOREM StackFSSynced == Spec => []Synced
<1>1. IInv => Synced
  <2> SUFFICES ASSUME IInv, pc = "idle"
               PROVE  dirty = {} /\ disk = [inodes |-> inodes, bitmap |-> bitmap, sb |-> sb]
    BY DEF Synced
  <2>1. TypeOK /\ Running
    BY DEF IInv
  <2>2. disk.inodes = inodes /\ disk.bitmap = bitmap /\ disk.sb = sb /\ dirty = {}
    BY <2>1, Idle
  <2>3. disk = [inodes |-> disk.inodes, bitmap |-> disk.bitmap, sb |-> disk.sb]
    BY <2>1, Types DEF DiskSet
  <2> QED BY <2>2, <2>3
<1> QED BY <1>1, StackFSInvariant, PTL

\* What stackfs_mount may find after the machine was switched off between any
\* two writes: unmarked blocks and dead entries of the operation that was cut
\* short, and nothing else amiss.
THEOREM StackFSCrashDamage == Spec => []CrashDamage
<1>1. IInv => CrashDamage
  BY CutDamage DEF IInv, CrashDamage
<1> QED BY <1>1, StackFSInvariant, PTL
=============================================================================
