------------------------------- MODULE Heap -------------------------------
(***************************************************************************)
(* The kernel heap, kernel/mm/heap.c: one region tiled by blocks, each a   *)
(* header followed by its payload, linked in both directions.  Allocation  *)
(* is first fit with splitting; freeing merges neighbouring free blocks.   *)
(*                                                                         *)
(* Addresses are offsets from the start of the region.  hdr maps the       *)
(* address of each header of the list to its fields; magic is left out, as *)
(* it is the same in all of them.  A header another one was written over   *)
(* is no longer in hdr.                                                    *)
(*                                                                         *)
(* split_block computes the size of the leftover in 32 bits.  When the     *)
(* block found exceeds the request by less than a header the subtraction   *)
(* wraps, the leftover looks huge and a header is written over whatever    *)
(* follows the block.  The step that does so is modelled as the code does  *)
(* it; what a heap damaged this way does later is not (smashed).           *)
(***************************************************************************)
EXTENDS Integers, FiniteSets

CONSTANTS
    HeapSize,   \* size of the region in bytes, KERNEL_HEAP_SIZE
    Hdr,        \* sizeof(block_header_t)
    SizeMod,    \* 2^32, the range of size_t
    Requests    \* the arguments of kmalloc

ASSUME HeapAssumption ==
    /\ Hdr \in Nat \ {0}
    /\ HeapSize \in Nat
    /\ HeapSize >= Hdr
    /\ SizeMod \in Nat
    /\ SizeMod > 2 * HeapSize + 2 * Hdr + 8
    /\ Requests \subseteq 0 .. SizeMod - 1

Null == -1
Addresses == 0 .. HeapSize

VARIABLES
    hdr,       \* the headers of the list, by address
    pc,        \* "idle", or in kfree: "next" or "prev", the loop of merge_free
               \* or what follows it
    blk,       \* the argument b of merge_free
    smashed    \* has a header been written over a neighbour

vars == <<hdr, pc, blk, smashed>>

Blocks == DOMAIN hdr
Header(size, free, next, prev) ==
    [size |-> size, free |-> free, next |-> next, prev |-> prev]

\* The address just behind block b.
End(b) == b + Hdr + hdr[b].size

Init ==
    /\ hdr = [b \in {0} |-> Header(HeapSize - Hdr, TRUE, Null, Null)]
    /\ pc = "idle"
    /\ blk = 0
    /\ smashed = FALSE

---------------------------------------------------------------------------
(* kmalloc *)

\* ALIGN8.
Align8(n) == (((n + 7) % SizeMod) \div 8) * 8

\* FAULT (AllocationsKept): the flag is not looked at.
FitsUsed(b, n) == hdr[b].size >= n
Fits(b, n) == hdr[b].free /\ hdr[b].size >= n

\* The list is in order of addresses (Tiled), so the first fit is the lowest.
FirstFit(b, n) == Fits(b, n) /\ \A c \in Blocks : c < b => ~Fits(c, n)

\* split_block: the unsigned difference and its test.
Leftover(b, n) == (hdr[b].size - n - Hdr) % SizeMod
WorthSplitting(b, n) == Leftover(b, n) > Hdr + 8

\* FAULT (TypeOK): pointer arithmetic on headers, without the cast to bytes.
BehindScaled(b, n) == b + (Hdr + n) * Hdr
\* Where split_block puts the header of the leftover.
Behind(b, n) == b + Hdr + n

\* FAULT (Tiled): the size of the block split is not cut.
SizeNotCut(b, n) == hdr[b].size
SizeAfterSplit(b, n) == n

\* The header nb written by split_block destroys the headers it overlaps; if
\* nb is itself the block behind b, the last assignment hits the new header.
Split(b, n) ==
    LET nb == Behind(b, n)
        next == hdr[b].next
        clobbered == {c \in Blocks \ {b} : c < nb + Hdr /\ nb < c + Hdr}
        fresh == Header(Leftover(b, n), TRUE, next, IF next = nb THEN nb ELSE b)
    IN  /\ hdr' = [c \in (Blocks \ clobbered) \cup {nb} |->
                     IF c = nb THEN fresh
                     ELSE IF c = b THEN Header(SizeAfterSplit(b, n), FALSE, nb, hdr[b].prev)
                     ELSE IF c = next THEN [hdr[c] EXCEPT !.prev = nb]
                     ELSE hdr[c]]
        /\ smashed' = (hdr[b].size - n < Hdr)

\* kmalloc(n) when a block fits; otherwise it returns NULL and changes nothing.
Kmalloc(n) ==
    /\ pc = "idle" /\ ~smashed
    /\ n # 0
    /\ \E b \in Blocks :
        /\ FirstFit(b, Align8(n))
        /\ IF WorthSplitting(b, Align8(n))
             THEN Split(b, Align8(n))
             ELSE /\ hdr' = [hdr EXCEPT ![b].free = FALSE]
                  /\ UNCHANGED smashed
    /\ UNCHANGED <<pc, blk>>

---------------------------------------------------------------------------
(* kfree *)

\* kfree of a block in use; a second kfree sees free = 1 and returns.
Kfree(b) ==
    /\ pc = "idle" /\ ~smashed
    /\ ~hdr[b].free
    /\ hdr' = [hdr EXCEPT ![b].free = TRUE]
    /\ pc' = "next"
    /\ blk' = b
    /\ UNCHANGED smashed

IsFreeBlock(b) == b # Null /\ hdr[b].free

\* FAULT (Tiled): the header of the absorbed block is not counted.
HeaderLost(b, c) == hdr[b].size + hdr[c].size
MergedSize(b, c) == hdr[b].size + Hdr + hdr[c].size

\* b takes in its successor c: c leaves the list, the block behind c points
\* back to b.
Absorb(b, c) ==
    hdr' = [x \in Blocks \ {c} |->
              IF x = b THEN [hdr[b] EXCEPT !.size = MergedSize(b, c), !.next = hdr[c].next]
              ELSE IF x = hdr[c].next THEN [hdr[x] EXCEPT !.prev = b]
              ELSE hdr[x]]

\* FAULT (CoalescesFully): no merging with the block behind.
NeverMergesNext(b) == FALSE
MergesNext(b) == IsFreeBlock(hdr[b].next)

\* One turn of the loop of merge_free.
MergeNext ==
    /\ pc = "next"
    /\ MergesNext(blk)
    /\ Absorb(blk, hdr[blk].next)
    /\ UNCHANGED <<pc, blk, smashed>>

MergeNextDone ==
    /\ pc = "next"
    /\ ~MergesNext(blk)
    /\ pc' = "prev"
    /\ UNCHANGED <<hdr, blk, smashed>>

\* FAULT (NoAdjacentFree): no merging with the block in front.
NeverMergesBack(b) == FALSE
MergesBack(b) == IsFreeBlock(hdr[b].prev)

MergePrev ==
    /\ pc = "prev"
    /\ IF MergesBack(blk) THEN Absorb(hdr[blk].prev, blk) ELSE UNCHANGED hdr
    /\ pc' = "idle"
    /\ blk' = 0
    /\ UNCHANGED smashed

---------------------------------------------------------------------------
Next ==
    \/ \E n \in Requests : Kmalloc(n)
    \/ \E b \in Blocks : Kfree(b)
    \/ MergeNext
    \/ MergeNextDone
    \/ MergePrev

Spec == Init /\ [][Next]_vars

---------------------------------------------------------------------------
(* Properties *)

HeaderType == [size : 0 .. SizeMod - 1, free : BOOLEAN,
               next : Addresses \cup {Null}, prev : Addresses \cup {Null}]

TypeOK ==
    /\ Blocks \subseteq Addresses
    /\ hdr \in [Blocks -> HeaderType]
    /\ pc \in {"idle", "next", "prev"}
    /\ blk \in Blocks
    /\ smashed \in BOOLEAN

(* The list tiles the region: a block ends where the next one begins, the  *)
(* last one ends with the region, the back links mirror the forward ones   *)
(* and no two blocks overlap.                                              *)
Disjoint == \A a, b \in Blocks : a < b => End(a) <= b
LinkedForward ==
    \A b \in Blocks : IF hdr[b].next = Null THEN End(b) = HeapSize
                      ELSE hdr[b].next = End(b) /\ End(b) \in Blocks
LinkedBack ==
    \A b \in Blocks : IF hdr[b].prev = Null THEN b = 0
                      ELSE hdr[b].prev \in Blocks /\ End(hdr[b].prev) = b
Tiled == ~smashed => 0 \in Blocks /\ Disjoint /\ LinkedForward /\ LinkedBack

(* Between calls no two free blocks are neighbours, so that freed memory   *)
(* does not stay in pieces.                                                *)
NoAdjacentFree ==
    pc = "idle" /\ ~smashed =>
        \A b \in Blocks : hdr[b].free => ~IsFreeBlock(hdr[b].next)

(* When everything has been freed the heap is one block again.             *)
CoalescesFully ==
    pc = "idle" /\ ~smashed /\ (\A b \in Blocks : hdr[b].free) => Blocks = {0}

(* An allocation keeps its place and size until it is freed, whatever is   *)
(* allocated, split, freed and merged around it.                           *)
InUse(b) == b \in Blocks /\ ~hdr[b].free
Kept(b) == b \in Blocks /\ InUse(b)' /\ hdr'[b].size = hdr[b].size
AllocationsKept ==
    [][\A b \in Blocks : InUse(b) /\ ~smashed' => Kept(b) \/ (pc' = "next" /\ blk' = b)]_vars

---------------------------------------------------------------------------
(* The comment at heap.c:31 says that "leftover becomes a new free block": *)
(* splitting a block touches no other, and so no allocation ends but by    *)
(* its own kfree.                                                          *)
AllocationsAlwaysKept ==
    [][\A b \in Blocks : InUse(b) => Kept(b) \/ (pc' = "next" /\ blk' = b)]_vars
=============================================================================
