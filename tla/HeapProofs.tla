----------------------------- MODULE HeapProofs -----------------------------
(***************************************************************************)
(* Proofs about Heap, for every size of region and header and every set of *)
(* requests.                                                               *)
(***************************************************************************)
EXTENDS Heap, TLAPS

(* Where kfree is.  Only a block being merged may have a free neighbour:   *)
(* behind it or in front of it in the loop, in front of it after the loop. *)
Merging ==
    /\ pc = "idle" => blk = 0
    /\ pc # "idle" => ~smashed /\ hdr[blk].free
AlmostMerged ==
    ~smashed =>
        \A b \in Blocks : hdr[b].free /\ IsFreeBlock(hdr[b].next) =>
            \/ pc = "next" /\ blk \in {b, hdr[b].next}
            \/ pc = "prev" /\ blk = hdr[b].next

(* The inductive invariant.  After a wrapped split only the types are left.*)
IInv == TypeOK /\ Tiled /\ 0 \in Blocks /\ Merging /\ AlmostMerged

---------------------------------------------------------------------------
(* Sizes in SizeMod.                                                       *)

LEMMA AlignType == ASSUME HeapAssumption, NEW n \in Nat PROVE Align8(n) \in 0 .. SizeMod - 1
<1>1. (n + 7) % SizeMod \in 0 .. SizeMod - 1
  BY DEF HeapAssumption
<1>2. \A m \in Nat : (m \div 8) * 8 \in Nat /\ (m \div 8) * 8 <= m
  OBVIOUS
<1> QED BY <1>1, <1>2 DEF Align8, HeapAssumption

LEMMA ModSmall == ASSUME NEW m \in Nat \ {0}, NEW d \in 0 .. m - 1 PROVE d % m = d
  OBVIOUS

(* The leftover is the true difference, or wraps.                          *)
LEMMA LeftoverValue ==
    ASSUME HeapAssumption, NEW b, NEW n \in Nat,
           hdr[b].size \in 0 .. SizeMod - 1, n <= hdr[b].size
    PROVE  /\ Leftover(b, n) \in 0 .. SizeMod - 1
           /\ hdr[b].size - n >= Hdr => Leftover(b, n) = hdr[b].size - n - Hdr
<1> DEFINE d == hdr[b].size - n - Hdr
<1>1. d \in Int /\ d < SizeMod /\ SizeMod \in Nat \ {0}
  BY DEF HeapAssumption
<1>2. d % SizeMod \in 0 .. SizeMod - 1
  BY <1>1
<1>3. d >= 0 => d % SizeMod = d
  <2> HIDE DEF d
  <2> QED BY <1>1, ModSmall
<1> QED BY <1>2, <1>3 DEF Leftover, HeapAssumption

---------------------------------------------------------------------------
(* What tiling says of the places of blocks.                               *)

(* Fields and addresses are numbers.                                       *)
LEMMA HeaderTypes ==
    ASSUME HeapAssumption, TypeOK
    PROVE  \A b \in Blocks : /\ b \in Nat
                             /\ b <= HeapSize
                             /\ hdr[b] \in HeaderType
                             /\ hdr[b].size \in Nat
                             /\ hdr[b].size < SizeMod
                             /\ End(b) \in Nat
                             /\ End(b) >= b + Hdr
                             /\ hdr[b].next \in Addresses \cup {Null}
                             /\ hdr[b].prev \in Addresses \cup {Null}
                             /\ hdr[b].free \in BOOLEAN
<1>1. \A b \in Blocks : b \in Nat /\ b <= HeapSize /\ hdr[b] \in HeaderType
  BY DEF TypeOK, Addresses, HeapAssumption
<1>2. \A b \in Blocks : /\ hdr[b].size \in 0 .. SizeMod - 1
                        /\ hdr[b].next \in Addresses \cup {Null}
                        /\ hdr[b].prev \in Addresses \cup {Null}
                        /\ hdr[b].free \in BOOLEAN
  BY <1>1 DEF HeaderType
<1> QED BY <1>1, <1>2 DEF End, HeapAssumption

(* No block reaches beyond the region.                                     *)
LEMMA EndInside ==
    ASSUME HeapAssumption, TypeOK, LinkedForward
    PROVE  \A b \in Blocks : End(b) <= HeapSize
<1> SUFFICES ASSUME NEW b \in Blocks PROVE End(b) <= HeapSize
  OBVIOUS
<1>1. CASE hdr[b].next = Null
  BY <1>1 DEF LinkedForward, HeapAssumption
<1>2. CASE hdr[b].next # Null
  <2>1. End(b) \in Blocks
    BY <1>2 DEF LinkedForward
  <2> QED BY <2>1, HeaderTypes
<1> QED BY <1>1, <1>2

(* Blocks that end at one place are the same.                              *)
LEMMA SameEnd ==
    ASSUME HeapAssumption, TypeOK, Disjoint, NEW a \in Blocks, NEW b \in Blocks, End(a) = End(b)
    PROVE  a = b
<1>1. a < b => End(a) <= b
  BY DEF Disjoint
<1>2. b < a => End(b) <= a
  BY DEF Disjoint
<1> QED BY <1>1, <1>2, HeaderTypes DEF HeapAssumption

(* The two links are inverse.                                              *)
LEMMA LinksInverse ==
    ASSUME HeapAssumption, TypeOK, Disjoint, LinkedForward, LinkedBack,
           NEW a \in Blocks, NEW b \in Blocks
    PROVE  hdr[a].next = b <=> hdr[b].prev = a
<1>1. b # Null /\ a # Null
  BY HeaderTypes DEF Null
<1>2. ASSUME hdr[a].next = b PROVE hdr[b].prev = a
  <2>1. b = End(a)
    BY <1>1, <1>2 DEF LinkedForward
  <2>2. b # 0
    BY <2>1, HeaderTypes DEF HeapAssumption
  <2>3. hdr[b].prev \in Blocks /\ End(hdr[b].prev) = b
    BY <2>2 DEF LinkedBack
  <2> QED BY <2>1, <2>3, SameEnd
<1>3. ASSUME hdr[b].prev = a PROVE hdr[a].next = b
  <2>1. End(a) = b
    BY <1>1, <1>3 DEF LinkedBack
  <2>2. End(a) # HeapSize
    BY <2>1, EndInside, HeaderTypes DEF HeapAssumption
  <2> QED BY <2>1, <2>2 DEF LinkedForward
<1> QED BY <1>2, <1>3

---------------------------------------------------------------------------
(* kmalloc                                                                 *)

(* Marking a block used keeps the invariant.                               *)
LEMMA TakeWhole ==
    ASSUME HeapAssumption, IInv, pc = "idle", ~smashed, NEW b \in Blocks,
           hdr' = [hdr EXCEPT ![b].free = FALSE], UNCHANGED <<pc, blk, smashed>>
    PROVE  IInv'
<1>1. Blocks' = Blocks
  BY DEF Blocks
<1>2. \A c \in Blocks : /\ hdr'[c].size = hdr[c].size
                        /\ hdr'[c].next = hdr[c].next
                        /\ hdr'[c].prev = hdr[c].prev
                        /\ hdr'[c].free => hdr[c].free
                        /\ hdr'[c] \in HeaderType
  BY DEF IInv, TypeOK, HeaderType, Blocks
<1>3. \A c \in Blocks : End(c)' = End(c)
  BY <1>2 DEF End
<1>4. TypeOK'
  BY <1>1, <1>2 DEF IInv, TypeOK, Blocks
<1>5. Tiled'
  BY <1>1, <1>2, <1>3 DEF IInv, Tiled, Disjoint, LinkedForward, LinkedBack
<1>6. Merging'
  BY DEF IInv, Merging
<1>7. AlmostMerged'
  <2>1. \A c \in Blocks : hdr[c].next # Null => hdr[c].next \in Blocks
    BY DEF IInv, Tiled, LinkedForward
  <2> QED BY <1>1, <1>2, <2>1 DEF IInv, AlmostMerged, IsFreeBlock
<1> QED BY <1>1, <1>4, <1>5, <1>6, <1>7 DEF IInv

(* The new header lies in the region, and destroys none unless it wraps.   *)
LEMMA SplitPlace ==
    ASSUME HeapAssumption, IInv, ~smashed, NEW b \in Blocks, NEW n \in Nat,
           Fits(b, n), WorthSplitting(b, n)
    PROVE  /\ Behind(b, n) \in Addresses
           /\ Behind(b, n) >= b + Hdr
           /\ hdr[b].size - n >= Hdr =>
                  /\ Leftover(b, n) = hdr[b].size - n - Hdr
                  /\ Behind(b, n) + Hdr + Leftover(b, n) = End(b)
                  /\ Behind(b, n) + Hdr < End(b)
                  /\ \A c \in Blocks \ {b} : End(c) <= b \/ End(b) <= c
<1>1. /\ b \in Nat /\ hdr[b].size \in Nat /\ hdr[b].size \in 0 .. SizeMod - 1
      /\ n <= hdr[b].size
  BY HeaderTypes DEF IInv, Fits, HeapAssumption
<1>2. End(b) <= HeapSize
  BY EndInside DEF IInv, Tiled
<1>3. Behind(b, n) \in Addresses /\ Behind(b, n) >= b + Hdr
  BY <1>1, <1>2 DEF Behind, End, Addresses, HeapAssumption
<1>4. ASSUME hdr[b].size - n >= Hdr
      PROVE  /\ Leftover(b, n) = hdr[b].size - n - Hdr
             /\ Behind(b, n) + Hdr + Leftover(b, n) = End(b)
             /\ Behind(b, n) + Hdr < End(b)
  <2>1. Leftover(b, n) = hdr[b].size - n - Hdr
    BY <1>1, <1>4, LeftoverValue
  <2>2. Leftover(b, n) > Hdr + 8
    BY DEF WorthSplitting
  <2> QED BY <1>1, <2>1, <2>2 DEF Behind, End, HeapAssumption
<1>5. \A c \in Blocks \ {b} : End(c) <= b \/ End(b) <= c
  <2> SUFFICES ASSUME NEW c \in Blocks \ {b} PROVE c < b \/ b < c
    BY DEF IInv, Tiled, Disjoint
  <2>1. c \in Nat /\ c # b
    BY HeaderTypes DEF IInv
  <2> QED BY <1>1, <2>1
<1> QED BY <1>3, <1>4, <1>5

(* Splitting keeps the invariant; after a wrap only the types.             *)
LEMMA SplitKeeps ==
    ASSUME HeapAssumption, IInv, pc = "idle", ~smashed, NEW b \in Blocks, NEW n \in Nat,
           Fits(b, n), WorthSplitting(b, n), Split(b, n), UNCHANGED <<pc, blk>>
    PROVE  IInv'
<1> DEFINE nb == Behind(b, n)
           next == hdr[b].next
           left == Leftover(b, n)
           clobbered == {c \in Blocks \ {b} : c < nb + Hdr /\ nb < c + Hdr}
<1>1. /\ nb \in Addresses /\ nb >= b + Hdr /\ nb # b /\ nb # 0 /\ nb \in Nat
      /\ b \in Nat /\ b # Null /\ n <= hdr[b].size /\ n \in 0 .. SizeMod - 1
      /\ left \in 0 .. SizeMod - 1
  BY SplitPlace, HeaderTypes, LeftoverValue DEF IInv, HeapAssumption, Fits, Addresses, Null
<1>2. 0 \in Blocks /\ 0 \notin clobbered
  <2>1. 0 # b => b >= Hdr
    <3> SUFFICES ASSUME 0 # b PROVE b >= Hdr
      OBVIOUS
    <3>1. End(0) <= b
      BY <1>1 DEF IInv, Tiled, Disjoint
    <3> QED BY <3>1, <1>1, HeaderTypes DEF IInv, HeapAssumption
  <2> QED BY <1>1, <2>1 DEF IInv, HeapAssumption
<1>3. /\ Blocks' = (Blocks \ clobbered) \cup {nb}
      /\ b \in Blocks'
      /\ smashed' = (hdr[b].size - n < Hdr)
  BY <1>1 DEF Split, Blocks
<1>4. /\ hdr'[nb] = Header(left, TRUE, next, IF next = nb THEN nb ELSE b)
      /\ hdr'[b] = Header(n, FALSE, nb, hdr[b].prev)
      /\ \A c \in Blocks' \ {b, nb} :
             hdr'[c] = IF c = next THEN [hdr[c] EXCEPT !.prev = nb] ELSE hdr[c]
  BY <1>1, <1>3 DEF Split, Blocks, SizeAfterSplit
<1>5. TypeOK'
  <2>1. next \in Addresses \cup {Null} /\ hdr[b].prev \in Addresses \cup {Null} /\ b \in Addresses
    BY HeaderTypes DEF IInv, TypeOK
  <2>2. hdr'[nb] \in HeaderType
    BY <1>1, <1>4, <2>1 DEF HeaderType, Header
  <2>3. hdr'[b] \in HeaderType
    BY <1>1, <1>4, <2>1 DEF HeaderType, Header
  <2>4. ASSUME NEW c \in Blocks' \ {b, nb} PROVE hdr'[c] \in HeaderType
    <3>1. hdr[c] \in HeaderType
      BY <1>3, <2>4, HeaderTypes DEF IInv
    <3> QED BY <1>1, <1>4, <3>1 DEF HeaderType
  <2>5. \A c \in Blocks' : hdr'[c] \in HeaderType
    BY <2>2, <2>3, <2>4
  <2>6. hdr' = [c \in Blocks' |-> hdr'[c]]
    BY DEF Split, Blocks
  <2>7. Blocks' \subseteq Addresses /\ blk' \in Blocks'
    BY <1>1, <1>2, <1>3 DEF IInv, TypeOK, Merging
  <2>8. smashed' \in BOOLEAN
    BY <1>3
  <2> QED BY <2>5, <2>6, <2>7, <2>8 DEF IInv, TypeOK
<1>6. Merging' /\ (0 \in Blocks)'
  BY <1>2, <1>3 DEF IInv, Merging
<1>7. ASSUME ~smashed' PROVE Tiled' /\ AlmostMerged'
  <2>1. /\ hdr[b].size - n >= Hdr
        /\ left = hdr[b].size - n - Hdr
        /\ nb + Hdr + left = End(b)
        /\ nb + Hdr < End(b)
        /\ \A c \in Blocks \ {b} : End(c) <= b \/ End(b) <= c
    <3>1. ~(hdr[b].size - n < Hdr)
      BY <1>3, <1>7
    <3>2. hdr[b].size - n >= Hdr
      BY <1>1, <3>1, HeaderTypes DEF IInv, HeapAssumption
    <3> QED BY <3>2, SplitPlace
  <2>2. Blocks' = Blocks \cup {nb} /\ nb \notin Blocks
    <3>1. \A c \in Blocks \ {b} : c \notin clobbered /\ c # nb
      BY <1>1, <2>1, HeaderTypes DEF IInv, HeapAssumption
    <3> QED BY <1>1, <1>3, <3>1
  <2>3. next # nb /\ next # b
    <3>1. next # Null => next = End(b) /\ next \in Blocks
      BY DEF IInv, Tiled, LinkedForward
    <3> QED BY <1>1, <2>1, <2>2, <3>1, HeaderTypes DEF IInv, HeapAssumption, Null
  <2>4. /\ hdr'[nb].size = left /\ hdr'[nb].free /\ hdr'[nb].next = next /\ hdr'[nb].prev = b
        /\ hdr'[b].size = n /\ ~hdr'[b].free /\ hdr'[b].next = nb /\ hdr'[b].prev = hdr[b].prev
    BY <1>4, <2>3 DEF Header
  <2>5. ASSUME NEW c \in Blocks, c # b
        PROVE  /\ hdr'[c].size = hdr[c].size /\ hdr'[c].free = hdr[c].free
               /\ hdr'[c].next = hdr[c].next
               /\ hdr'[c].prev = IF c = next THEN nb ELSE hdr[c].prev
               /\ End(c)' = End(c)
    <3>1. hdr[c] \in HeaderType /\ c \in Blocks' \ {b, nb}
      BY <2>2, <2>5, HeaderTypes DEF IInv
    <3>2. hdr'[c] = IF c = next THEN [hdr[c] EXCEPT !.prev = nb] ELSE hdr[c]
      BY <1>4, <3>1
    <3>3. /\ hdr'[c].size = hdr[c].size /\ hdr'[c].free = hdr[c].free
          /\ hdr'[c].next = hdr[c].next
          /\ hdr'[c].prev = IF c = next THEN nb ELSE hdr[c].prev
      BY <3>1, <3>2 DEF HeaderType
    <3> QED BY <3>3 DEF End
  <2>6. End(b)' = nb /\ End(nb)' = End(b)
    BY <2>1, <2>4 DEF End, Behind
  <2>7. Disjoint'
    <3> SUFFICES ASSUME NEW x \in Blocks', NEW y \in Blocks', x < y PROVE End(x)' <= y
      BY DEF Disjoint
    <3>1. \A c \in Blocks : c \in Nat /\ End(c) \in Nat /\ End(c) >= c + Hdr
      BY HeaderTypes DEF IInv
    <3>2. CASE x \in Blocks \ {b} /\ y \in Blocks
      BY <2>5, <3>2 DEF IInv, Tiled, Disjoint
    <3>3. CASE x \in Blocks \ {b} /\ y = nb
      BY <1>1, <2>1, <2>5, <3>1, <3>3 DEF HeapAssumption
    <3>4. CASE x = b /\ y \in Blocks
      BY <1>1, <2>1, <2>6, <3>1, <3>4 DEF HeapAssumption
    <3>5. CASE x = b /\ y = nb
      BY <1>1, <2>6, <3>5
    <3>6. CASE x = nb /\ y \in Blocks
      BY <1>1, <2>1, <2>6, <3>1, <3>6 DEF HeapAssumption
    <3> QED BY <1>1, <2>2, <3>2, <3>3, <3>4, <3>5, <3>6
  <2>8. LinkedForward'
    BY <1>1, <2>2, <2>4, <2>5, <2>6 DEF IInv, Tiled, LinkedForward, Null
  <2>9. LinkedBack'
    <3> SUFFICES ASSUME NEW c \in Blocks'
                 PROVE  IF hdr'[c].prev = Null THEN c = 0
                        ELSE \E d \in Blocks' : hdr'[c].prev = d /\ End(d)' = c
      BY DEF LinkedBack
    <3>1. CASE c = nb
      BY <1>1, <2>2, <2>4, <2>6, <3>1
    <3>2. CASE c = b
      <4>1. hdr[b].prev # b
        BY <1>1, HeaderTypes DEF IInv, Tiled, LinkedBack, HeapAssumption
      <4> QED BY <2>2, <2>4, <2>5, <3>2, <4>1 DEF IInv, Tiled, LinkedBack
    <3>3. CASE c \in Blocks \ {b} /\ c = next
      <4>1. c = End(b)
        BY <1>1, <3>3, HeaderTypes DEF IInv, Tiled, LinkedForward, Null
      <4> QED BY <1>1, <2>2, <2>5, <2>6, <3>3, <4>1 DEF Null
    <3>4. CASE c \in Blocks \ {b} /\ c # next
      <4>1. hdr[c].prev # b
        BY <3>4, LinksInverse DEF IInv, Tiled
      <4> QED BY <2>2, <2>5, <3>4, <4>1 DEF IInv, Tiled, LinkedBack
    <3> QED BY <2>2, <3>1, <3>2, <3>3, <3>4
  <2>10. AlmostMerged'
    <3>1. \A c \in Blocks : hdr[c].free => ~IsFreeBlock(hdr[c].next)
      BY DEF IInv, AlmostMerged
    <3>2. hdr[b].free
      BY DEF Fits
    <3>3. \A c \in Blocks \ {b} : hdr[c].next \in Blocks \cup {Null}
      BY DEF IInv, Tiled, LinkedForward
    <3>4. next \in Blocks \cup {Null}
      BY DEF IInv, Tiled, LinkedForward
    <3> SUFFICES ASSUME NEW c \in Blocks', hdr'[c].free, IsFreeBlock(hdr[c].next)'
                 PROVE  FALSE
      BY DEF AlmostMerged
    <3>5. CASE c = nb
      BY <2>2, <2>3, <2>4, <2>5, <3>1, <3>2, <3>4, <3>5 DEF IsFreeBlock
    <3>6. CASE c \in Blocks \ {b}
      BY <2>2, <2>4, <2>5, <3>1, <3>3, <3>6 DEF IsFreeBlock
    <3> QED BY <2>2, <2>4, <3>5, <3>6
  <2> QED BY <1>2, <1>3, <2>7, <2>8, <2>9, <2>10 DEF Tiled
<1> QED BY <1>5, <1>6, <1>7 DEF IInv, Tiled, AlmostMerged

LEMMA KmallocKeeps == ASSUME HeapAssumption, IInv, NEW n \in Requests, Kmalloc(n) PROVE IInv'
<1>1. PICK b \in Blocks :
        /\ Fits(b, Align8(n))
        /\ IF WorthSplitting(b, Align8(n))
             THEN Split(b, Align8(n))
             ELSE hdr' = [hdr EXCEPT ![b].free = FALSE] /\ UNCHANGED smashed
  BY DEF Kmalloc, FirstFit
<1>2. pc = "idle" /\ ~smashed /\ UNCHANGED <<pc, blk>>
  BY DEF Kmalloc
<1>3. Align8(n) \in Nat
  BY AlignType DEF HeapAssumption
<1>4. CASE WorthSplitting(b, Align8(n))
  BY <1>1, <1>2, <1>3, <1>4, SplitKeeps
<1>5. CASE ~WorthSplitting(b, Align8(n))
  BY <1>1, <1>2, <1>5, TakeWhole
<1> QED BY <1>4, <1>5

---------------------------------------------------------------------------
(* kfree                                                                   *)

(* Once the block is free, its own pairs are the ones still to be merged.  *)
LEMMA KfreeKeeps == ASSUME HeapAssumption, IInv, NEW b \in Blocks, Kfree(b) PROVE IInv'
<1>1. Blocks' = Blocks
  BY DEF Kfree, Blocks
<1>2. \A c \in Blocks : /\ hdr'[c].size = hdr[c].size
                        /\ hdr'[c].next = hdr[c].next
                        /\ hdr'[c].prev = hdr[c].prev
                        /\ hdr'[c].free = IF c = b THEN TRUE ELSE hdr[c].free
                        /\ hdr'[c] \in HeaderType
  BY DEF Kfree, IInv, TypeOK, HeaderType, Blocks
<1>3. \A c \in Blocks : End(c)' = End(c)
  BY <1>2 DEF End
<1>4. TypeOK'
  BY <1>1, <1>2 DEF Kfree, IInv, TypeOK, Blocks
<1>5. Tiled'
  BY <1>1, <1>2, <1>3 DEF Kfree, IInv, Tiled, Disjoint, LinkedForward, LinkedBack
<1>6. Merging'
  BY <1>1, <1>2 DEF Kfree, Merging
<1>7. AlmostMerged'
  <2>1. \A c \in Blocks : hdr[c].next # Null => hdr[c].next \in Blocks
    BY DEF Kfree, IInv, Tiled, LinkedForward
  <2> QED BY <1>1, <1>2, <2>1 DEF Kfree, IInv, AlmostMerged, IsFreeBlock
<1> QED BY <1>1, <1>4, <1>5, <1>6, <1>7 DEF IInv

(* What taking in the free block behind does to the list.                  *)
LEMMA AbsorbKeeps ==
    ASSUME HeapAssumption, IInv, ~smashed, UNCHANGED smashed,
           NEW b \in Blocks, NEW c \in Blocks, hdr[b].next = c, Absorb(b, c)
    PROVE  /\ Blocks' = Blocks \ {c} /\ b \in Blocks' /\ 0 \in Blocks'
           /\ \A x \in Blocks' : /\ hdr'[x] \in HeaderType
                                 /\ hdr'[x].free = hdr[x].free
                                 /\ x # b => hdr'[x].size = hdr[x].size /\ hdr'[x].next = hdr[x].next
                                 /\ hdr[x].next # c \/ x = b
           /\ hdr'[b].next = hdr[c].next
           /\ hdr' \in [Blocks' -> HeaderType]
           /\ Tiled'
<1> DEFINE d == hdr[c].next
<1>1. \A x \in Blocks : /\ x \in Nat /\ x # Null /\ hdr[x] \in HeaderType
                        /\ hdr[x].size \in Nat
                        /\ End(x) \in Nat /\ End(x) >= x + Hdr /\ End(x) <= HeapSize
  BY HeaderTypes, EndInside DEF IInv, Tiled, Null
<1>2. Disjoint /\ LinkedForward /\ LinkedBack
  BY DEF IInv, Tiled
<1>3. c = End(b) /\ c # 0 /\ c # b /\ d # c /\ d # b
  <2>1. c = End(b)
    BY <1>1, <1>2 DEF LinkedForward
  <2>2. d # Null => d = End(c)
    BY <1>2 DEF LinkedForward
  <2> QED BY <1>1, <2>1, <2>2 DEF HeapAssumption
<1>4. Blocks' = Blocks \ {c} /\ b \in Blocks' /\ 0 \in Blocks'
  BY <1>3 DEF Absorb, Blocks, IInv
<1>5. \A x \in Blocks' :
        hdr'[x] = IF x = b THEN [hdr[b] EXCEPT !.size = MergedSize(b, c), !.next = d]
                  ELSE IF x = d THEN [hdr[x] EXCEPT !.prev = b]
                  ELSE hdr[x]
  BY <1>4 DEF Absorb, Blocks
<1>6. /\ MergedSize(b, c) \in 0 .. SizeMod - 1
      /\ b + Hdr + MergedSize(b, c) = End(c)
  BY <1>1, <1>3 DEF MergedSize, End, HeapAssumption
<1>7. /\ hdr'[b].size = MergedSize(b, c) /\ hdr'[b].free = hdr[b].free
      /\ hdr'[b].next = d /\ hdr'[b].prev = hdr[b].prev
      /\ hdr'[b] \in HeaderType
  <2>1. d \in Addresses \cup {Null} /\ hdr[b] \in HeaderType
    BY <1>1 DEF HeaderType
  <2> QED BY <1>4, <1>5, <1>6, <2>1 DEF HeaderType
<1>8. ASSUME NEW x \in Blocks' \ {b}
      PROVE  /\ hdr'[x].size = hdr[x].size /\ hdr'[x].free = hdr[x].free
             /\ hdr'[x].next = hdr[x].next
             /\ hdr'[x].prev = IF x = d THEN b ELSE hdr[x].prev
             /\ hdr'[x] \in HeaderType
             /\ End(x)' = End(x)
             /\ hdr[x].next # c
  <2>1. hdr[x] \in HeaderType /\ b \in Addresses
    BY <1>1, <1>4 DEF IInv, TypeOK
  <2>2. /\ hdr'[x].size = hdr[x].size /\ hdr'[x].free = hdr[x].free
        /\ hdr'[x].next = hdr[x].next
        /\ hdr'[x].prev = IF x = d THEN b ELSE hdr[x].prev
        /\ hdr'[x] \in HeaderType
    BY <1>5, <2>1 DEF HeaderType
  <2>3. hdr[x].next # c
    BY <1>2, <1>4, LinksInverse DEF IInv
  <2> QED BY <2>2, <2>3 DEF End
<1>9. End(b)' = End(c)
  BY <1>6, <1>7 DEF End
<1>10. hdr' \in [Blocks' -> HeaderType]
  <2>1. hdr' = [x \in Blocks' |-> hdr'[x]]
    BY DEF Absorb, Blocks
  <2> QED BY <1>7, <1>8, <2>1
<1>11. Disjoint'
  <2> SUFFICES ASSUME NEW x \in Blocks', NEW y \in Blocks', x < y PROVE End(x)' <= y
    BY DEF Disjoint
  <2>1. CASE x # b
    BY <1>2, <1>4, <1>8, <2>1 DEF Disjoint
  <2>2. CASE x = b
    <3>1. c <= y
      BY <1>2, <1>3, <1>4, <2>2 DEF Disjoint
    <3>2. c < y
      BY <1>1, <1>4, <3>1
    <3> QED BY <1>2, <1>4, <1>9, <2>2, <3>2 DEF Disjoint
  <2> QED BY <2>1, <2>2
<1>12. LinkedForward'
  <2> SUFFICES ASSUME NEW x \in Blocks'
               PROVE  IF hdr'[x].next = Null THEN End(x)' = HeapSize
                      ELSE hdr'[x].next = End(x)' /\ hdr'[x].next \in Blocks'
    BY DEF LinkedForward
  <2>1. CASE x # b
    BY <1>2, <1>4, <1>8, <2>1 DEF LinkedForward
  <2>2. CASE x = b
    BY <1>2, <1>3, <1>4, <1>7, <1>9, <2>2 DEF LinkedForward
  <2> QED BY <2>1, <2>2
<1>13. LinkedBack'
  <2> SUFFICES ASSUME NEW x \in Blocks'
               PROVE  IF hdr'[x].prev = Null THEN x = 0
                      ELSE \E y \in Blocks' : hdr'[x].prev = y /\ End(y)' = x
    BY DEF LinkedBack
  <2>1. hdr[b].prev # b /\ (hdr[b].prev # Null => hdr[b].prev \in Blocks /\ End(hdr[b].prev) = b)
    BY <1>1, <1>2 DEF LinkedBack, HeapAssumption
  <2>2. CASE x = b
    <3>1. hdr[b].prev # c
      BY <1>1, <1>3, <2>1 DEF HeapAssumption
    <3> QED BY <1>2, <1>4, <1>7, <1>8, <2>1, <2>2, <3>1 DEF LinkedBack
  <2>3. CASE x # b /\ x = d
    <3>1. End(b)' = x /\ hdr'[x].prev = b
      BY <1>1, <1>2, <1>4, <1>8, <1>9, <2>3 DEF LinkedForward
    <3> QED BY <1>1, <1>4, <3>1
  <2>4. CASE x # b /\ x # d
    <3>1. hdr[x].prev # c /\ hdr[x].prev # b
      BY <1>2, <1>3, <1>4, <2>4, LinksInverse DEF IInv
    <3> QED BY <1>2, <1>4, <1>8, <2>4, <3>1 DEF LinkedBack
  <2> QED BY <2>2, <2>3, <2>4
<1> QED BY <1>4, <1>7, <1>8, <1>10, <1>11, <1>12, <1>13 DEF Tiled

(* A neighbour found free in the new list is a block of it.                *)
LEMMA FreeNeighbour ==
    ASSUME Tiled', ~smashed', NEW x \in Blocks', IsFreeBlock(hdr[x].next)'
    PROVE  hdr'[x].next \in Blocks' /\ hdr'[hdr'[x].next].free /\ hdr'[x].next # Null
<1>1. hdr'[x].next # Null /\ hdr'[hdr'[x].next].free
  BY DEF IsFreeBlock
<1>2. LinkedForward'
  BY DEF Tiled
<1> QED BY <1>1, <1>2 DEF LinkedForward

(* The loop of merge_free.                                                 *)
LEMMA MergeNextKeeps == ASSUME HeapAssumption, IInv, MergeNext PROVE IInv'
<1> DEFINE c == hdr[blk].next
<1>1. /\ pc = "next" /\ ~smashed /\ blk \in Blocks /\ hdr[blk].free
      /\ c \in Blocks /\ hdr[c].free
      /\ Absorb(blk, c) /\ UNCHANGED <<pc, blk, smashed>>
  BY DEF MergeNext, MergesNext, IsFreeBlock, IInv, TypeOK, Merging, Tiled, LinkedForward
<1>2. /\ Blocks' = Blocks \ {c} /\ blk \in Blocks' /\ 0 \in Blocks'
      /\ \A x \in Blocks' : /\ hdr'[x].free = hdr[x].free
                            /\ x # blk => hdr'[x].next = hdr[x].next
                            /\ hdr[x].next # c \/ x = blk
      /\ hdr' \in [Blocks' -> HeaderType]
      /\ Tiled'
  BY <1>1, AbsorbKeeps
<1>3. TypeOK'
  BY <1>1, <1>2 DEF IInv, TypeOK
<1>4. Merging'
  <2>1. hdr'[blk].free = hdr[blk].free
    BY <1>2
  <2>2. hdr'[blk].free
    BY <1>1, <2>1
  <2> QED BY <1>1, <2>2 DEF Merging
<1>5. AlmostMerged'
  <2> SUFFICES ASSUME NEW x \in Blocks', x # blk, hdr'[x].free, IsFreeBlock(hdr[x].next)'
               PROVE  hdr'[x].next = blk
    BY <1>1 DEF AlmostMerged
  <2>1. hdr'[x].next \in Blocks' /\ hdr'[hdr'[x].next].free /\ hdr'[x].next # Null
    BY <1>1, <1>2, FreeNeighbour
  <2>2. hdr'[x].next = hdr[x].next
    BY <1>2
  <2>3. hdr[x].free = hdr'[x].free /\ hdr[hdr[x].next].free = hdr'[hdr'[x].next].free
    BY <1>2, <2>1, <2>2
  <2>4. hdr[x].free /\ IsFreeBlock(hdr[x].next)
    BY <2>1, <2>2, <2>3 DEF IsFreeBlock
  <2> QED BY <1>1, <1>2, <2>2, <2>4 DEF IInv, AlmostMerged
<1> QED BY <1>2, <1>3, <1>4, <1>5 DEF IInv

LEMMA MergeNextDoneKeeps == ASSUME HeapAssumption, IInv, MergeNextDone PROVE IInv'
<1>1. /\ pc = "next" /\ pc' = "prev" /\ ~smashed /\ ~IsFreeBlock(hdr[blk].next)
      /\ UNCHANGED <<hdr, blk, smashed>>
  BY DEF MergeNextDone, MergesNext, IInv, Merging
<1>2. TypeOK' /\ Tiled' /\ (0 \in Blocks)'
  BY <1>1 DEF IInv, TypeOK, Tiled, Disjoint, LinkedForward, LinkedBack, End, Blocks
<1>3. Merging'
  BY <1>1 DEF IInv, Merging
<1>4. AlmostMerged'
  BY <1>1 DEF IInv, AlmostMerged, IsFreeBlock, Blocks
<1> QED BY <1>2, <1>3, <1>4 DEF IInv

(* What follows the loop.                                                  *)
LEMMA MergePrevKeeps == ASSUME HeapAssumption, IInv, MergePrev PROVE IInv'
<1> DEFINE a == hdr[blk].prev
<1>1. /\ pc = "prev" /\ ~smashed /\ blk \in Blocks /\ hdr[blk].free
      /\ pc' = "idle" /\ blk' = 0 /\ UNCHANGED smashed
      /\ 0 \in Blocks /\ Disjoint /\ LinkedForward /\ LinkedBack
  BY DEF MergePrev, IInv, TypeOK, Merging, Tiled
<1>2. \A x \in Blocks : hdr[x].free /\ IsFreeBlock(hdr[x].next) => hdr[x].next = blk
  BY <1>1 DEF IInv, AlmostMerged
<1>3. CASE MergesBack(blk)
  <2>1. a \in Blocks /\ hdr[a].free /\ Absorb(a, blk)
    BY <1>1, <1>3 DEF MergePrev, MergesBack, IsFreeBlock, LinkedBack
  <2>2. hdr[a].next = blk
    BY <1>1, <2>1, LinksInverse DEF IInv
  <2>3. /\ Blocks' = Blocks \ {blk} /\ a \in Blocks' /\ 0 \in Blocks'
        /\ \A x \in Blocks' : /\ hdr'[x].free = hdr[x].free
                              /\ x # a => hdr'[x].next = hdr[x].next
                              /\ hdr[x].next # blk \/ x = a
        /\ hdr'[a].next = hdr[blk].next
        /\ hdr' \in [Blocks' -> HeaderType]
        /\ Tiled'
    BY <1>1, <2>1, <2>2, AbsorbKeeps
  <2>4. TypeOK' /\ Merging'
    BY <1>1, <2>3 DEF IInv, TypeOK, Merging
  <2>5. AlmostMerged'
    <3> SUFFICES ASSUME NEW x \in Blocks', hdr'[x].free, IsFreeBlock(hdr[x].next)' PROVE FALSE
      BY DEF AlmostMerged
    <3>0. /\ hdr'[x].next \in Blocks' /\ hdr'[x].next # Null
          /\ hdr'[hdr'[x].next].free
          /\ hdr[hdr'[x].next].free = hdr'[hdr'[x].next].free
      BY <1>1, <2>3, FreeNeighbour
    <3>1. hdr[blk].next # blk
      BY <1>1, HeaderTypes DEF IInv, LinkedForward, HeapAssumption, Null
    <3>2. CASE x = a
      <4>1. hdr'[x].next = hdr[blk].next
        BY <2>3, <3>2
      <4>2. IsFreeBlock(hdr[blk].next)
        BY <2>3, <3>0, <4>1 DEF IsFreeBlock
      <4> QED BY <1>1, <1>2, <3>1, <4>2
    <3>3. CASE x # a
      <4>1. hdr'[x].next = hdr[x].next /\ hdr[x].next # blk /\ hdr[x].free = hdr'[x].free
        BY <2>3, <3>3
      <4>2. hdr[x].free /\ IsFreeBlock(hdr[x].next)
        BY <3>0, <4>1 DEF IsFreeBlock
      <4> QED BY <1>2, <2>3, <4>1, <4>2
    <3> QED BY <3>2, <3>3
  <2> QED BY <2>3, <2>4, <2>5 DEF IInv
<1>4. CASE ~MergesBack(blk)
  <2>1. UNCHANGED hdr
    BY <1>4 DEF MergePrev
  <2>2. TypeOK' /\ Tiled' /\ (0 \in Blocks)' /\ Merging'
    BY <1>1, <2>1 DEF IInv, TypeOK, Tiled, Disjoint, LinkedForward, LinkedBack, End, Blocks, Merging
  <2>3. \A x \in Blocks : ~(hdr[x].free /\ IsFreeBlock(hdr[x].next))
    <3> SUFFICES ASSUME NEW x \in Blocks, hdr[x].free, IsFreeBlock(hdr[x].next) PROVE FALSE
      OBVIOUS
    <3>1. hdr[x].next = blk
      BY <1>2
    <3>2. a = x
      BY <1>1, <3>1, LinksInverse DEF IInv
    <3>3. x # Null
      BY HeaderTypes DEF IInv, Null
    <3> QED BY <1>4, <3>2, <3>3 DEF MergesBack, IsFreeBlock
  <2>4. AlmostMerged'
    BY <2>1, <2>3 DEF AlmostMerged, IsFreeBlock, Blocks
  <2> QED BY <2>2, <2>4 DEF IInv
<1> QED BY <1>3, <1>4

---------------------------------------------------------------------------
LEMMA InitEstablishes == ASSUME HeapAssumption, Init PROVE IInv
<1>1. /\ Blocks = {0} /\ hdr[0] = Header(HeapSize - Hdr, TRUE, Null, Null)
      /\ hdr = [b \in {0} |-> Header(HeapSize - Hdr, TRUE, Null, Null)]
  BY DEF Init, Blocks
<1>2. /\ hdr[0].size = HeapSize - Hdr /\ hdr[0].free = TRUE
      /\ hdr[0].next = Null /\ hdr[0].prev = Null
      /\ hdr[0] \in HeaderType
  BY <1>1 DEF Header, HeaderType, HeapAssumption
<1>3. TypeOK
  <2>1. hdr \in [Blocks -> HeaderType]
    BY <1>1, <1>2
  <2>2. Blocks \subseteq Addresses
    BY <1>1 DEF Addresses, HeapAssumption
  <2>3. /\ pc \in {"idle", "next", "prev"}
        /\ blk \in Blocks
    BY <1>1 DEF Init
  <2>4. smashed \in BOOLEAN
    BY DEF Init
  <2> QED BY <2>1, <2>2, <2>3, <2>4 DEF TypeOK
<1>4. End(0) = HeapSize
  BY <1>2 DEF End, HeapAssumption
<1>5. Tiled
  <2>1. Disjoint
    BY <1>1 DEF Disjoint
  <2>2. LinkedForward
    BY <1>1, <1>2, <1>4 DEF LinkedForward
  <2>3. LinkedBack
    BY <1>1, <1>2 DEF LinkedBack
  <2> QED BY <1>1, <2>1, <2>2, <2>3 DEF Tiled
<1>6. Merging /\ AlmostMerged
  BY <1>1, <1>2 DEF Init, Merging, AlmostMerged, IsFreeBlock
<1> QED BY <1>1, <1>3, <1>5, <1>6 DEF IInv

LEMMA StutterKeeps == ASSUME IInv, UNCHANGED vars PROVE IInv'
BY DEF IInv, vars, TypeOK, Tiled, Disjoint, LinkedForward, LinkedBack, End, Blocks,
       Merging, AlmostMerged, IsFreeBlock, InUse

(* The inductive invariant: at every step of kmalloc and kfree the list of *)
(* blocks tiles the region, up to a split that wraps; kfree's loop knows   *)
(* what it has merged.                                                     *)
THEOREM HeapInvariant == Spec => []IInv
<1>1. Init => IInv
  BY HeapAssumption, InitEstablishes
<1>2. IInv /\ [Next]_vars => IInv'
  <2> SUFFICES ASSUME IInv, [Next]_vars PROVE IInv'
    OBVIOUS
  <2>1. ASSUME NEW n \in Requests, Kmalloc(n) PROVE IInv'
    BY <2>1, HeapAssumption, KmallocKeeps
  <2>2. ASSUME NEW b \in Blocks, Kfree(b) PROVE IInv'
    BY <2>2, HeapAssumption, KfreeKeeps
  <2>3. CASE MergeNext
    BY <2>3, HeapAssumption, MergeNextKeeps
  <2>4. CASE MergeNextDone
    BY <2>4, HeapAssumption, MergeNextDoneKeeps
  <2>5. CASE MergePrev
    BY <2>5, HeapAssumption, MergePrevKeeps
  <2>6. CASE UNCHANGED vars
    BY <2>6, StutterKeeps
  <2> QED BY <2>1, <2>2, <2>3, <2>4, <2>5, <2>6 DEF Next
<1> QED BY <1>1, <1>2, PTL DEF Spec

(* Header fields stay in the range of their types, whatever is requested.  *)
THEOREM HeapTypes == Spec => []TypeOK
<1>1. IInv => TypeOK
  BY DEF IInv
<1> QED BY <1>1, HeapInvariant, PTL

(* The list tiles the region at every step of kmalloc and kfree, as long   *)
(* as no split has wrapped.                                                *)
THEOREM HeapTiled == Spec => []Tiled
<1>1. IInv => Tiled
  BY DEF IInv
<1> QED BY <1>1, HeapInvariant, PTL

(* When kfree has returned no two free blocks are neighbours.              *)
THEOREM HeapNoAdjacentFree == Spec => []NoAdjacentFree
<1>1. IInv => NoAdjacentFree
  BY DEF IInv, AlmostMerged, NoAdjacentFree
<1> QED BY <1>1, HeapInvariant, PTL

(* A heap in which everything was freed is one block: behind block 0 there *)
(* could only be a free one, so there is none and block 0 is the region.   *)
THEOREM HeapCoalescesFully == Spec => []CoalescesFully
<1>1. IInv => CoalescesFully
  <2> SUFFICES ASSUME IInv, pc = "idle", ~smashed, \A b \in Blocks : hdr[b].free
               PROVE  Blocks = {0}
    BY DEF CoalescesFully
  <2>1. 0 \in Blocks /\ Disjoint /\ LinkedForward /\ TypeOK
    BY DEF IInv, Tiled
  <2>2. hdr[0].next = Null
    <3> SUFFICES ASSUME hdr[0].next # Null PROVE FALSE
      OBVIOUS
    <3>1. hdr[0].next \in Blocks
      BY <2>1 DEF LinkedForward
    <3>2. hdr[0].free /\ IsFreeBlock(hdr[0].next)
      BY <2>1, <3>1 DEF IsFreeBlock
    <3> QED BY <2>1, <3>2 DEF IInv, AlmostMerged
  <2>3. End(0) = HeapSize
    BY <2>1, <2>2 DEF LinkedForward
  <2>4. ASSUME NEW b \in Blocks, b # 0 PROVE FALSE
    <3>1. b \in Nat /\ End(b) >= b + Hdr /\ End(b) \in Nat /\ End(b) <= HeapSize
      BY <2>1, HeapAssumption, HeaderTypes, EndInside
    <3>2. 0 < b
      BY <2>4, <3>1
    <3>3. HeapSize <= b
      BY <2>1, <2>3, <3>2 DEF Disjoint
    <3> QED BY <3>1, <3>3, HeapAssumption DEF HeapAssumption
  <2> QED BY <2>1, <2>4
<1> QED BY <1>1, HeapInvariant, PTL

---------------------------------------------------------------------------
(* A split that does not wrap leaves the other blocks as they are.         *)
LEMMA SplitSpares ==
    ASSUME HeapAssumption, IInv, ~smashed, NEW b \in Blocks, NEW n \in Nat,
           Fits(b, n), WorthSplitting(b, n), Split(b, n), ~smashed',
           NEW c \in Blocks, c # b
    PROVE  c \in Blocks' /\ hdr'[c].free = hdr[c].free /\ hdr'[c].size = hdr[c].size
<1> DEFINE nb == Behind(b, n)
           clobbered == {x \in Blocks \ {b} : x < nb + Hdr /\ nb < x + Hdr}
<1>1. ~(hdr[b].size - n < Hdr)
  BY DEF Split
<1>2. hdr[b].size - n >= Hdr
  BY <1>1, HeaderTypes DEF IInv, HeapAssumption
<1>3. /\ nb \in Int /\ nb >= b + Hdr /\ nb + Hdr < End(b)
      /\ End(c) <= b \/ End(b) <= c
  BY <1>2, SplitPlace DEF Addresses
<1>4. /\ b \in Nat /\ c \in Nat /\ End(c) >= c + Hdr
      /\ End(b) \in Nat /\ End(c) \in Nat
      /\ hdr[c] \in HeaderType
  BY HeaderTypes DEF IInv
<1>5. c \notin clobbered /\ c # nb
  BY <1>3, <1>4 DEF HeapAssumption
<1>6. c \in Blocks' /\ hdr'[c] = IF c = hdr[b].next THEN [hdr[c] EXCEPT !.prev = nb] ELSE hdr[c]
  BY <1>5 DEF Split, Blocks
<1> QED BY <1>4, <1>6 DEF HeaderType

(* Whatever is allocated, split, freed and merged, a block in use keeps    *)
(* its place, its size and its being in use until it is freed itself,      *)
(* unless a split wraps.                                                   *)
THEOREM HeapAllocationsKept == Spec => AllocationsKept
<1> DEFINE P == \A b \in Blocks : InUse(b) /\ ~smashed' => Kept(b) \/ (pc' = "next" /\ blk' = b)
<1>1. IInv /\ [Next]_vars => [P]_vars
  <2> SUFFICES ASSUME IInv, Next, NEW c \in Blocks, ~hdr[c].free, ~smashed'
               PROVE  \/ c \in Blocks' /\ ~hdr'[c].free /\ hdr'[c].size = hdr[c].size
                      \/ pc' = "next" /\ blk' = c
    BY DEF InUse, Kept
  <2>1. hdr \in [Blocks -> HeaderType] /\ hdr[c] \in HeaderType
    BY DEF IInv, TypeOK
  <2>2. ASSUME NEW n \in Requests, Kmalloc(n)
        PROVE  c \in Blocks' /\ ~hdr'[c].free /\ hdr'[c].size = hdr[c].size
    <3>1. PICK b \in Blocks :
            /\ Fits(b, Align8(n))
            /\ IF WorthSplitting(b, Align8(n))
                 THEN Split(b, Align8(n))
                 ELSE hdr' = [hdr EXCEPT ![b].free = FALSE] /\ UNCHANGED smashed
      BY <2>2 DEF Kmalloc, FirstFit
    <3>2. c # b /\ ~smashed
      BY <2>2, <3>1 DEF Fits, Kmalloc
    <3>3. Align8(n) \in Nat
      BY HeapAssumption, AlignType DEF HeapAssumption
    <3>4. CASE WorthSplitting(b, Align8(n))
      <4>1. c \in Blocks' /\ hdr'[c].free = hdr[c].free /\ hdr'[c].size = hdr[c].size
        BY <3>1, <3>2, <3>3, <3>4, HeapAssumption, SplitSpares
      <4> QED BY <4>1
    <3>5. CASE ~WorthSplitting(b, Align8(n))
      BY <2>1, <3>1, <3>2, <3>5 DEF Blocks
    <3> QED BY <3>4, <3>5
  <2>3. ASSUME NEW b \in Blocks, Kfree(b)
        PROVE  \/ c \in Blocks' /\ ~hdr'[c].free /\ hdr'[c].size = hdr[c].size
               \/ pc' = "next" /\ blk' = c
    <3>1. CASE c = b
      BY <2>3, <3>1 DEF Kfree
    <3>2. CASE c # b
      <4>1. c \in Blocks' /\ hdr'[c] = hdr[c]
        BY <2>1, <2>3, <3>2 DEF Kfree, Blocks
      <4> QED BY <4>1
    <3> QED BY <3>1, <3>2
  <2>4. ASSUME NEW a \in Blocks, NEW b \in Blocks, hdr[a].next = b, Absorb(a, b),
               hdr[a].free, hdr[b].free, ~smashed, UNCHANGED smashed
        PROVE  c \in Blocks' /\ ~hdr'[c].free /\ hdr'[c].size = hdr[c].size
    <3>1. c # a /\ c # b
      BY <2>4
    <3>2. c \in Blocks' /\ hdr'[c].free = hdr[c].free /\ hdr'[c].size = hdr[c].size
      BY <2>4, <3>1, HeapAssumption, AbsorbKeeps
    <3> QED BY <3>2
  <2>5. CASE MergeNext
    <3> DEFINE d == hdr[blk].next
    <3>1. /\ blk \in Blocks /\ hdr[blk].free /\ ~smashed /\ UNCHANGED smashed
          /\ d \in Blocks /\ hdr[d].free /\ Absorb(blk, d)
      BY <2>5 DEF MergeNext, MergesNext, IsFreeBlock, IInv, TypeOK, Merging, Tiled, LinkedForward
    <3> QED BY <2>4, <3>1
  <2>6. CASE MergeNextDone
    BY <2>6 DEF MergeNextDone, Blocks
  <2>7. CASE MergePrev
    <3> DEFINE a == hdr[blk].prev
    <3>1. /\ blk \in Blocks /\ hdr[blk].free /\ ~smashed /\ UNCHANGED smashed
      BY <2>7 DEF MergePrev, IInv, TypeOK, Merging
    <3>2. CASE MergesBack(blk)
      <4>1. a \in Blocks /\ hdr[a].free /\ Absorb(a, blk)
        BY <2>7, <3>1, <3>2 DEF MergePrev, MergesBack, IsFreeBlock, IInv, Tiled, LinkedBack
      <4>2. hdr[a].next = blk
        BY <3>1, <4>1, HeapAssumption, LinksInverse DEF IInv, Tiled
      <4> QED BY <2>4, <3>1, <4>1, <4>2
    <3>3. CASE ~MergesBack(blk)
      BY <2>7, <3>3 DEF MergePrev, Blocks
    <3> QED BY <3>2, <3>3
  <2> QED BY <2>2, <2>3, <2>5, <2>6, <2>7 DEF Next
<1> QED BY <1>1, HeapInvariant, PTL DEF Spec, AllocationsKept
=============================================================================
