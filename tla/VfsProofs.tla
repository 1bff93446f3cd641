----------------------------- MODULE VfsProofs -----------------------------
(***************************************************************************)
(* Proofs about the nodes of Vfs, for a heap and a mount table of any      *)
(* size; and the types of all parts of Services.                           *)
(***************************************************************************)
EXTENDS ServicesProofs

---------------------------------------------------------------------------
(* What can be left of a command: the suffixes of Commands, and the ends   *)
(* that a failed test jumps to.                                            *)

Finished == <<>>
FreeD == <<"free_d">>
FreeC == <<"free_c">>
LoseBoth == <<"free_c", "lose_d">>
Read1 == <<"open_c", "free_c">>
List1 ==
    <<"open_d", "a_directory", "more", "child", "free_c", "more", "child",
      "free_c", "free_d">>
List2 ==
    <<"a_directory", "more", "child", "free_c", "more", "child", "free_c",
      "free_d">>
List3 == <<"more", "child", "free_c", "more", "child", "free_c", "free_d">>
List4 == <<"child", "free_c", "more", "child", "free_c", "free_d">>
List5 == <<"free_c", "more", "child", "free_c", "free_d">>
List6 == <<"more", "child", "free_c", "free_d">>
List7 == <<"child", "free_c", "free_d">>
List8 == <<"free_c", "free_d">>
Change1 == <<"open_dir", "free_d">>
Store1 ==
    <<"open_dir", "a_directory", "child", "exists_or_made", "free_c",
      "free_d", "open_dir", "child", "free_d", "free_c">>
Store2 ==
    <<"a_directory", "child", "exists_or_made", "free_c", "free_d",
      "open_dir", "child", "free_d", "free_c">>
Store3 ==
    <<"child", "exists_or_made", "free_c", "free_d", "open_dir", "child",
      "free_d", "free_c">>
Store4 ==
    <<"exists_or_made", "free_c", "free_d", "open_dir", "child", "free_d",
      "free_c">>
Store5 == <<"free_c", "free_d", "open_dir", "child", "free_d", "free_c">>
Store6 == <<"free_d", "open_dir", "child", "free_d", "free_c">>
Store7 == <<"open_dir", "child", "free_d", "free_c">>
Store8 == <<"child", "free_d", "free_c">>
Store9 == <<"free_d", "free_c">>
Copy1 ==
    <<"open_c", "a_file", "free_c", "open_dir", "writable", "free_d",
      "open_dir", "child", "free_d", "free_c">>
Copy2 ==
    <<"a_file", "free_c", "open_dir", "writable", "free_d", "open_dir",
      "child", "free_d", "free_c">>
Copy3 ==
    <<"free_c", "open_dir", "writable", "free_d", "open_dir", "child",
      "free_d", "free_c">>
Copy4 ==
    <<"open_dir", "writable", "free_d", "open_dir", "child", "free_d",
      "free_c">>
Copy5 == <<"writable", "free_d", "open_dir", "child", "free_d", "free_c">>
Save1 ==
    <<"open_dir", "found", "open_dir", "opened", "child", "saved",
      "open_dir", "child", "free_c", "lose_d">>
Save2 ==
    <<"found", "open_dir", "opened", "child", "saved", "open_dir",
      "child", "free_c", "lose_d">>
Save3 ==
    <<"open_dir", "opened", "child", "saved", "open_dir", "child",
      "free_c", "lose_d">>
Save4 ==
    <<"opened", "child", "saved", "open_dir", "child", "free_c",
      "lose_d">>
Save5 == <<"child", "saved", "open_dir", "child", "free_c", "lose_d">>
Save6 == <<"saved", "open_dir", "child", "free_c", "lose_d">>
Save7 == <<"open_dir", "child", "free_c", "lose_d">>
Save8 == <<"child", "free_c", "lose_d">>
Save10 == <<"lose_d">>

(* The same by what the command holds there: nothing, a directory in d, a  *)
(* child or file in c, or both.                                            *)
HoldsNothing ==
    {Finished, Read1, List1, Change1, Store1, Store7, Copy1, Copy4, Save1,
     Save3, Save7}
HoldsDir ==
    {FreeD, List2, List3, List4, List6, List7, Store2, Store3, Store6,
     Store8, Copy5, Save2, Save4, Save5, Save8, Save10}
HoldsChild ==
    {FreeC, Copy2, Copy3}
HoldsBoth ==
    {LoseBoth, List5, List8, Store4, Store5, Store9, Save6}

Follows(prog, step, rest) == prog # <<>> /\ Head(prog) = step /\ Tail(prog) = rest

(* The steps from each of these to the next.                               *)
LEMMA NothingSteps ==
    /\ Follows(Read1, "open_c", FreeC) /\ Follows(List1, "open_d", List2)
    /\ Follows(Change1, "open_dir", FreeD) /\ Follows(Store1, "open_dir", Store2)
    /\ Follows(Store7, "open_dir", Store8) /\ Follows(Copy1, "open_c", Copy2)
    /\ Follows(Copy4, "open_dir", Copy5) /\ Follows(Save1, "open_dir", Save2)
    /\ Follows(Save3, "open_dir", Save4) /\ Follows(Save7, "open_dir", Save8)
<1>1. Follows(Read1, "open_c", FreeC) /\ Follows(List1, "open_d", List2)
  BY DEF Follows, FreeC, List1, List2, Read1
<1>2. Follows(Change1, "open_dir", FreeD) /\ Follows(Store1, "open_dir", Store2)
  BY DEF Follows, Change1, FreeD, Store1, Store2
<1>3. Follows(Store7, "open_dir", Store8) /\ Follows(Copy1, "open_c", Copy2)
  BY DEF Follows, Copy1, Copy2, Store7, Store8
<1>4. Follows(Copy4, "open_dir", Copy5) /\ Follows(Save1, "open_dir", Save2)
  BY DEF Follows, Copy4, Copy5, Save1, Save2
<1>5. Follows(Save3, "open_dir", Save4) /\ Follows(Save7, "open_dir", Save8)
  BY DEF Follows, Save3, Save4, Save7, Save8
<1> QED BY <1>1, <1>2, <1>3, <1>4, <1>5

LEMMA DirSteps ==
    /\ Follows(FreeD, "free_d", Finished) /\ Follows(List2, "a_directory", List3)
    /\ Follows(List3, "more", List4) /\ Follows(List4, "child", List5)
    /\ Follows(List6, "more", List7) /\ Follows(List7, "child", List8)
    /\ Follows(Store2, "a_directory", Store3) /\ Follows(Store3, "child", Store4)
    /\ Follows(Store6, "free_d", Store7) /\ Follows(Store8, "child", Store9)
    /\ Follows(Copy5, "writable", Store6) /\ Follows(Save2, "found", Save3)
    /\ Follows(Save4, "opened", Save5) /\ Follows(Save5, "child", Save6)
    /\ Follows(Save8, "child", LoseBoth) /\ Follows(Save10, "lose_d", Finished)
<1>1. Follows(FreeD, "free_d", Finished) /\ Follows(List2, "a_directory", List3)
  BY DEF Follows, Finished, FreeD, List2, List3
<1>2. Follows(List3, "more", List4) /\ Follows(List4, "child", List5)
  BY DEF Follows, List3, List4, List5
<1>3. Follows(List6, "more", List7) /\ Follows(List7, "child", List8)
  BY DEF Follows, List6, List7, List8
<1>4. Follows(Store2, "a_directory", Store3) /\ Follows(Store3, "child", Store4)
  BY DEF Follows, Store2, Store3, Store4
<1>5. Follows(Store6, "free_d", Store7) /\ Follows(Store8, "child", Store9)
  BY DEF Follows, Store6, Store7, Store8, Store9
<1>6. Follows(Copy5, "writable", Store6) /\ Follows(Save2, "found", Save3)
  BY DEF Follows, Copy5, Save2, Save3, Store6
<1>7. Follows(Save4, "opened", Save5) /\ Follows(Save5, "child", Save6)
  BY DEF Follows, Save4, Save5, Save6
<1>8. Follows(Save8, "child", LoseBoth) /\ Follows(Save10, "lose_d", Finished)
  BY DEF Follows, Finished, LoseBoth, Save10, Save8
<1> QED BY <1>1, <1>2, <1>3, <1>4, <1>5, <1>6, <1>7, <1>8

LEMMA ChildSteps ==
    /\ Follows(FreeC, "free_c", Finished) /\ Follows(Copy2, "a_file", Copy3)
    /\ Follows(Copy3, "free_c", Copy4)
BY DEF Follows, Copy2, Copy3, Copy4, Finished, FreeC

LEMMA BothSteps ==
    /\ Follows(LoseBoth, "free_c", Save10) /\ Follows(List5, "free_c", List6)
    /\ Follows(List8, "free_c", FreeD) /\ Follows(Store4, "exists_or_made", Store5)
    /\ Follows(Store5, "free_c", Store6) /\ Follows(Store9, "free_d", FreeC)
    /\ Follows(Save6, "saved", Save7)
<1>1. Follows(LoseBoth, "free_c", Save10) /\ Follows(List5, "free_c", List6)
  BY DEF Follows, List5, List6, LoseBoth, Save10
<1>2. Follows(List8, "free_c", FreeD) /\ Follows(Store4, "exists_or_made", Store5)
  BY DEF Follows, FreeD, List8, Store4, Store5
<1>3. Follows(Store5, "free_c", Store6) /\ Follows(Store9, "free_d", FreeC)
  BY DEF Follows, FreeC, Store5, Store6, Store9
<1>4. Follows(Save6, "saved", Save7)
  BY DEF Follows, Save6, Save7
<1> QED BY <1>1, <1>2, <1>3, <1>4


LEMMA ProgramsStart ==
    ASSUME NEW name \in DOMAIN Commands
    PROVE  Commands[name] \in HoldsNothing
<1>1. /\ Commands.read = Read1 /\ Commands.list = List1 /\ Commands.change = Change1
      /\ Commands.store = Store1 /\ Commands.copy = Copy1 /\ Commands.save = Save1
  BY DEF Commands, Read1, List1, Change1, Store1, Copy1, Save1
<1>2. name \in {"read", "list", "change", "store", "copy", "save"}
  BY DEF Commands
<1> QED BY <1>1, <1>2 DEF HoldsNothing

(* What a step leads to, from a command that holds nothing,                *)
LEMMA NothingTable ==
    ASSUME NEW prog \in HoldsNothing, prog # <<>>
    PROVE  \/ Head(prog) = "open_c" /\ Tail(prog) \in HoldsChild
           \/ Head(prog) \in {"open_d", "open_dir"} /\ Tail(prog) \in HoldsDir
BY NothingSteps DEF Finished, Follows, HoldsNothing, HoldsDir, HoldsChild

(* a directory,                                                            *)
LEMMA DirTable ==
    ASSUME NEW prog \in HoldsDir
    PROVE  /\ prog # <<>>
           /\ \/ /\ Head(prog) \in {"a_directory", "more", "writable", "opened"}
                 /\ Tail(prog) \in HoldsDir
              \/ Head(prog) = "child" /\ Tail(prog) \in HoldsBoth
              \/ Head(prog) \in {"free_d", "lose_d"} /\ Tail(prog) \in HoldsNothing
              \/ /\ Head(prog) = "found"
                 /\ Tail(prog) \in HoldsNothing /\ Tail(Tail(prog)) \in HoldsDir
<1>1. Tail(Save3) = Save4
  BY NothingSteps DEF Follows
<1>2. CASE prog \in {List2, List3, List6, Store2, Copy5, Save4}
  BY <1>2, DirSteps DEF Follows, HoldsDir
<1>3. CASE prog \in {List4, List7, Store3, Store8, Save5, Save8}
  BY <1>3, DirSteps DEF Follows, HoldsBoth
<1>4. CASE prog \in {FreeD, Store6, Save10}
  BY <1>4, DirSteps DEF Follows, HoldsNothing
<1>5. CASE prog = Save2
  BY <1>1, <1>5, DirSteps DEF Follows, HoldsNothing, HoldsDir
<1> QED BY <1>2, <1>3, <1>4, <1>5 DEF HoldsDir

(* a child,                                                                *)
LEMMA ChildTable ==
    ASSUME NEW prog \in HoldsChild
    PROVE  /\ prog # <<>>
           /\ \/ Head(prog) = "a_file" /\ Tail(prog) \in HoldsChild
              \/ Head(prog) = "free_c" /\ Tail(prog) \in HoldsNothing
BY ChildSteps DEF Follows, HoldsNothing, HoldsChild

(* or both.                                                                *)
LEMMA BothTable ==
    ASSUME NEW prog \in HoldsBoth
    PROVE  /\ prog # <<>>
           /\ \/ Head(prog) = "free_c" /\ Tail(prog) \in HoldsDir
              \/ Head(prog) = "free_d" /\ Tail(prog) \in HoldsChild
              \/ Head(prog) = "exists_or_made" /\ Tail(prog) \in HoldsBoth
              \/ Head(prog) = "saved" /\ Tail(prog) \in HoldsNothing
BY BothSteps DEF Follows, HoldsDir, HoldsChild, HoldsNothing, HoldsBoth

LEMMA Ends ==
    /\ <<>> \in HoldsNothing /\ <<"free_d">> \in HoldsDir
    /\ <<"free_c">> \in HoldsChild /\ <<"free_c", "lose_d">> \in HoldsBoth
BY DEF HoldsNothing, HoldsDir, HoldsChild, HoldsBoth, Finished, FreeD, FreeC, LoseBoth

---------------------------------------------------------------------------
(* The nodes.                                                              *)

(* The inductive invariant: what is in hand is what the rest of the        *)
(* command says, and while vfs_open walks the command holds nothing else;  *)
(* the node walked through is a mounted root or vfs_open's own.            *)
InHand(prog, var) ==
    \/ prog \in HoldsNothing /\ var.c = Null /\ var.d = Null
    \/ prog \in HoldsDir /\ var.c = Null
    \/ prog \in HoldsChild /\ var.d = Null
    \/ prog \in HoldsBoth

Awaits(prog, into) ==
    /\ prog \in HoldsNothing /\ prog # <<>>
    /\ \/ into = "c" /\ Head(prog) = "open_c"
       \/ into = "d" /\ Head(prog) \in {"open_d", "open_dir"}

WalkHolds ==
    vfsWalk # NoWalk =>
        /\ vfsWalk = [into |-> vfsWalk.into, walked |-> vfsWalk.walked, rest |-> vfsWalk.rest,
                      cur |-> vfsWalk.cur, owned |-> vfsWalk.owned]
        /\ vfsWalk.into \in {"c", "d"} /\ vfsWalk.owned \in BOOLEAN
        /\ vfsWalk.cur \in Heap \cup Static
        /\ Awaits(vfsProg, vfsWalk.into) /\ vfsVar.c = Null /\ vfsVar.d = Null
        /\ IF vfsWalk.owned THEN vfsWalk.cur \notin MountRoots \cap Heap
           ELSE vfsWalk.cur \in MountRoots \cup {Root}

MountSet == [path : Paths, node : Heap \cup {Root}]
NodeTypes == VfsTypeOK /\ vfsLost \subseteq Heap /\ vfsMounts \in Seq(MountSet)

VfsInv == NodeTypes /\ InHand(vfsProg, vfsVar) /\ WalkHolds /\ NodesOwned

LEMMA MountRootsAre ==
    ASSUME NodeTypes
    PROVE  MountRoots \subseteq Heap \cup {Root}
<1>1. \A i \in DOMAIN vfsMounts : vfsMounts[i] \in MountSet
  BY ElementOfSeq DEF NodeTypes
<1> QED BY <1>1 DEF MountRoots, MountSet

(* A look-up in the mount table finds a mounted root or nothing.           *)
LEMMA MountAtIs ==
    ASSUME NodeTypes, NEW path
    PROVE  MountAt(path) \in MountRoots \cup {Null}
<1> DEFINE I == {i \in 1 .. Len(vfsMounts) : vfsMounts[i].path = path}
<1>1. MountAt(path) = LET i == IF I # {} THEN Min(I) ELSE 0
                      IN  IF i = 0 THEN Null ELSE vfsMounts[i].node
  BY DEF MountAt, SelectInSeq
<1>2. I \subseteq DOMAIN vfsMounts /\ I \subseteq Nat
  BY DEF NodeTypes
<1> HIDE DEF I
<1>3. I # {} => Min(I) \in I
  <2> SUFFICES ASSUME I # {} PROVE Min(I) \in I
    OBVIOUS
  <2>1. \E x \in I : \A y \in I : x <= y
    BY <1>2, LeastElement
  <2> QED BY <2>1 DEF Min
<1> QED BY <1>1, <1>2, <1>3 DEF MountRoots

LEMMA FreshNode ==
    ASSUME Heap \ vfsLive # {}
    PROVE  Min(Heap \ vfsLive) \in Heap \ vfsLive
<1>1. \E x \in Heap \ vfsLive : \A y \in Heap \ vfsLive : x <= y
  <2>1. Heap \ vfsLive \subseteq Nat
    BY VfsAssumption DEF VfsAssumption, Heap
  <2> QED BY <2>1, LeastElement
<1> QED BY <1>1 DEF Min

(* What FindDir finds is part of the RAM disk, or new.                     *)
LEMMA FindDirIs ==
    ASSUME NodeTypes, ~vfsTwice, NEW dir, NEW name, NEW old, NEW child,
           old \in Heap => old \in vfsLive,
           FindDir(dir, name, old, child)
    PROVE  /\ ~vfsTwice' /\ vfsDirs' \subseteq vfsLive'
           /\ \/ child \in {Etc, Motd, Null} /\ vfsLive' = vfsLive \ {old}
              \/ child \in Heap \ vfsLive /\ vfsLive' = (vfsLive \cup {child}) \ {old}
<1>1. ~vfsTwice'
  <2>1. ~ (old \in Heap \ vfsLive)
    OBVIOUS
  <2>2. vfsTwice' = (vfsTwice \/ old \in Heap \ vfsLive)
    BY DEF FindDir
  <2> QED BY <2>1, <2>2, Zenon
<1>2. vfsDirs \subseteq vfsLive
  BY DEF NodeTypes, VfsTypeOK
<1>3. CASE /\ dir \in Static \cup {Null} \/ ~IsDir(dir)
           /\ child = IF dir \in Static THEN StaticChild(dir, name) ELSE Null
           /\ vfsLive' = vfsLive \ {old} /\ vfsDirs' = vfsDirs \ {old}
  <2>1. child \in {Etc, Motd, Null}
    BY <1>3 DEF StaticChild
  <2> QED BY <1>1, <1>2, <1>3, <2>1
<1>4. CASE child = Null /\ vfsLive' = vfsLive \ {old} /\ vfsDirs' = vfsDirs \ {old}
  BY <1>1, <1>2, <1>4
<1>5. CASE /\ Heap \ vfsLive # {} /\ child = Min(Heap \ vfsLive)
           /\ vfsLive' = (vfsLive \cup {child}) \ {old}
           /\ \E new \in {{}, {child}} : vfsDirs' = (vfsDirs \cup new) \ {old}
  <2>1. child \in Heap \ vfsLive
    BY <1>5, FreshNode
  <2>2. vfsDirs' \subseteq vfsLive'
    BY <1>2, <1>5
  <2> QED BY <1>1, <1>5, <2>1, <2>2
<1> QED BY <1>3, <1>4, <1>5 DEF FindDir

LEMMA KfreeFrees ==
    ASSUME ~vfsTwice, NEW n, n \in Heap => n \in vfsLive, Kfree(n)
    PROVE  ~vfsTwice' /\ vfsLive' = vfsLive \ {n} /\ vfsDirs' = vfsDirs \ {n}
<1>1. ~ (n \in Heap \ vfsLive)
  OBVIOUS
<1>2. vfsTwice' = (vfsTwice \/ n \in Heap \ vfsLive)
  BY DEF Kfree
<1>3. ~vfsTwice'
  BY <1>1, <1>2, Zenon
<1> QED BY <1>3 DEF Kfree

(* What a step of a command finds in hand, and what it leads to.           *)
LEMMA Hands ==
    ASSUME InHand(vfsProg, vfsVar), vfsProg # <<>>
    PROVE  LET step == Head(vfsProg)
               rest == Tail(vfsProg)
           IN  /\ step \in {"open_c", "open_d", "open_dir"} =>
                      /\ vfsVar.c = Null /\ vfsVar.d = Null /\ vfsProg \in HoldsNothing
                      /\ IF step = "open_c" THEN rest \in HoldsChild ELSE rest \in HoldsDir
               /\ step = "child" => vfsVar.c = Null /\ rest \in HoldsBoth
               /\ step = "free_c" => rest \in HoldsDir \/ (vfsVar.d = Null /\ rest \in HoldsNothing)
               /\ step = "free_d" => rest \in HoldsChild \/ (vfsVar.c = Null /\ rest \in HoldsNothing)
               /\ step = "lose_d" => vfsVar.c = Null /\ rest \in HoldsNothing
               /\ step = "saved" => rest \in HoldsNothing
               /\ step \in {"a_directory", "more", "writable", "opened"} =>
                      vfsVar.c = Null /\ rest \in HoldsDir
               /\ step = "found" =>
                      vfsVar.c = Null /\ rest \in HoldsNothing /\ Tail(rest) \in HoldsDir
               /\ step = "a_file" => vfsVar.d = Null /\ rest \in HoldsChild
               /\ step = "exists_or_made" => rest \in HoldsBoth
<1>1. CASE vfsProg \in HoldsNothing /\ vfsVar.c = Null /\ vfsVar.d = Null
  BY <1>1, NothingTable
<1>2. CASE vfsProg \in HoldsDir /\ vfsVar.c = Null
  BY <1>2, DirTable
<1>3. CASE vfsProg \in HoldsChild /\ vfsVar.d = Null
  BY <1>3, ChildTable
<1>4. CASE vfsProg \in HoldsBoth
  <2>1. \/ Head(vfsProg) = "free_c" /\ Tail(vfsProg) \in HoldsDir
        \/ Head(vfsProg) = "free_d" /\ Tail(vfsProg) \in HoldsChild
        \/ Head(vfsProg) = "exists_or_made" /\ Tail(vfsProg) \in HoldsBoth
        \/ Head(vfsProg) = "saved" /\ Tail(vfsProg) \in HoldsNothing
    BY <1>4, BothTable
  <2> QED BY <2>1
<1> QED BY <1>1, <1>2, <1>3, <1>4 DEF InHand

(* A command that has returned holds nothing.                              *)
LEMMA IdleHolds ==
    ASSUME VfsInv, vfsProg = <<>>
    PROVE  vfsVar.c = Null /\ vfsVar.d = Null /\ vfsWalk = NoWalk
BY DirTable, ChildTable, BothTable DEF VfsInv, InHand, WalkHolds, Awaits

LEMMA HeapNodes == Heap \cap {Null, Root, Etc, Motd} = {} /\ Root \in Static
BY VfsAssumption DEF VfsAssumption, Heap, Null, Root, Etc, Motd, Static

(* vfs_open returns n, to a command that holds nothing yet.                *)
LEMMA DoneHolds ==
    ASSUME VfsInv, NEW into, Awaits(vfsProg, into), vfsVar.c = Null, vfsVar.d = Null,
           NEW n \in Heap \cup Static \cup {Null}, Done(into, n),
           UNCHANGED <<vfsMounts, vfsPath, vfsLost>>, ~vfsTwice', vfsDirs' \subseteq vfsLive',
           vfsLive' = (MountRoots \cap Heap) \cup vfsLost \cup ({n} \cap Heap),
           n \notin vfsLost
    PROVE  VfsInv'
<1>1. /\ vfsVar' \in [{"c", "d"} -> Heap \cup Static \cup {Null}]
      /\ \/ into = "c" /\ vfsVar'.c = n /\ vfsVar'.d = Null
         \/ into = "d" /\ vfsVar'.d = n /\ vfsVar'.c = Null
  BY DEF VfsInv, NodeTypes, VfsTypeOK, Done, Awaits
<1>2. vfsWalk' = NoWalk /\ vfsProg' = Tail(vfsProg)
  BY DEF Done
<1>3. MountRoots' = MountRoots /\ MountRoots \subseteq Heap \cup {Root}
  BY MountRootsAre DEF MountRoots, VfsInv
<1>4. Held' = {n} \cap Heap
  BY <1>1, <1>2, HeapNodes DEF Held
<1>5. NodeTypes'
  <2>1. vfsLive' \subseteq Heap
    BY DEF VfsInv, NodeTypes
  <2> QED BY <1>1, <2>1 DEF VfsInv, NodeTypes, VfsTypeOK
<1>6. /\ InHand(vfsProg', vfsVar')
      /\ vfsProg' # <<>>
  <2>1. /\ Head(vfsProg) = "open_c" => Tail(vfsProg) \in HoldsChild
        /\ Head(vfsProg) \in {"open_d", "open_dir"} => Tail(vfsProg) \in HoldsDir
    BY NothingTable DEF Awaits
  <2>2. \/ vfsProg' \in HoldsChild /\ vfsVar'.d = Null
        \/ vfsProg' \in HoldsDir /\ vfsVar'.c = Null
    BY <1>1, <1>2, <2>1 DEF Awaits
  <2> QED BY <2>2, DirTable, ChildTable DEF InHand
<1>7. WalkHolds'
  BY <1>2 DEF WalkHolds
<1>8. NodesOwned'
  <2>1. MountRoots \cap vfsLost = {}
    BY DEF VfsInv, NodesOwned
  <2>2. vfsVar'.c = vfsVar'.d => vfsVar'.c \notin Heap \ MountRoots
    BY <1>1, HeapNodes
  <2>3. vfsLive' = (MountRoots' \cap Heap) \cup vfsLost' \cup Held'
    BY <1>3, <1>4
  <2>4. MountRoots' \cap vfsLost' = {} /\ Held' \cap vfsLost' = {}
    BY <1>3, <1>4, <2>1
  <2> QED BY <1>3, <1>6, <2>2, <2>3, <2>4 DEF NodesOwned
<1> QED BY <1>5, <1>6, <1>7, <1>8 DEF VfsInv

(* The loop of vfs_open goes on from n, or ends.                           *)
Went(n, owned) ==
    IF n # Null /\ Tail(vfsWalk.rest) # <<>>
    THEN /\ vfsWalk' = [vfsWalk EXCEPT !.walked = Append(vfsWalk.walked, Head(vfsWalk.rest)),
                                       !.rest = Tail(@), !.cur = n, !.owned = owned]
         /\ UNCHANGED <<vfsVar, vfsProg>>
    ELSE Done(vfsWalk.into, n)

LEMMA WentHolds ==
    ASSUME VfsInv, vfsWalk # NoWalk, NEW owned \in BOOLEAN,
           NEW n \in Heap \cup Static \cup {Null}, Went(n, owned),
           UNCHANGED <<vfsMounts, vfsPath, vfsLost>>, ~vfsTwice', vfsDirs' \subseteq vfsLive',
           vfsLive' = (MountRoots \cap Heap) \cup vfsLost \cup ({n} \cap Heap),
           n \notin vfsLost,
           IF owned THEN n \notin MountRoots \cap Heap ELSE n \in MountRoots \cup {Null}
    PROVE  VfsInv'
<1>1. /\ vfsWalk = [into |-> vfsWalk.into, walked |-> vfsWalk.walked, rest |-> vfsWalk.rest,
                    cur |-> vfsWalk.cur, owned |-> vfsWalk.owned]
      /\ vfsWalk.into \in {"c", "d"} /\ vfsVar.c = Null /\ vfsVar.d = Null
      /\ Awaits(vfsProg, vfsWalk.into)
  BY DEF VfsInv, WalkHolds
<1>2. CASE ~ (n # Null /\ Tail(vfsWalk.rest) # <<>>)
  <2>1. Done(vfsWalk.into, n)
    BY <1>2 DEF Went
  <2> QED BY <1>1, <2>1, DoneHolds
<1>3. CASE n # Null /\ Tail(vfsWalk.rest) # <<>>
  <2> DEFINE walked == Append(vfsWalk.walked, Head(vfsWalk.rest))
             rest == Tail(vfsWalk.rest)
  <2>1. /\ vfsWalk' = [into |-> vfsWalk.into, walked |-> walked, rest |-> rest,
                       cur |-> n, owned |-> owned]
        /\ UNCHANGED <<vfsVar, vfsProg>>
    <3>1. /\ vfsWalk' = [vfsWalk EXCEPT !.walked = walked, !.rest = rest, !.cur = n,
                                        !.owned = owned]
          /\ UNCHANGED <<vfsVar, vfsProg>>
      BY <1>3 DEF Went
    <3> HIDE DEF walked, rest
    <3> QED BY <1>1, <3>1
  <2> HIDE DEF walked, rest
  <2>2. /\ vfsWalk' = [into |-> vfsWalk'.into, walked |-> vfsWalk'.walked,
                       rest |-> vfsWalk'.rest, cur |-> vfsWalk'.cur, owned |-> vfsWalk'.owned]
        /\ vfsWalk'.into = vfsWalk.into /\ vfsWalk'.cur = n /\ vfsWalk'.owned = owned
    BY <2>1
  <2>3. vfsWalk' # NoWalk
    BY <1>1, <2>2 DEF NoWalk
  <2>4. MountRoots' = MountRoots
    BY DEF MountRoots
  <2>5. WalkHolds'
    BY <1>1, <1>3, <2>1, <2>2, <2>4, HeapNodes DEF WalkHolds
  <2>6. NodeTypes'
    <3>1. vfsLive' \subseteq Heap
      BY DEF VfsInv, NodeTypes
    <3> QED BY <2>1, <3>1 DEF VfsInv, NodeTypes, VfsTypeOK
  <2>7. Held' = {n} \cap Heap
    BY <1>1, <2>1, <2>2, <2>3, HeapNodes DEF Held
  <2>8. NodesOwned'
    <3>1. MountRoots \cap vfsLost = {}
      BY DEF VfsInv, NodesOwned
    <3>2. vfsVar'.c \notin Heap \ MountRoots /\ vfsProg' # <<>>
      BY <1>1, <2>1, HeapNodes DEF Awaits
    <3>3. vfsLive' = (MountRoots' \cap Heap) \cup vfsLost' \cup Held'
      BY <2>4, <2>7
    <3>4. MountRoots' \cap vfsLost' = {} /\ Held' \cap vfsLost' = {}
      BY <2>4, <2>7, <3>1
    <3> QED BY <2>4, <3>2, <3>3, <3>4 DEF NodesOwned
  <2> QED BY <2>1, <2>5, <2>6, <2>8 DEF VfsInv
<1> QED BY <1>2, <1>3

(* What the steps find in the heap.                                        *)
LEMMA Owned ==
    ASSUME VfsInv
    PROVE  /\ vfsLive = (MountRoots \cap Heap) \cup vfsLost \cup Held
           /\ MountRoots \cap vfsLost = {} /\ Held \cap vfsLost = {}
           /\ ~vfsTwice /\ vfsLost \subseteq Heap /\ vfsDirs \subseteq vfsLive
           /\ MountRoots \subseteq Heap \cup {Root}
           /\ vfsWalk = NoWalk => Held = {vfsVar.c, vfsVar.d} \cap Heap
           /\ vfsWalk # NoWalk => Held = {vfsWalk.cur} \cap Heap
<1>1. vfsWalk # NoWalk => Held = {vfsWalk.cur} \cap Heap
  BY HeapNodes DEF VfsInv, WalkHolds, Held
<1>2. vfsWalk = NoWalk => Held = {vfsVar.c, vfsVar.d} \cap Heap
  BY DEF Held
<1> QED BY <1>1, <1>2, MountRootsAre DEF VfsInv, NodeTypes, VfsTypeOK, NodesOwned

LEMMA OpenKeeps ==
    ASSUME VfsInv, NEW into, NEW path, Awaits(vfsProg, into), vfsVar.c = Null, vfsVar.d = Null,
           Open(into, path)
    PROVE  VfsInv'
<1>1. /\ UNCHANGED <<vfsLive, vfsDirs, vfsTwice, vfsMounts, vfsPath, vfsLost>>
      /\ vfsWalk = NoWalk
  BY DEF Open, NothingFreed
<1>2. /\ vfsLive = (MountRoots \cap Heap) \cup vfsLost /\ MountRoots \cap vfsLost = {}
      /\ ~vfsTwice /\ vfsLost \subseteq Heap /\ vfsDirs \subseteq vfsLive
      /\ MountRoots \subseteq Heap \cup {Root}
  BY <1>1, Owned, HeapNodes
<1>3. ASSUME NEW n \in MountRoots \cup {Root}, Done(into, n)
      PROVE  VfsInv'
  <2>1. ~vfsTwice' /\ vfsDirs' \subseteq vfsLive'
    BY <1>1, <1>2
  <2>2. n \in Heap \cup Static \cup {Null} /\ n \notin vfsLost
    BY <1>2, HeapNodes
  <2>3. vfsLive' = (MountRoots \cap Heap) \cup vfsLost \cup ({n} \cap Heap)
    BY <1>1, <1>2, HeapNodes
  <2> QED BY <1>1, <1>3, <2>1, <2>2, <2>3, DoneHolds
<1>4. CASE path = <<>>
  BY <1>3, <1>4 DEF Open
<1>5. CASE path # <<>> /\ MountAt(path) # Null
  <2>1. MountAt(path) \in MountRoots
    BY <1>5, MountAtIs DEF VfsInv
  <2> QED BY <1>3, <1>5, <2>1 DEF Open
<1>6. CASE path # <<>> /\ MountAt(path) = Null
  <2>1. /\ vfsWalk' = [into |-> into, walked |-> <<>>, rest |-> path, cur |-> Root,
                       owned |-> FALSE]
        /\ UNCHANGED <<vfsVar, vfsProg>>
    BY <1>6 DEF Open
  <2>2. into \in {"c", "d"}
    BY DEF Awaits
  <2>3. vfsWalk' # NoWalk
    BY <2>1, <2>2 DEF NoWalk
  <2>4. MountRoots' = MountRoots
    BY <1>1 DEF MountRoots
  <2>5. WalkHolds'
    BY <2>1, <2>2, <2>4, HeapNodes DEF WalkHolds
  <2>6. Held' = {}
    BY <2>1, <2>3, HeapNodes DEF Held
  <2>7. NodesOwned'
    <3>1. vfsVar'.c \notin Heap \ MountRoots /\ vfsProg' # <<>>
      BY <2>1, HeapNodes DEF Awaits
    <3>2. ~vfsTwice'
      BY <1>1, <1>2
    <3> QED BY <1>1, <1>2, <2>4, <2>6, <3>1, <3>2 DEF NodesOwned
  <2>8. NodeTypes'
    BY <1>1, <2>1 DEF VfsInv, NodeTypes, VfsTypeOK
  <2> QED BY <2>1, <2>5, <2>7, <2>8 DEF VfsInv
<1> QED BY <1>4, <1>5, <1>6

LEMMA WalkStepKeeps == VfsInv /\ WalkStep => VfsInv'
<1> SUFFICES ASSUME VfsInv, WalkStep PROVE VfsInv'
  OBVIOUS
<1> DEFINE w == vfsWalk
           mount == MountAt(Append(w.walked, Head(w.rest)))
<1>1. w # NoWalk /\ UNCHANGED <<vfsMounts, vfsPath, vfsLost>>
  BY DEF WalkStep
<1>2. /\ \/ mount # Null /\ Kfree(Passed) /\ Went(mount, FALSE)
         \/ mount = Null /\ ~IsDir(w.cur) /\ Kfree(Passed) /\ Done(w.into, Null)
         \/ \E child \in Heap \cup Static \cup {Null} :
                FindDir(w.cur, Head(w.rest), Passed, child) /\ Went(child, TRUE)
  BY DEF WalkStep, Went
<1>3. mount \in MountRoots \cup {Null}
  BY MountAtIs DEF VfsInv
<1> HIDE DEF mount
<1>4. /\ vfsLive = (MountRoots \cap Heap) \cup vfsLost \cup ({w.cur} \cap Heap)
      /\ MountRoots \cap vfsLost = {} /\ ({w.cur} \cap Heap) \cap vfsLost = {}
      /\ ~vfsTwice /\ vfsLost \subseteq Heap /\ vfsDirs \subseteq vfsLive
      /\ MountRoots \subseteq Heap \cup {Root}
  BY <1>1, Owned
<1>5. /\ w.cur \in Heap \cup Static
      /\ IF w.owned THEN w.cur \notin MountRoots \cap Heap ELSE w.cur \in MountRoots \cup {Root}
      /\ Awaits(vfsProg, w.into) /\ vfsVar.c = Null /\ vfsVar.d = Null
  BY <1>1 DEF VfsInv, WalkHolds
<1>6. /\ Passed \in Heap => Passed \in vfsLive
      /\ vfsLive \ {Passed} = (MountRoots \cap Heap) \cup vfsLost
  <2>1. CASE w.owned
    BY <1>4, <1>5, <2>1, HeapNodes DEF Passed
  <2>2. CASE ~w.owned
    BY <1>4, <1>5, <2>2, HeapNodes DEF Passed
  <2> QED BY <2>1, <2>2
<1>7. ASSUME Kfree(Passed)
      PROVE  /\ ~vfsTwice' /\ vfsDirs' \subseteq vfsLive'
             /\ vfsLive' = (MountRoots \cap Heap) \cup vfsLost
  <2>1. ~vfsTwice' /\ vfsLive' = vfsLive \ {Passed} /\ vfsDirs' = vfsDirs \ {Passed}
    BY <1>4, <1>6, <1>7, KfreeFrees
  <2> QED BY <1>4, <1>6, <2>1
<1>8. CASE mount # Null /\ Kfree(Passed) /\ Went(mount, FALSE)
  <2>1. mount \in MountRoots
    BY <1>3, <1>8
  <2>2. vfsLive' = (MountRoots \cap Heap) \cup vfsLost \cup ({mount} \cap Heap)
    BY <1>7, <1>8, <2>1
  <2>3. mount \in Heap \cup Static \cup {Null} /\ mount \notin vfsLost
    BY <1>4, <2>1, HeapNodes
  <2>4. ~vfsTwice' /\ vfsDirs' \subseteq vfsLive' /\ Went(mount, FALSE)
    BY <1>7, <1>8
  <2> QED BY <1>1, <2>1, <2>2, <2>3, <2>4, WentHolds
<1>9. CASE Kfree(Passed) /\ Done(w.into, Null)
  <2>1. vfsLive' = (MountRoots \cap Heap) \cup vfsLost \cup ({Null} \cap Heap)
    BY <1>7, <1>9, HeapNodes
  <2>2. Null \in Heap \cup Static \cup {Null} /\ Null \notin vfsLost
    BY <1>4, HeapNodes
  <2>3. ~vfsTwice' /\ vfsDirs' \subseteq vfsLive' /\ Done(w.into, Null)
    BY <1>7, <1>9
  <2> QED BY <1>1, <1>5, <2>1, <2>2, <2>3, DoneHolds
<1>10. ASSUME NEW child \in Heap \cup Static \cup {Null},
              FindDir(w.cur, Head(w.rest), Passed, child), Went(child, TRUE)
       PROVE  VfsInv'
  <2>1. /\ ~vfsTwice' /\ vfsDirs' \subseteq vfsLive'
        /\ \/ child \in {Etc, Motd, Null} /\ vfsLive' = vfsLive \ {Passed}
           \/ child \in Heap \ vfsLive /\ vfsLive' = (vfsLive \cup {child}) \ {Passed}
    BY <1>4, <1>6, <1>10, FindDirIs DEF VfsInv
  <2>2. /\ child \notin vfsLost /\ child \notin MountRoots \cap Heap
        /\ vfsLive' = (MountRoots \cap Heap) \cup vfsLost \cup ({child} \cap Heap)
    <3>1. CASE child \in {Etc, Motd, Null} /\ vfsLive' = vfsLive \ {Passed}
      BY <1>4, <1>6, <3>1, HeapNodes
    <3>2. CASE child \in Heap \ vfsLive /\ vfsLive' = (vfsLive \cup {child}) \ {Passed}
      <4>1. child # Passed
        BY <1>6, <3>2
      <4> QED BY <1>4, <1>6, <3>2, <4>1
    <3> QED BY <2>1, <3>1, <3>2
  <2> QED BY <1>1, <1>10, <2>1, <2>2, WentHolds
<1> QED BY <1>2, <1>8, <1>9, <1>10

LEMMA StartKeeps ==
    ASSUME VfsInv, NEW name \in DOMAIN Commands, NEW path \in Paths, Start(name, path)
    PROVE  VfsInv'
<1>1. vfsVar.c = Null /\ vfsVar.d = Null /\ vfsWalk = NoWalk
  BY IdleHolds DEF Start
<1>2. InHand(vfsProg', vfsVar')
  BY <1>1, ProgramsStart DEF Start, InHand
<1>3. MountRoots' = MountRoots /\ Held' = Held /\ Held = {}
  BY <1>1, HeapNodes DEF Start, NothingFreed, MountRoots, Held
<1>4. NodesOwned'
  <2>1. vfsTwice' = vfsTwice
    BY DEF Start, NothingFreed
  <2>2. ~vfsTwice'
    BY <2>1, Owned
  <2> QED BY <1>3, <2>2, Owned DEF Start, NothingFreed, NodesOwned, VfsInv
<1>5. NodeTypes'
  BY DEF VfsInv, NodeTypes, VfsTypeOK, Start, NothingFreed
<1>6. WalkHolds'
  BY <1>1 DEF WalkHolds, Start
<1> QED BY <1>2, <1>4, <1>5, <1>6 DEF VfsInv

LEMMA OpenStepKeeps == VfsInv /\ OpenStep => VfsInv'
<1> SUFFICES ASSUME VfsInv, OpenStep PROVE VfsInv'
  OBVIOUS
<1>1. PICK into, path : /\ vfsProg # <<>> /\ Open(into, path)
                        /\ \/ into = "c" /\ Head(vfsProg) = "open_c"
                           \/ into = "d" /\ Head(vfsProg) \in {"open_d", "open_dir"}
  BY DEF OpenStep, At
<1>2. InHand(vfsProg, vfsVar)
  BY DEF VfsInv
<1>3. Awaits(vfsProg, into) /\ vfsVar.c = Null /\ vfsVar.d = Null
  BY <1>1, <1>2, Hands DEF Awaits
<1> QED BY <1>1, <1>3, OpenKeeps

(* When no walk is under way, what the invariant says of the new state.    *)
LEMMA StillOwned ==
    ASSUME VfsInv, vfsWalk' = NoWalk, UNCHANGED vfsPath,
           vfsVar' \in [{"c", "d"} -> Heap \cup Static \cup {Null}],
           UNCHANGED vfsMounts, vfsLost' \subseteq Heap,
           InHand(vfsProg', vfsVar'),
           ~vfsTwice', vfsDirs' \subseteq vfsLive',
           vfsLive' = (MountRoots \cap Heap) \cup vfsLost' \cup ({vfsVar'.c, vfsVar'.d} \cap Heap),
           MountRoots \cap vfsLost' = {}, {vfsVar'.c, vfsVar'.d} \cap vfsLost' = {},
           vfsVar'.c = vfsVar'.d => vfsVar'.c \notin Heap \ MountRoots
    PROVE  VfsInv'
<1>1. MountRoots' = MountRoots
  BY DEF MountRoots
<1>2. Held' = {vfsVar'.c, vfsVar'.d} \cap Heap
  BY DEF Held
<1>3. vfsProg' = <<>> => Held' = {}
  <2>1. vfsProg' = <<>> => vfsVar'.c = Null /\ vfsVar'.d = Null
    BY DirTable, ChildTable, BothTable DEF InHand
  <2> QED BY <1>2, <2>1, HeapNodes
<1>4. NodesOwned'
  BY <1>1, <1>2, <1>3 DEF NodesOwned
<1>5. NodeTypes'
  BY DEF VfsInv, NodeTypes, VfsTypeOK
<1> QED BY <1>4, <1>5 DEF VfsInv, WalkHolds

LEMMA ChildStepKeeps == VfsInv /\ ChildStep => VfsInv'
<1> SUFFICES ASSUME VfsInv, ChildStep PROVE VfsInv'
  OBVIOUS
<1>1. /\ vfsProg # <<>> /\ Head(vfsProg) = "child" /\ vfsWalk = NoWalk
      /\ vfsProg' = Tail(vfsProg) /\ UNCHANGED <<vfsMounts, vfsPath, vfsWalk, vfsLost>>
  BY DEF ChildStep, At
<1>2. vfsVar.c = Null /\ vfsProg' \in HoldsBoth
  BY <1>1, Hands DEF VfsInv
<1> DEFINE name == IF vfsPath = <<>> THEN "etc" ELSE Last(vfsPath)
<1>3. PICK child \in Heap \cup Static \cup {Null} :
          /\ FindDir(vfsVar.d, name, Null, child)
          /\ vfsVar' = [vfsVar EXCEPT !.c = child]
  BY DEF ChildStep
<1> HIDE DEF name
<1>4. /\ vfsLive = (MountRoots \cap Heap) \cup vfsLost \cup ({vfsVar.d} \cap Heap)
      /\ MountRoots \cap vfsLost = {} /\ ({vfsVar.d} \cap Heap) \cap vfsLost = {}
      /\ ~vfsTwice /\ vfsLost \subseteq Heap
  BY <1>1, <1>2, Owned, HeapNodes
<1>5. /\ ~vfsTwice' /\ vfsDirs' \subseteq vfsLive'
      /\ \/ child \in {Etc, Motd, Null} /\ vfsLive' = vfsLive \ {Null}
         \/ child \in Heap \ vfsLive /\ vfsLive' = (vfsLive \cup {child}) \ {Null}
  BY <1>3, <1>4, HeapNodes, FindDirIs DEF VfsInv
<1>6. /\ vfsVar' \in [{"c", "d"} -> Heap \cup Static \cup {Null}]
      /\ vfsVar'.c = child /\ vfsVar'.d = vfsVar.d
  BY <1>3 DEF VfsInv, NodeTypes, VfsTypeOK
<1>7. vfsLive' = (MountRoots \cap Heap) \cup vfsLost' \cup ({vfsVar'.c, vfsVar'.d} \cap Heap)
  BY <1>1, <1>4, <1>5, <1>6, HeapNodes
<1>8. /\ MountRoots \cap vfsLost' = {} /\ {vfsVar'.c, vfsVar'.d} \cap vfsLost' = {}
      /\ vfsLost' \subseteq Heap
  BY <1>1, <1>4, <1>5, <1>6, HeapNodes
<1>9. vfsVar'.c = vfsVar'.d => vfsVar'.c \notin Heap \ MountRoots
  BY <1>4, <1>5, <1>6, HeapNodes
<1>10. vfsWalk' = NoWalk /\ UNCHANGED vfsPath /\ UNCHANGED vfsMounts /\ InHand(vfsProg', vfsVar')
  BY <1>1, <1>2 DEF InHand
<1> QED BY <1>5, <1>6, <1>7, <1>8, <1>9, <1>10, StillOwned

LEMMA FreeStepKeeps ==
    ASSUME VfsInv, NEW v \in {"c", "d"}, FreeStep(v)
    PROVE  VfsInv'
<1>1. /\ vfsProg # <<>> /\ vfsWalk = NoWalk
      /\ Head(vfsProg) = IF v = "c" THEN "free_c" ELSE "free_d"
      /\ vfsProg' = Tail(vfsProg) /\ UNCHANGED <<vfsMounts, vfsPath, vfsWalk, vfsLost>>
      /\ vfsVar' = [vfsVar EXCEPT ![v] = Null]
  BY DEF FreeStep, At, FreeOf
<1>2. /\ vfsVar \in [{"c", "d"} -> Heap \cup Static \cup {Null}]
      /\ vfsVar' \in [{"c", "d"} -> Heap \cup Static \cup {Null}]
      /\ IF v = "c" THEN vfsVar'.c = Null /\ vfsVar'.d = vfsVar.d
                    ELSE vfsVar'.d = Null /\ vfsVar'.c = vfsVar.c
  BY <1>1 DEF VfsInv, NodeTypes, VfsTypeOK
<1>3. InHand(vfsProg', vfsVar')
  <2>1. InHand(vfsProg, vfsVar)
    BY DEF VfsInv
  <2>2. CASE v = "c"
    BY <1>1, <1>2, <2>1, <2>2, Hands DEF InHand
  <2>3. CASE v = "d"
    BY <1>1, <1>2, <2>1, <2>3, Hands DEF InHand
  <2> QED BY <2>2, <2>3
<1>4. /\ vfsLive = (MountRoots \cap Heap) \cup vfsLost \cup ({vfsVar.c, vfsVar.d} \cap Heap)
      /\ MountRoots \cap vfsLost = {} /\ ({vfsVar.c, vfsVar.d} \cap Heap) \cap vfsLost = {}
      /\ ~vfsTwice /\ vfsLost \subseteq Heap /\ vfsDirs \subseteq vfsLive
      /\ vfsVar.c = vfsVar.d => vfsVar.c \notin Heap \ MountRoots
  BY <1>1, Owned DEF VfsInv, NodesOwned
<1> DEFINE kept == IF v = "c" THEN vfsVar.d ELSE vfsVar.c
<1>5. /\ kept \in Heap \cup Static \cup {Null} /\ vfsVar[v] \in Heap \cup Static \cup {Null}
      /\ {vfsVar.c, vfsVar.d} = {vfsVar[v], kept}
      /\ {vfsVar'.c, vfsVar'.d} \cap Heap = {kept} \cap Heap
      /\ vfsVar[v] = kept => kept \notin Heap \ MountRoots
      /\ vfsVar'.c = vfsVar'.d => vfsVar'.c \notin Heap
  BY <1>2, <1>4, HeapNodes
<1> HIDE DEF kept
<1>6. /\ ~vfsTwice' /\ vfsDirs' \subseteq vfsLive'
      /\ vfsLive' = (MountRoots \cap Heap) \cup vfsLost \cup ({kept} \cap Heap)
  <2>1. CASE vfsVar[v] \in MountRoots
    <3>1. UNCHANGED <<vfsLive, vfsDirs, vfsTwice>>
      BY <2>1 DEF FreeStep, NothingFreed, IsMountRoot
    <3>2. ~vfsTwice'
      BY <1>4, <3>1
    <3> QED BY <1>4, <1>5, <2>1, <3>1, <3>2
  <2>2. CASE vfsVar[v] \notin MountRoots
    <3>1. Kfree(vfsVar[v])
      BY <2>2 DEF FreeStep, IsMountRoot
    <3>2. vfsVar[v] \in Heap => vfsVar[v] \in vfsLive
      BY <1>4, <1>5
    <3>3. ~vfsTwice' /\ vfsLive' = vfsLive \ {vfsVar[v]} /\ vfsDirs' = vfsDirs \ {vfsVar[v]}
      BY <1>4, <3>1, <3>2, KfreeFrees
    <3> QED BY <1>4, <1>5, <2>2, <3>3
  <2> QED BY <2>1, <2>2
<1>7. vfsLive' = (MountRoots \cap Heap) \cup vfsLost' \cup ({vfsVar'.c, vfsVar'.d} \cap Heap)
  BY <1>1, <1>5, <1>6
<1>8. /\ MountRoots \cap vfsLost' = {} /\ {vfsVar'.c, vfsVar'.d} \cap vfsLost' = {}
      /\ vfsLost' \subseteq Heap
  BY <1>1, <1>4, <1>5
<1>9. vfsWalk' = NoWalk /\ UNCHANGED vfsPath /\ UNCHANGED vfsMounts
  BY <1>1
<1> QED BY <1>2, <1>3, <1>5, <1>6, <1>7, <1>8, <1>9, StillOwned

(* Nothing but the rest of the command changes, or it gives d up for lost. *)
LEMMA ProgKeeps ==
    ASSUME VfsInv, vfsWalk = NoWalk, InHand(vfsProg', vfsVar), NothingFreed,
           UNCHANGED <<vfsMounts, vfsPath, vfsVar, vfsWalk, vfsLost>>
    PROVE  VfsInv'
<1>1. /\ vfsLive = (MountRoots \cap Heap) \cup vfsLost \cup ({vfsVar.c, vfsVar.d} \cap Heap)
      /\ MountRoots \cap vfsLost = {} /\ ({vfsVar.c, vfsVar.d} \cap Heap) \cap vfsLost = {}
      /\ ~vfsTwice /\ vfsLost \subseteq Heap /\ vfsDirs \subseteq vfsLive
      /\ vfsVar.c = vfsVar.d => vfsVar.c \notin Heap \ MountRoots
  BY Owned DEF VfsInv, NodesOwned
<1>2. vfsVar \in [{"c", "d"} -> Heap \cup Static \cup {Null}]
  BY DEF VfsInv, NodeTypes, VfsTypeOK
<1>3. ~vfsTwice' /\ vfsDirs' \subseteq vfsLive' /\ vfsLive' = vfsLive
  <2>1. UNCHANGED <<vfsLive, vfsDirs, vfsTwice>>
    BY DEF NothingFreed
  <2> QED BY <1>1, <2>1
<1>4. {vfsVar'.c, vfsVar'.d} \cap vfsLost' = {}
  BY <1>1
<1> QED BY <1>1, <1>2, <1>3, <1>4, StillOwned

LEMMA TestStepKeeps == VfsInv /\ TestStep => VfsInv'
<1> SUFFICES ASSUME VfsInv, TestStep PROVE VfsInv'
  OBVIOUS
<1> DEFINE step == Head(vfsProg)
           rest == Tail(vfsProg)
<1>1. /\ NothingFreed /\ UNCHANGED <<vfsMounts, vfsPath, vfsVar, vfsWalk, vfsLost>>
      /\ vfsProg # <<>> /\ vfsWalk = NoWalk
      /\ \/ step \in {"a_directory", "more", "writable"} /\ vfsProg' \in {rest, <<"free_d">>}
         \/ step = "exists_or_made" /\ (vfsProg' = rest \/ (vfsVar.c = Null /\ vfsProg' = <<"free_d">>))
         \/ step = "a_file" /\ vfsProg' \in {rest, <<"free_c">>}
         \/ step = "found" /\ vfsProg' = IF vfsVar.d # Null THEN Tail(rest) ELSE rest
         \/ step = "opened" /\ vfsProg' = IF vfsVar.d = Null THEN <<>> ELSE rest
  BY DEF TestStep, At
<1>2. InHand(vfsProg, vfsVar)
  BY DEF VfsInv
<1>3. /\ step \in {"a_directory", "more", "writable", "opened"} =>
             vfsVar.c = Null /\ rest \in HoldsDir
      /\ step = "found" => vfsVar.c = Null /\ rest \in HoldsNothing /\ Tail(rest) \in HoldsDir
      /\ step = "a_file" => vfsVar.d = Null /\ rest \in HoldsChild
      /\ step = "exists_or_made" => rest \in HoldsBoth
  BY <1>1, <1>2, Hands
<1> HIDE DEF step, rest
<1>4. InHand(vfsProg', vfsVar)
  BY <1>1, <1>3, Ends DEF InHand
<1> QED BY <1>1, <1>4, ProgKeeps

LEMMA LoseStepKeeps == VfsInv /\ LoseStep => VfsInv'
<1> SUFFICES ASSUME VfsInv, LoseStep PROVE VfsInv'
  OBVIOUS
<1>1. /\ NothingFreed /\ UNCHANGED <<vfsMounts, vfsPath, vfsWalk>>
      /\ vfsProg # <<>> /\ vfsWalk = NoWalk /\ Head(vfsProg) \in {"lose_d", "saved"}
  BY DEF LoseStep, At
<1>2. InHand(vfsProg, vfsVar)
  BY DEF VfsInv
<1>3. CASE Head(vfsProg) = "saved" /\ vfsVar.c # Null
  <2>1. vfsProg' = <<"free_c", "lose_d">> /\ UNCHANGED <<vfsVar, vfsLost>>
    BY <1>1, <1>3 DEF LoseStep, At
  <2>2. InHand(vfsProg', vfsVar)
    BY <2>1, Ends DEF InHand
  <2> QED BY <1>1, <2>1, <2>2, ProgKeeps
<1>4. CASE ~ (Head(vfsProg) = "saved" /\ vfsVar.c # Null)
  <2>1. /\ vfsProg' = Tail(vfsProg) /\ vfsVar' = [vfsVar EXCEPT !.d = Null]
        /\ vfsLost' = vfsLost \cup (({vfsVar.d} \cap Heap) \ MountRoots)
    BY <1>4 DEF LoseStep, At
  <2>2. vfsProg' \in HoldsNothing /\ vfsVar.c = Null
    BY <1>1, <1>2, <1>4, <2>1, Hands
  <2>3. /\ vfsVar' \in [{"c", "d"} -> Heap \cup Static \cup {Null}]
        /\ vfsVar'.c = Null /\ vfsVar'.d = Null
    BY <2>1, <2>2 DEF VfsInv, NodeTypes, VfsTypeOK
  <2>4. /\ vfsLive = (MountRoots \cap Heap) \cup vfsLost \cup ({vfsVar.d} \cap Heap)
        /\ MountRoots \cap vfsLost = {} /\ ~vfsTwice /\ vfsLost \subseteq Heap
        /\ vfsDirs \subseteq vfsLive
    BY <1>1, <2>2, Owned, HeapNodes
  <2>5. ~vfsTwice' /\ vfsDirs' \subseteq vfsLive' /\ vfsLive' = vfsLive
    <3>1. UNCHANGED <<vfsLive, vfsDirs, vfsTwice>>
      BY <1>1 DEF NothingFreed
    <3> QED BY <2>4, <3>1
  <2>6. /\ vfsLive' = (MountRoots \cap Heap) \cup vfsLost' \cup ({vfsVar'.c, vfsVar'.d} \cap Heap)
        /\ MountRoots \cap vfsLost' = {} /\ {vfsVar'.c, vfsVar'.d} \cap vfsLost' = {}
        /\ vfsLost' \subseteq Heap /\ vfsVar'.c \notin Heap
    BY <2>1, <2>3, <2>4, <2>5, HeapNodes
  <2>7. vfsWalk' = NoWalk /\ InHand(vfsProg', vfsVar')
    BY <1>1, <2>2, <2>3 DEF InHand
  <2> QED BY <1>1, <2>3, <2>5, <2>6, <2>7, StillOwned
<1> QED BY <1>3, <1>4

LEMMA MountDiskKeeps == VfsInv /\ MountDisk => VfsInv'
<1> SUFFICES ASSUME VfsInv, MountDisk PROVE VfsInv'
  OBVIOUS
<1> DEFINE root == Min(Heap \ vfsLive)
<1>1. root \in Heap \ vfsLive
  BY FreshNode DEF MountDisk
<1>2. /\ vfsProg = <<>> /\ UNCHANGED <<vfsPath, vfsProg, vfsVar, vfsWalk, vfsTwice>>
      /\ vfsLive' = vfsLive \cup {root} /\ vfsDirs' = vfsDirs \cup {root}
      /\ IF Len(vfsMounts) < MaxMounts
         THEN vfsMounts' = Append(vfsMounts, [path |-> <<"disk">>, node |-> root])
              /\ UNCHANGED vfsLost
         ELSE vfsLost' = vfsLost \cup {root} /\ UNCHANGED vfsMounts
  BY DEF MountDisk
<1> HIDE DEF root
<1>3. vfsVar.c = Null /\ vfsVar.d = Null /\ vfsWalk = NoWalk
  BY <1>2, IdleHolds
<1>4. /\ vfsLive = (MountRoots \cap Heap) \cup vfsLost /\ MountRoots \cap vfsLost = {}
      /\ ~vfsTwice /\ vfsLost \subseteq Heap /\ vfsDirs \subseteq vfsLive
      /\ vfsLive \subseteq Heap
  BY <1>3, Owned, HeapNodes
<1>5. Held' = {} /\ ~vfsTwice'
  BY <1>2, <1>3, <1>4, HeapNodes DEF Held
<1>6. /\ MountRoots' = IF Len(vfsMounts) < MaxMounts THEN MountRoots \cup {root} ELSE MountRoots
      /\ vfsMounts' \in Seq(MountSet) /\ Len(vfsMounts') \in 1 .. MaxMounts
  <2>1. vfsMounts \in Seq(MountSet) /\ Len(vfsMounts) \in 1 .. MaxMounts /\ MaxMounts \in Nat
    BY VfsAssumption DEF VfsInv, NodeTypes, VfsTypeOK, VfsAssumption
  <2>2. CASE Len(vfsMounts) >= MaxMounts
    BY <1>2, <2>1, <2>2 DEF MountRoots
  <2>3. CASE Len(vfsMounts) < MaxMounts
    <3> DEFINE new == [path |-> <<"disk">>, node |-> root]
    <3>1. new \in MountSet /\ new.node = root
      BY <1>1 DEF MountSet, Paths
    <3> HIDE DEF new
    <3>2. vfsMounts' = Append(vfsMounts, new)
      BY <1>2, <2>3 DEF new
    <3>3. /\ vfsMounts' \in Seq(MountSet) /\ Len(vfsMounts') = Len(vfsMounts) + 1
          /\ \A i \in 1 .. Len(vfsMounts) : vfsMounts'[i] = vfsMounts[i]
          /\ vfsMounts'[Len(vfsMounts) + 1] = new
      BY <2>1, <3>1, <3>2, AppendProperties
    <3>4. /\ DOMAIN vfsMounts = 1 .. Len(vfsMounts)
          /\ DOMAIN vfsMounts' = 1 .. Len(vfsMounts) + 1
      BY <2>1, <3>3, LenProperties
    <3>5. MountRoots' = MountRoots \cup {root}
      BY <2>1, <3>1, <3>3, <3>4 DEF MountRoots
    <3> QED BY <2>1, <2>3, <3>3, <3>5
  <2> QED BY <2>1, <2>2, <2>3
<1>7. /\ vfsLive' = (MountRoots' \cap Heap) \cup vfsLost' \cup Held'
      /\ MountRoots' \cap vfsLost' = {}
  BY <1>1, <1>2, <1>4, <1>5, <1>6
<1>8. NodesOwned'
  BY <1>2, <1>3, <1>5, <1>7, HeapNodes DEF NodesOwned
<1>9. NodeTypes'
  <2>1. vfsDirs' \subseteq vfsLive' /\ vfsLive' \subseteq Heap /\ vfsLost' \subseteq Heap
    BY <1>1, <1>2, <1>4
  <2> QED BY <1>2, <1>6, <2>1 DEF VfsInv, NodeTypes, VfsTypeOK
<1> QED BY <1>2, <1>3, <1>8, <1>9 DEF VfsInv, WalkHolds

LEMMA VfsInitial == VfsInit => VfsInv
<1> SUFFICES ASSUME VfsInit PROVE VfsInv
  OBVIOUS
<1>1. /\ vfsPath = <<>> /\ vfsProg = <<>> /\ vfsVar = [d |-> Null, c |-> Null]
      /\ vfsWalk = NoWalk /\ vfsLost = {} /\ vfsTwice = FALSE /\ vfsDirs = vfsLive
  BY DEF VfsInit
<1>2. /\ vfsMounts \in Seq(MountSet) /\ Len(vfsMounts) \in 1 .. MaxMounts
      /\ vfsLive = MountRoots \cap Heap
  <2> DEFINE first == [path |-> <<>>, node |-> Root]
             second == [path |-> <<"disk">>, node |-> 1]
  <2>1. /\ first \in MountSet /\ second \in MountSet /\ first.node = Root /\ second.node = 1
        /\ 1 \in Heap
    BY VfsAssumption DEF VfsAssumption, MountSet, Paths, Heap
  <2>2. \/ vfsMounts = <<first>> /\ vfsLive = {}
        \/ vfsMounts = <<first, second>> /\ vfsLive = {1}
    BY DEF VfsInit
  <2> HIDE DEF first, second
  <2>3. CASE vfsMounts = <<first>> /\ vfsLive = {}
    BY <2>1, <2>3, VfsAssumption, HeapNodes DEF VfsAssumption, MountRoots
  <2>4. CASE vfsMounts = <<first, second>> /\ vfsLive = {1}
    BY <2>1, <2>4, VfsAssumption, HeapNodes DEF VfsAssumption, MountRoots
  <2> QED BY <2>2, <2>3, <2>4
<1>3. /\ vfsVar \in [{"c", "d"} -> Heap \cup Static \cup {Null}]
      /\ vfsVar.c = Null /\ vfsVar.d = Null
  BY <1>1
<1>4. Held = {}
  BY <1>1, <1>3, HeapNodes DEF Held
<1>5. NodesOwned
  BY <1>1, <1>2, <1>3, <1>4, HeapNodes DEF NodesOwned
<1>6. NodeTypes
  BY <1>1, <1>2, <1>3 DEF NodeTypes, VfsTypeOK, Paths
<1>7. InHand(vfsProg, vfsVar) /\ WalkHolds
  BY <1>1, <1>3, Ends DEF InHand, WalkHolds
<1> QED BY <1>5, <1>6, <1>7 DEF VfsInv

LEMMA VfsStep == VfsInv /\ [VfsNext]_vfsVars => VfsInv'
<1> SUFFICES ASSUME VfsInv, [VfsNext]_vfsVars PROVE VfsInv'
  OBVIOUS
<1>1. CASE \E name \in DOMAIN Commands, path \in Paths : Start(name, path)
  BY <1>1, StartKeeps
<1>2. CASE OpenStep
  BY <1>2, OpenStepKeeps
<1>3. CASE WalkStep
  BY <1>3, WalkStepKeeps
<1>4. CASE ChildStep
  BY <1>4, ChildStepKeeps
<1>5. CASE \E v \in {"c", "d"} : FreeStep(v)
  BY <1>5, FreeStepKeeps
<1>6. CASE TestStep
  BY <1>6, TestStepKeeps
<1>7. CASE LoseStep
  BY <1>7, LoseStepKeeps
<1>8. CASE MountDisk
  BY <1>8, MountDiskKeeps
<1>9. CASE UNCHANGED vfsVars
  <2>1. /\ MountRoots' = MountRoots /\ Held' = Held /\ vfsTwice' = vfsTwice
        /\ UNCHANGED <<vfsMounts, vfsLive, vfsDirs, vfsPath, vfsProg, vfsVar, vfsWalk, vfsLost>>
    BY <1>9 DEF vfsVars, MountRoots, Held
  <2>2. ~vfsTwice'
    BY <2>1, Owned
  <2>3. NodesOwned'
    BY <2>1, <2>2 DEF VfsInv, NodesOwned
  <2> QED BY <2>1, <2>3 DEF VfsInv, NodeTypes, VfsTypeOK, WalkHolds
<1> QED BY <1>1, <1>2, <1>3, <1>4, <1>5, <1>6, <1>7, <1>8, <1>9 DEF VfsNext

(* The inductive invariant of the VFS: at every step of a command, which   *)
(* nodes are on the heap, held by the command or mounted.                  *)
THEOREM ServicesNodesInvariant == Spec => []VfsInv
<1>1. Init => VfsInv
  BY VfsInitial DEF Init
<1>2. [Next]_vars => [VfsNext]_vfsVars
  BY DEF Next, vars
<1> QED BY <1>1, <1>2, VfsStep, PTL DEF Spec

(* No node is freed twice, used after it was freed, freed while mounted or *)
(* forgotten, but where users_save, disk_first_boot and a full mount table *)
(* lose one: whatever the paths, the disks and the room in the heap.       *)
THEOREM ServicesNodesOwned == Spec => []NodesOwned
<1>1. VfsInv => NodesOwned
  BY DEF VfsInv
<1> QED BY <1>1, ServicesNodesInvariant, PTL

---------------------------------------------------------------------------
(* The types of all parts.                                                 *)

KbFlagTypes ==
    /\ kbExtended \in BOOLEAN /\ kbCtrl \in BOOLEAN /\ kbCaps \in BOOLEAN
    /\ kbMarker \in BOOLEAN /\ kbTorn \in BOOLEAN

LEMMA PushFlags ==
    ASSUME kbTorn \in BOOLEAN, NEW key, Push(key)
    PROVE  kbTorn' \in BOOLEAN
<1>1. PICK b \in BOOLEAN : kbTorn' = (kbTorn \/ b)
  <2> DEFINE bytes == KeyBytes[key]
             fits == IF KbFree < Len(bytes) THEN KbFree ELSE Len(bytes)
             b == fits \in 1 .. Len(bytes) - 1
  <2>1. kbTorn' = (kbTorn \/ b)
    BY DEF Push
  <2>2. b \in BOOLEAN
    OBVIOUS
  <2> HIDE DEF b
  <2> QED BY <2>1, <2>2
<1> QED BY <1>1, Zenon

LEMMA KbFlagsStep == KbFlagTypes /\ [KbNext]_kbVars => KbFlagTypes'
<1> SUFFICES ASSUME KbFlagTypes, [KbNext]_kbVars PROVE KbFlagTypes'
  OBVIOUS
<1>1. ASSUME NEW sc \in Scancodes, KbIrq(sc) PROVE KbFlagTypes'
  <2>1. kbExtended' \in BOOLEAN
    <3>1. kbExtended' = (sc = "E0")
      BY <1>1 DEF KbIrq
    <3> QED BY <3>1, Zenon
  <2>2. kbTorn' \in BOOLEAN
    <3>1. (\E key : Push(key)) \/ UNCHANGED kbTorn
      BY <1>1 DEF KbIrq, NoKey
    <3>2. CASE UNCHANGED kbTorn
      BY <3>2 DEF KbFlagTypes
    <3>3. CASE \E key : Push(key)
      BY <3>3, PushFlags DEF KbFlagTypes
    <3> QED BY <3>1, <3>2, <3>3
  <2>3. UNCHANGED kbMarker
    BY <1>1 DEF KbIrq
  <2>4. UNCHANGED <<kbCtrl, kbCaps>>
        \/ /\ kbCtrl' = IF sc \in {"ctrl", "-ctrl"} THEN sc = "ctrl" ELSE kbCtrl
           /\ kbCaps' = IF sc = "caps" THEN ~kbCaps ELSE kbCaps
    BY <1>1 DEF KbIrq
  <2>5. CASE UNCHANGED <<kbCtrl, kbCaps>>
    BY <2>1, <2>2, <2>3, <2>5 DEF KbFlagTypes
  <2>6. CASE /\ kbCtrl' = IF sc \in {"ctrl", "-ctrl"} THEN sc = "ctrl" ELSE kbCtrl
             /\ kbCaps' = IF sc = "caps" THEN ~kbCaps ELSE kbCaps
    <3>1. kbCtrl' \in BOOLEAN
      BY <2>6, Zenon DEF KbFlagTypes
    <3>2. kbCaps' \in BOOLEAN
      BY <2>6, Zenon DEF KbFlagTypes
    <3> QED BY <2>1, <2>2, <2>3, <3>1, <3>2 DEF KbFlagTypes
  <2> QED BY <2>4, <2>5, <2>6
<1>2. CASE KbTimer \/ KbLook \/ KbHlt \/ UNCHANGED kbVars
  BY <1>2 DEF KbTimer, KbLook, KbHlt, kbVars, kbFlags, KbFlagTypes
<1>3. CASE KbTake
  <2>1. /\ kbMarker' = (~kbMarker /\ kbRing[kbRp] = "E0")
        /\ UNCHANGED kbFlags
        /\ kbTorn' = (kbTorn /\ ~ (kbRp' = kbWp /\ ~kbMarker'))
    BY <1>3 DEF KbTake
  <2>2. kbMarker' \in BOOLEAN
    BY <2>1, Zenon DEF KbFlagTypes
  <2>3. kbTorn' \in BOOLEAN
    BY <2>1, Zenon DEF KbFlagTypes
  <2>4. UNCHANGED <<kbExtended, kbCtrl, kbCaps>>
    BY <2>1 DEF kbFlags
  <2> QED BY <2>2, <2>3, <2>4 DEF KbFlagTypes
<1> QED BY <1>1, <1>2, <1>3 DEF KbNext, KbReader

BrowsingType == histBrowsing \in BOOLEAN

LEMMA BrowsingStep == BrowsingType /\ [HistNext]_histVars => BrowsingType'
<1> SUFFICES ASSUME BrowsingType, [HistNext]_histVars PROVE BrowsingType'
  OBVIOUS
<1>1. histBrowsing' = histBrowsing \/ histBrowsing' = TRUE \/ histBrowsing' = FALSE
  BY DEF HistNext, histVars, Enter, GiveUpLine, Backspace, Type, Up, Down, BrowsingType
<1> QED BY <1>1, Zenon DEF BrowsingType

(* Every variable of the keyboard driver, the line editor, the VFS, memory *)
(* and the screen keeps its type.                                          *)
THEOREM ServicesTypes == Spec => []TypeOK
<1>1. Spec => []KbFlagTypes
  <2>1. Init => KbFlagTypes
    BY DEF Init, KbInit, KbFlagTypes
  <2>2. [Next]_vars => [KbNext]_kbVars
    BY DEF Next, vars
  <2> QED BY <2>1, <2>2, KbFlagsStep, PTL DEF Spec
<1>2. Spec => []BrowsingType
  <2>1. Init => BrowsingType
    BY DEF Init, HistInit, BrowsingType
  <2>2. [Next]_vars => [HistNext]_histVars
    BY DEF Next, vars
  <2> QED BY <2>1, <2>2, BrowsingStep, PTL DEF Spec
<1>3. KbInv /\ KbFlagTypes => KbTypeOK
  <2>1. KbFlagTypes => {kbExtended, kbCtrl, kbCaps, kbMarker, kbTorn} \subseteq BOOLEAN
    BY Zenon DEF KbFlagTypes
  <2>2. /\ KbInv => kbRing \in [0 .. KbBuf - 1 -> Bytes \cup {NoByte}]
        /\ KbInv => {kbRp, kbWp} \subseteq 0 .. KbBuf - 1
        /\ KbInv => kbAt \in {"poll", "hlt", "halted", "take"}
        /\ KbInv => kbTyped \in Seq(DOMAIN KeyBytes)
    <3> SUFFICES ASSUME KbInv
                 PROVE  /\ kbRing \in [0 .. KbBuf - 1 -> Bytes \cup {NoByte}]
                        /\ {kbRp, kbWp} \subseteq 0 .. KbBuf - 1
                        /\ kbAt \in {"poll", "hlt", "halted", "take"}
                        /\ kbTyped \in Seq(DOMAIN KeyBytes)
      OBVIOUS
    <3>1. KbTypes
      BY DEF KbInv
    <3>2. DOMAIN KeyBytes = Keys
      BY DEF KeyBytes, Keys
    <3> QED BY <3>1, <3>2 DEF KbTypes
  <2> QED BY <2>1, <2>2 DEF KbTypeOK
<1>4. HistInv /\ BrowsingType => HistTypeOK
  BY DEF HistInv, HistTypes, BrowsingType, HistTypeOK, Lines
<1>5. VfsInv => VfsTypeOK
  BY DEF VfsInv, NodeTypes
<1>6. MemInv => MemTypeOK
  BY DEF MemInv, MemTypes, MemTypeOK, Tables, PageSet
<1>7. ScrInv => ScrTypeOK
  BY DEF ScrInv, TermInv, Terminal, TerminalSet, LineSet, ScrTypeOK
<1>8. KbInv /\ KbFlagTypes /\ HistInv /\ BrowsingType /\ VfsInv /\ MemInv /\ ScrInv => TypeOK
  BY <1>3, <1>4, <1>5, <1>6, <1>7 DEF TypeOK
<1> QED BY <1>1, <1>2, <1>8, ServicesKeyboardInvariant, ServicesHistoryInvariant,
           ServicesNodesInvariant, ServicesMemoryInvariant, ServicesScreenInvariant, PTL
=============================================================================
