-------------------------------- MODULE Vfs --------------------------------
(***************************************************************************)
(* Path look-up and who owns the nodes it hands out: kernel/fs/vfs.c, the  *)
(* nodes of kernel/fs/initrd.c, and the commands of kernel/shell.c and     *)
(* functions of kernel/user.c and kernel/kernel.c that open, use and free  *)
(* them.                                                                   *)
(*                                                                         *)
(* The initial RAM disk has the directory etc and in it the file motd, in  *)
(* a static pool.  What lies below a mounted StackFS is open: each finddir *)
(* there finds nothing, or a file or a directory for which it allocates a  *)
(* node, unless the heap is exhausted.                                     *)
(***************************************************************************)
EXTENDS Integers, Sequences, FiniteSetsExt, SequencesExt

CONSTANTS
    VfsNodes,     \* nodes the heap has room for
    MaxMounts     \* MAX_MOUNTS

\* Room for the two roots that the kernel mounts at its start.
ASSUME VfsAssumption ==
    /\ VfsNodes \in Nat \ {0}
    /\ MaxMounts \in Nat /\ MaxMounts >= 2

Null == 0
Root == -1        \* initrd's nodes
Etc == -2
Motd == -3
Heap == 1 .. VfsNodes
Static == {Root, Etc, Motd}
Paths == {<<>>, <<"etc">>, <<"etc", "motd">>, <<"disk">>, <<"disk", "a">>, <<"disk", "a", "b">>}

VARIABLES
    vfsMounts,    \* mounts: the entries used, in order
    vfsLive,      \* nodes allocated from the heap
    vfsDirs,      \* those of them that are directories
    vfsPath,      \* the argument of the command
    vfsProg,      \* what is left of the command
    vfsVar,       \* its variables: d, a directory, and c, a child or file
    vfsWalk,      \* the loop of vfs_open, or NoWalk
    vfsLost,      \* history: nodes nobody has a pointer to any more
    vfsTwice      \* history: a node was freed that was free

NoWalk == [into |-> "none"]
vfsVars == <<vfsMounts, vfsLive, vfsDirs, vfsPath, vfsProg, vfsVar, vfsWalk, vfsLost, vfsTwice>>

\* vfs_init, initrd_init, and a first disk mounted or not.
VfsInit ==
    /\ \/ vfsMounts = <<[path |-> <<>>, node |-> Root]>> /\ vfsLive = {}
       \/ vfsMounts = <<[path |-> <<>>, node |-> Root], [path |-> <<"disk">>, node |-> 1]>>
          /\ vfsLive = {1}
    /\ vfsDirs = vfsLive
    /\ vfsPath = <<>> /\ vfsProg = <<>> /\ vfsVar = [d |-> Null, c |-> Null]
    /\ vfsWalk = NoWalk /\ vfsLost = {} /\ vfsTwice = FALSE

---------------------------------------------------------------------------
(* Nodes *)

MountRoots == {vfsMounts[i].node : i \in DOMAIN vfsMounts}
IsDir(n) == n \in {Root, Etc} \cup vfsDirs

\* FAULT (NodesOwned): vnode_free does not look at the mount table.
NeverMountRoot(n) == FALSE
IsMountRoot(n) == n \in MountRoots

\* kfree: the null pointer and nodes of the static pool, which have no block
\* header in front, are let pass.
Kfree(n) ==
    /\ vfsLive' = vfsLive \ {n} /\ vfsDirs' = vfsDirs \ {n}
    /\ vfsTwice' = (vfsTwice \/ n \in Heap \ vfsLive)

NothingFreed == UNCHANGED <<vfsLive, vfsDirs, vfsTwice>>

\* mount_lookup: the first entry of that path.
MountAt(path) ==
    LET i == SelectInSeq(vfsMounts, LAMBDA m : m.path = path)
    IN  IF i = 0 THEN Null ELSE vfsMounts[i].node

\* initrd_finddir.
StaticChild(n, name) ==
    CASE n = Root /\ name = "etc" -> Etc
      [] n = Etc /\ name = "motd" -> Motd
      [] OTHER -> Null

\* vfs_finddir, then kfree of old unless it is Null: in child the result.
FindDir(dir, name, old, child) ==
    /\ vfsTwice' = (vfsTwice \/ old \in Heap \ vfsLive)
    /\ \/ /\ dir \in Static \cup {Null} \/ ~IsDir(dir)
          /\ child = IF dir \in Static THEN StaticChild(dir, name) ELSE Null
          /\ vfsLive' = vfsLive \ {old} /\ vfsDirs' = vfsDirs \ {old}
       \/ /\ dir \in vfsDirs
          /\ child = Null
          /\ vfsLive' = vfsLive \ {old} /\ vfsDirs' = vfsDirs \ {old}
       \/ /\ dir \in vfsDirs /\ Heap \ vfsLive # {}
          /\ child = Min(Heap \ vfsLive)
          /\ vfsLive' = (vfsLive \cup {child}) \ {old}
          /\ \E new \in {{}, {child}} : vfsDirs' = (vfsDirs \cup new) \ {old}

---------------------------------------------------------------------------
(* vfs_open *)

Done(into, node) ==
    /\ vfsVar' = [vfsVar EXCEPT ![into] = node]
    /\ vfsWalk' = NoWalk
    /\ vfsProg' = Tail(vfsProg)

\* Root and exact mount points are returned as they are; else the walk begins.
Open(into, path) ==
    /\ vfsWalk = NoWalk
    /\ IF path = <<>> THEN Done(into, Root)
       ELSE IF MountAt(path) # Null THEN Done(into, MountAt(path))
       ELSE /\ vfsWalk' = [into |-> into, walked |-> <<>>, rest |-> path, cur |-> Root, owned |-> FALSE]
            /\ UNCHANGED <<vfsVar, vfsProg>>
    /\ NothingFreed
    /\ UNCHANGED <<vfsMounts, vfsPath, vfsLost>>

\* FAULT (NodesOwned): the node walked through is left to itself.
NeverOwned == Null
Passed == IF vfsWalk.owned THEN vfsWalk.cur ELSE Null

\* A turn of the loop: a mount point, a child, or the end.
WalkStep ==
    /\ vfsWalk # NoWalk
    /\ LET w == vfsWalk
           walked == Append(w.walked, Head(w.rest))
           mount == MountAt(walked)
           Goto(n, owned) ==
               IF n # Null /\ Tail(w.rest) # <<>>
               THEN /\ vfsWalk' = [w EXCEPT !.walked = walked, !.rest = Tail(@),
                                            !.cur = n, !.owned = owned]
                    /\ UNCHANGED <<vfsVar, vfsProg>>
               ELSE Done(w.into, n)
       IN  \/ mount # Null /\ Kfree(Passed) /\ Goto(mount, FALSE)
           \/ mount = Null /\ ~IsDir(w.cur) /\ Kfree(Passed) /\ Done(w.into, Null)
           \/ /\ mount = Null /\ IsDir(w.cur)
              /\ \E child \in Heap \cup Static \cup {Null} :
                     /\ FindDir(w.cur, Head(w.rest), Passed, child)
                     /\ Goto(child, TRUE)
    /\ UNCHANGED <<vfsMounts, vfsPath, vfsLost>>

---------------------------------------------------------------------------
(* Commands, as the sequence of what they do with nodes *)

\* cat, stat, wc, head, cd and users_load; ls and tree; touch, mkdir and rm;
\* write and append; cp; users_save and disk_first_boot.
Commands ==
    [read |-> <<"open_c", "free_c">>,
     list |-> <<"open_d", "a_directory", "more", "child", "free_c", "more", "child", "free_c",
                "free_d">>,
     change |-> <<"open_dir", "free_d">>,
     store |-> <<"open_dir", "a_directory", "child", "exists_or_made", "free_c", "free_d",
                 "open_dir", "child", "free_d", "free_c">>,
     copy |-> <<"open_c", "a_file", "free_c", "open_dir", "writable", "free_d",
                "open_dir", "child", "free_d", "free_c">>,
     save |-> <<"open_dir", "found", "open_dir", "opened", "child", "saved", "open_dir",
                "child", "free_c", "lose_d">>]

Start(name, path) ==
    /\ vfsProg = <<>>
    /\ name = "save" => path = <<"disk", "a", "b">>
    /\ vfsProg' = Commands[name] /\ vfsPath' = path
    /\ NothingFreed
    /\ UNCHANGED <<vfsMounts, vfsVar, vfsWalk, vfsLost>>

At(step) == vfsProg # <<>> /\ Head(vfsProg) = step /\ vfsWalk = NoWalk

\* resolve of the argument; resolve_dir_and_name of its directory.
OpenStep ==
    \/ At("open_c") /\ Open("c", vfsPath)
    \/ At("open_d") /\ Open("d", vfsPath)
    \/ At("open_dir") /\ Open("d", IF vfsPath = <<>> THEN <<>> ELSE Front(vfsPath))

\* vfs_finddir of the last name, or of an entry of the directory.
ChildStep ==
    /\ At("child")
    /\ \E child \in Heap \cup Static \cup {Null} :
           /\ FindDir(vfsVar.d, IF vfsPath = <<>> THEN "etc" ELSE Last(vfsPath), Null, child)
           /\ vfsVar' = [vfsVar EXCEPT !.c = child]
    /\ vfsProg' = Tail(vfsProg)
    /\ UNCHANGED <<vfsMounts, vfsPath, vfsWalk, vfsLost>>

\* vnode_free.
FreeOf == [c |-> "free_c", d |-> "free_d"]
FreeStep(v) ==
    /\ At(FreeOf[v])
    /\ IF IsMountRoot(vfsVar[v]) THEN NothingFreed ELSE Kfree(vfsVar[v])
    /\ vfsVar' = [vfsVar EXCEPT ![v] = Null]
    /\ vfsProg' = Tail(vfsProg)
    /\ UNCHANGED <<vfsMounts, vfsPath, vfsWalk, vfsLost>>

\* The tests in between: where one fails the command frees what it holds and
\* returns.  Only StackFS nodes can be written to.
TestStep ==
    /\ vfsProg' \in
         CASE At("a_directory") -> {IF IsDir(vfsVar.d) THEN Tail(vfsProg) ELSE <<"free_d">>}
           [] At("more") -> {Tail(vfsProg), <<"free_d">>}
           [] At("exists_or_made") ->
                {IF vfsVar.c = Null /\ vfsVar.d \in Static THEN <<"free_d">> ELSE Tail(vfsProg)}
           [] At("a_file") ->
                {IF vfsVar.c = Null \/ IsDir(vfsVar.c) THEN <<"free_c">> ELSE Tail(vfsProg)}
           [] At("writable") -> {IF vfsVar.d \in Heap THEN Tail(vfsProg) ELSE <<"free_d">>}
           [] At("found") -> {IF vfsVar.d # Null THEN Tail(Tail(vfsProg)) ELSE Tail(vfsProg)}
           [] At("opened") -> {IF vfsVar.d = Null THEN <<>> ELSE Tail(vfsProg)}
           [] OTHER -> {}
    /\ NothingFreed
    /\ UNCHANGED <<vfsMounts, vfsPath, vfsVar, vfsWalk, vfsLost>>

\* users_save and disk_first_boot never free the directory they opened; when
\* the file has to be created users_save opens the directory once more.
LoseStep ==
    /\ At("lose_d") \/ At("saved")
    /\ IF At("saved") /\ vfsVar.c # Null
       THEN vfsProg' = <<"free_c", "lose_d">> /\ UNCHANGED <<vfsVar, vfsLost>>
       ELSE /\ vfsProg' = Tail(vfsProg)
            /\ vfsLost' = vfsLost \cup (({vfsVar.d} \cap Heap) \ MountRoots)
            /\ vfsVar' = [vfsVar EXCEPT !.d = Null]
    /\ NothingFreed
    /\ UNCHANGED <<vfsMounts, vfsPath, vfsWalk>>

\* stackfs_mount and vfs_mount, by mount and format.  When the table is full
\* the new root is lost; a second root of the same path is never looked up.
MountDisk ==
    /\ vfsProg = <<>> /\ Heap \ vfsLive # {}
    /\ LET root == Min(Heap \ vfsLive)
       IN  /\ vfsLive' = vfsLive \cup {root} /\ vfsDirs' = vfsDirs \cup {root}
           /\ IF Len(vfsMounts) < MaxMounts
              THEN vfsMounts' = Append(vfsMounts, [path |-> <<"disk">>, node |-> root])
                   /\ UNCHANGED vfsLost
              ELSE vfsLost' = vfsLost \cup {root} /\ UNCHANGED vfsMounts
    /\ UNCHANGED <<vfsPath, vfsProg, vfsVar, vfsWalk, vfsTwice>>

VfsNext ==
    \/ \E name \in DOMAIN Commands, path \in Paths : Start(name, path)
    \/ OpenStep \/ WalkStep \/ ChildStep \/ (\E v \in {"c", "d"} : FreeStep(v))
    \/ TestStep \/ LoseStep \/ MountDisk

---------------------------------------------------------------------------
(* Properties *)

VfsTypeOK ==
    /\ vfsDirs \subseteq vfsLive /\ vfsLive \subseteq Heap
    /\ Len(vfsMounts) \in 1 .. MaxMounts
    /\ vfsPath \in Paths
    /\ vfsVar \in [{"c", "d"} -> Heap \cup Static \cup {Null}]

\* What the command and vfs_open have in hand.
Held == ({vfsVar.c, vfsVar.d} \cup (IF vfsWalk = NoWalk THEN {} ELSE {vfsWalk.cur})) \cap Heap

\* Every node of the heap is a mounted root, in hand, or lost in one of the
\* places that never free it (users_save, disk_first_boot, a mount with the
\* table full); none is freed twice, used after it was freed, or freed while
\* mounted; and a command that returned has left nothing behind.
NodesOwned ==
    /\ ~vfsTwice
    /\ vfsLive = (MountRoots \cap Heap) \cup vfsLost \cup Held
    /\ MountRoots \cap vfsLost = {} /\ Held \cap vfsLost = {}
    /\ vfsVar.c = vfsVar.d => vfsVar.c \notin Heap \ MountRoots
    /\ vfsProg = <<>> => Held = {}
=============================================================================
