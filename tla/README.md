# StackOS in TLA+

Models, model-checking runs and machine-checked proofs for the StackOS kernel
(`src/kernel`). The modules follow the code, not its comments: where the two disagree
the run is listed under "Disagreements" below.

Run a check with `tlc -config MCSched_safety.cfg MCSched` (and so on), the proofs with
`tlapm SchedProofs.tla`, `tlapm HeapProofs.tla` and so on.

## The system

StackOS is a 32-bit x86 kernel in one address space. One CPU; threads give it up
voluntarily. Interrupt handlers (timer, keyboard, network card) change a few variables of
their own. The shell runs on the boot thread, PID 0, and calls everything else.

| Component | State | Operations | Must hold | Hard because |
|---|---|---|---|---|
| Scheduler `proc/` | process table, run queue, `current`, next PID, tick counter | create, yield, sleep, block, unblock, exit, schedule, timer interrupt | queue is a queue of READY processes, one RUNNING, PIDs unique, exits final, sleeps last, nobody starves | ticks between any two steps; a process can wake itself; PID 0 is special |
| Heap `mm/heap.c` | list of block headers in one region | kmalloc, kfree, kcalloc | blocks tile the region, allocations undisturbed, everything merges back | unsigned arithmetic, links in two directions |
| StackFS `fs/stackfs.c` | inodes, bitmap, superblock, dirty flags, disk | create, mkdir, unlink, write, read, format, mount, sync | no block shared, counts right, entries live, data readable, what returned is on disk | power cut between writes; block 0; ignored results |
| Accounts `user.c` | account table, session, text of the passwd file | add, delete, change password, log in and out, load, save | the file records the table; root reachable | file never shortened; text taken apart again; silent failures; reboots |
| VFS, initrd `fs/` | mount table, nodes on the heap, static file pool | mount, open, read, write, finddir | look-up finds what is mounted; nodes freed once | ownership by convention |
| Keyboard `drivers/keyboard.c` | ring of 512 bytes, modifier flags | interrupt, poll, getchar, the shell's read_key | keys read in order, each whole | interrupt against reader, full ring between the two bytes of a key |
| Line editor `shell.c` | line, ring of past lines | type, erase, enter, up, down | UP recalls what was entered | the ring goes round while it is browsed |
| ATA `drivers/disk/ata.c` | drive registers, interrupt flag | read, write, flush | one transfer at a time | ends with `sti` whatever was before |
| Network `net/`, `drivers/net/` | ARP cache, UDP bindings, DHCP variables, descriptor rings | receive, send, DHCP exchange | an address only from an acknowledged lease | lost, repeated, late answers; handler re-entered |
| Frames, paging `mm/` | frame bitmap, directories, tables | alloc, free, map, unmap, create, destroy | no frame with two owners | sizes in 32 bits, silent failure |
| System calls `syscall/` | break of sbrk | dispatch | break stays in the pool | bounds |
| Start-up `kernel.c` | interrupt flag, what is initialised | one sequence | nothing waits for an interrupt that is off | differs with and without disk |
| Screen `drivers/vga.c`, `gui/fbterm.c` | cells, cursor | print, scroll, clear | the end of the output is shown | edges: last column, last line, tabs |
| Serial, PCI, GDT/IDT, fonts | registers and pixels | output, enumeration | - | no protocol over time |

Interactions: the shell and `kernel_main` call the file system and the accounts;
`users_save` and `users_load` go through the VFS to StackFS, StackFS to the ATA driver;
VFS nodes, process stacks come from the heap; schedule() reads the timer's counter, which
the timer interrupt advances; DHCP polls the network card while it waits for the timer.

## Modules

| Module | Stands for |
|---|---|
| `Sched` | `proc/process.c`, `proc/switch.asm` (what a task returns to), the timer interrupt |
| `RoundRobin` | what the scheduler promises: a line of waiting processes and a processor |
| `SchedProofs`, `HeapProofs`, `StackFSProofs`, `UsersProofs` | theorems about the module named |
| `BootProofs` | theorems about `Boot` with its parts `E1000` and `Net` |
| `ServicesProofs`, `VfsProofs` | theorems about `Services`; those about nodes, and the types of all parts, in `VfsProofs` |
| `Lemmas` | what several proofs need: least elements, induction over a set of numbers, remainders |
| `Heap` | `mm/heap.c` |
| `StackFS` | `fs/stackfs.c` |
| `Users` | `user.c`, its callers in `shell.c` and `kernel.c`, and what it sees of StackFS |
| `E1000` | the receive side of `drivers/net/e1000.c` and the card beside it |
| `Net` | `net/net.c`: ARP, where packets go, the DHCP client's answers; extends `E1000` |
| `Boot` | `kernel.c` from the disk on, `dhcp_request`, the disk's `cli` and `sti`, the interrupts, `dhcp` and `ping`; extends `Net` |
| `Keyboard` | `drivers/keyboard.c` and the shell's read_key |
| `History` | the line editor of `shell.c` |
| `Vfs` | `fs/vfs.c`, the nodes of `fs/initrd.c`, and what the commands open and free |
| `Memory` | `mm/pmm.c`, `mm/paging.c`, the break of `syscall/syscall.c` |
| `Screen` | `drivers/vga.c` and `gui/fbterm.c` as terminals |
| `Services` | the last five side by side: they share no state |
| `MCSched`, `MCHeap`, `MCStackFS`, `MCUsers`, `MCBoot`, `MCServices` | the small sets the runs use |

A definition marked FAULT is a mistake the code could have made; no specification uses
it. Put in the place of the definition behind it, it must violate the properties it
names.

### Sched

`state`, `pid`, `wakeTick` are fields of `proc_table`; `queue` is the list from
`run_queue` through `next`; `pc`, `now`, `scan` are the place inside schedule() and its
locals. A call of yield, sleep, block or exit does its own assignments in one step and
sets `pc` to "clock"; then schedule() reads the clock (`ReadClock`), looks at one slot
per step (`WakeStep`) and switches (`Dispatch`). `TimerTick` may come between any two.
No interrupt handler touches the table (proc_tick has no caller), so larger steps for
the rest are faithful. PID 0 yields, sleeps and creates; that it never blocks or exits is
how the kernel uses it (no caller of proc_block or proc_exit runs on it). `deadline` is a
history variable: the tick proc_sleep was asked to sleep until. `Return` models a task's
function returning into the stack proc_create_kernel laid out; the kernel's one task
function never returns, so it is a step of `ReturningSpec` only.

### Heap

`hdr` maps addresses to headers. kmalloc is one step (it runs to its end, no other
thread in between); kfree is one step per merge, so that the loop and what follows it are
seen. Sizes wrap at `SizeMod`. When a split wraps, the header is written where the code
writes it and `smashed` is set; a damaged heap is not followed further.

### StackFS

`inodes`, `bitmap`, `sb`, `dirty` are the memory copies, `disk` what the sectors hold,
`data` the data blocks. An operation is a step up to its first write, then
`SyncInode` (one inode each), `SyncBitmap` and `SyncSb`; a write is one step per block.
Pointer 0 means "no block", and block 0 is allocated like any other: both as in the code.
Only inodes that a path leads to (`Tree`) are operated on, as the shell looks every path
up anew. `PowerCut` may come between any two steps; the behaviour ends with the mount
that follows. `op` and `promised` are history: the operation under way with the blocks it
has taken, and the entries reported as made. Simplified: one inode at a time instead of a
sector (4.3 inodes), a data block at a time instead of eight sectors, disk errors never.

### Users

`users` is the table, `passwd` the text of the file. Names, passwords and the file are
sequences of characters: users_save writes lines `name:password:level` (`LineOf`,
`ActiveLines`), over the start of what is there (`Over`: the tail of a longer text stays,
from wherever it is cut), and users_load takes the text apart as the code does (`LinesOf`,
`IsEntry`, `Entry`, `Loaded`): the first and second `:`, fields up to their room, one digit,
lines that do not fit skipped, up to `UserMax` accounts. Nothing refuses a `:` in what is
typed; `plain` (history) says that nobody has typed one. What is typed has no line end.
`fresh` says that the disk was just formatted: the next entry made on it is lost (see
StackFS), and users_save then gives up. The guards are those of the shell's commands.
`deleted` is history.

### E1000, Net and Boot

One behaviour runs from the detection of the disk to the shell, and on through commands.
`E1000` is the ring: `dd` (descriptors filled), the card's registers `rdh` and `rdt`, the
driver's `rx_tail`, and for each of the two contexts that call e1000_handle_irq, the
polling thread and the interrupt, the place where it is. `Net` says what happens to a
frame once taken, `Boot` holds the thread (`pc`) and the interrupt flag. An interrupt may
come between any two steps while the flag is set, also into the handler that polling has
entered; while it is served the thread stands still (`MainAt`).

A frame is a message of some host, chosen when it is read: for DHCP any answer a server
may have sent to anything sent so far, so that answers are late, repeated, lost (never
read) and out of order; for ARP any claim of any host. `traffic` picks one of the two
kinds for a behaviour. DHCP state and ARP cache meet only in net_ip, and a behaviour with
ARP traffic still runs through the whole exchange unanswered. The callback is one step;
where the interrupt breaks into it (`reentered`) the properties say nothing about what it
wrote. The reset in dhcp_request is two steps, flags and values, as an answer between
them makes a difference; ping is two, look-up and sending, as an answer between them
may overwrite the static packet (`Torn`). That can only happen when the handler sends
something: an ARP packet that is only learnt from leaves the frame alone, and the frame
goes to the address looked up before. A frame carries that address and, as history, the
one the next hop had last given at the look-up (`latest`).

A server's name stands for its address and for its value of each option. A message carries
any of the sets of options in `Carried`, the server's own address among them; each is
stored if present (`OptsAfter`, `ServerAfter`), whatever the message is. `asked` (REQUESTs
sent), `lease` (who gave the ACK accepted last, and which of its options nobody has
overwritten), `leased` (the same when dhcp_request returned), `heard`, `reentered` are
history. The transmit ring and checksums are left out.

### Services

`Keyboard`: a step per scancode, and per look, hlt and byte taken, so that the interrupt
comes between look and hlt. Keys are classes: a letter with and without Ctrl and Caps
Lock, a code that is an arrow behind the prefix and a digit without, another extended
key. `kbTyped` is the history of keys in the ring, `kbTorn` that a two-byte key went in
by half.

`History`: a step per key of read_line. `histEntered` is the history of lines entered.

`Vfs`: nodes are numbers of the heap or names in initrd's static pool. vfs_open is a step
per path component; a command is the sequence of opens, look-ups, tests and frees that it
makes (`Commands`), one command for each distinct sequence. What lies on the disk is
open. `vfsLost` collects nodes nobody can free any more, at the three places where the
code loses them, and `vfsTwice` says that one was freed twice.

`Memory`: frames are numbers, directories and tables the frames they lie in. Callers pass
only frames they have, processes map into their own half, devices go into the kernel's
directory: so the code is used. `memHeld` and `memLost` are history.

`Screen`: a step per character. `scrPage` is the history: the same output on endless
paper.

## Runs

| Run | Shows | Bounds, and why they are enough |
|---|---|---|
| `sched_tasks` | queue sound, one running process, PIDs unique, exit final, tasks sleep their time; every queued process and every due sleeper runs as long as the shell goes on yielding (`ShellYields`), `Sched` implements `RoundRobin` | 4 slots and 3 PIDs: three tasks waking, queueing, exiting beside PID 0; 2 ticks; sleeps of 0 and 1 tick, so that a process can be due at once, later, or together with another |
| `heap_safety` | tiling, links, merging, allocations kept | a region of 236 bytes holds five blocks; requests include the merged size of two blocks |
| `fs_safety` | no shared blocks, exact counts, live entries, readable files, everything on disk at return, bounded damage by a power cut | root, three more inodes, four blocks, two pointers, one entry per directory block: disk full, directory in two blocks, a directory in the root, duplicates, writes cut short |
| `users_accounts` | file records table; as long as no `:` was typed nobody is lost at a reboot, root stays root, the account logged in is never a deleted one | a table of three with two built-in accounts: full table, deletion, format; a name with and one without the separator, a password that is longer than its field and one with the separator, so that lines have many lengths, tails start in the middle of a line, and lines are skipped or read as somebody else's |
| `boot_net` | ring and card in step, packets to the address last heard, leases only from acknowledged requests, dhcp_request ends if there is a disk | ring of 3 and 4 frames: it goes round, fills up, and is taken by both contexts; 2 attempts, 1 poll each: time-out, retry, late answer; 2 servers, so that answers mix; one option, in messages with and without it and the server's address; 3 hosts on an ARP cache of 2: replacement of slot 0; 1 dhcp command after start-up: the second exchange meets answers to the first; with and without disk, and with the card's interrupt line open and closed |
| `services` | keyboard, editor, VFS, memory and screen, each alone (`part`) | ring of 4 bytes and 7 scancodes: full ring with one place left for two bytes, and emptied again; history of 2 with 4 lines: round twice; 5 nodes and 3 mounts: heap exhausted, mount table full, a path mounted twice; 16 frames of 4 bytes and words of 64, so that one memory size wraps to nothing, one leaves a few frames, one leaves one more; 2 by 2 directory slots and 2 pages: shared kernel tables, tables made and destroyed, memory out in the middle of a mapping; 3 by 2 characters, tabs of 2, 6 characters: wrap, scroll, tab over the edge |
| `sched_lost`, `sched_return`, `heap_split`, `fs_lost`, `users_deleted`, `boot_diskless` | the disagreements below | small instances, enough for the counterexample |

Every bound is a constant (`MaxPid`, `MaxTicks`, `UserMax` is the code's own, ...) named in the
module. Deadlock is not checked where a behaviour may end: a task that returned to
address 0, a damaged heap, the mount after a power cut, the bound on scancodes, characters
or frames, and, in `boot_net`, a machine without disk that waits for a tick with interrupts
off.

### Fairness

Three of the passing runs assume some.

`sched_tasks`: `ReadClock`, `WakeStep`, `Dispatch`: the CPU goes on executing schedule().
`TaskGivesUp`: a task that has the CPU calls yield, sleep, block or exit in the end, as
heartbeat_task does in each turn of its loop. `TimerTick`: the timer ticks (up to its
bound). Nothing is assumed of the shell: it waits in keyboard_getchar with hlt, never
yields there, and nothing preempts it. So what depends on it is a condition, in the
property: `QueuedRuns` and `SleeperResumes` begin with `ShellYields` (whenever the shell has
the CPU, somebody types yield or sleep some time), and the line of `RoundRobin` moves on
for certain only while somebody other than `Idle`, PID 0, is served. Without the condition
a queued task may wait for ever.

`boot_net`: weak fairness of `Main` and `Irq`, the CPU going on in thread and handler, and
of `TimerIrq`, the PIT ticking while interrupts are on. Nothing is assumed of network and
user. Frames are bounded, as endless interrupts would keep any thread from going on.
`boot_diskless` assumes the same.

`services`: weak fairness of the reader, as the shell comes back to keyboard_getchar, and
of the timer, which wakes it from hlt. Nothing is assumed of who types.

## Proofs

Every invariant and every action property of the passing runs, but for three about the
accounts (see "Not proved"), is a theorem, `Spec => []P` for every value of the constants:
any number of slots, blocks, descriptors, lines, accounts, options. Each follows from an
inductive invariant, which has a theorem of its own and is kept by every action, by one
lemma per action or per group of actions that touch the same variables.

| Theorems | Inductive invariant | Properties that follow |
|---|---|---|
| `SchedProofs` | `IInv` | TypeOK, QueueSound, RunningIsCurrent, OnlyRunnableHasCpu, PidUnique, ExitIsFinal; with `ClockInv` SleepLasts; the steps of `RoundRobin` |
| `HeapProofs` | `IInv` | TypeOK, Tiled, NoAdjacentFree, CoalescesFully, AllocationsKept |
| `StackFSProofs` | `IInv` (`Running`, after a power cut `Cut`) | TypeOK, BlocksNotShared, CountsExact, EntriesLive, FileReadable, Synced, CrashDamage |
| `UsersProofs` | `IInv` | TypeOK, Recorded |
| `BootProofs` | `RingInv`, `ArpInv`, `ClientInv` | RingInStep, SentToLatest, LeaseFromAck, TypeOK |
| `ServicesProofs` | `HistInv`, `ScrInv`, `MemInv`, `KbInv` | HistoryRecalls, ShowsTail, FramesOwned, KeysInOrder |
| `VfsProofs` | `VfsInv` | NodesOwned, and TypeOK of `Services` |

### Assumptions

The constants satisfy what the modules assume of them, and TLC evaluates on each run. The
assumptions say that counts are numbers, and sizes that are divided by, or that must hold
something, not 0. Beyond that:

- `HeapAssumption`: the region holds a header, and twice region and header fit the range of
  a size (the kernel's is 4 MB, in 32 bits). Requests may be as large as the range, and wrap.
- `E1000Assumption`: the ring has two descriptors at least.
- `NetAssumption`: the values for "no address" and for broadcasts are no host's or server's;
  messages carry options there are.
- `UsersAssumption`: the table has room for the two built-in accounts, the fields for their
  names and passwords; what is typed is a text without a line end, and not empty.
- `VfsAssumption`: the mount table has room for what kernel_main mounts.
- `MemoryAssumption`: user and kernel halves of a directory have no entry in common.

One theorem has a hypothesis of its own: `SleepsLast` asks that no wake-up time overflows
its 32-bit field (`NoOverflow`). Where a property has a condition in it (a heap not
damaged by a wrapped split, a handler that has not interrupted itself, no key gone in by
half), the theorem says it too; the run shows that both sides of the condition happen.

### Arguments

Scheduler. QueueSound alone is not inductive: that a woken process is not queued already
needs the states to agree with the queue (`OnlyRunnableHasCpu`, `RunningIsCurrent`),
unblock and create need to know which slots are in use (`PidUnique`, `PidsBounded`), and
that PID 0 neither blocks nor exits (`Pid0Alive`) keeps the fall-back of schedule() from
reviving it. `RoundRobinSafety` maps each step to a step of `RoundRobin` or to none.
`SleepsLast` carries `ClockInv` beside `IInv`.

Heap. Tiling is kept by a split if the difference of sizes did not wrap, and by a merge
because a neighbour in the list is a neighbour in memory. That nothing free stays unmerged
is not kept by the steps of kfree one by one: `AlmostMerged` names the one block that may
still have free neighbours, and on which side, at each place in merge_free.

StackFS. `Running` has eight parts, and each operation is shown to keep them one after the
other. `Marks`, `Counts` and `Entries` say what memory is like between any two steps.
`Files` alone is not kept by bfs_write, which gives a file its blocks first and its size
at the end: `Writing` says what is stored up to the position reached. `Syncing` says how
far the loop of stackfs_sync has come, so that nothing is dirty when it returns; and
`CutSafe` says what the disk holds meanwhile: between inodes written and inodes still to
be written no block is shared, and whatever is wrong belongs to the operation under way.
That is what a power cut makes into `Cut`. `ZeroTaken` is needed as block 0 is nobody's
once a pointer to it is stored: it is the first to be handed out, to a directory, before
there can be a file to lose data. Which inodes paths lead to (`Tree`) is bounded by any set
that has the root and with a directory what it holds.

Accounts. The invariant is weak on purpose: of the file it says that it is some text, and
that it begins with the lines of the accounts. What users_load makes of any text fits the
table (`TableOK`: each field ends in time, a level is one digit), and users_save, called
next, makes `Recorded` true again by the overwriting alone. `FileOK` adds that a freshly
formatted disk has no file.

Receive ring. `RingInv` is about the numbers between two places in the ring, going round:
the descriptors filled are those from rx_tail to the card's head. The interrupt may come
anywhere but between reading and releasing a descriptor (`reentered`), so both contexts
release what they took.

ARP, DHCP. `ArpInv`: one entry for a host, with the address it gave last; a frame is looked
up with that and keeps it. `ClientInv` joins values to flags at each place of dhcp_request:
the acknowledgement is set exactly when there is a lease or it was spoilt, the address is
then that of the server which gave it and was asked for, and an option the lease still has
is what that server said, whenever the interrupt brings an answer.

Line editor, screen, keyboard. The history variable is compared with the ring or the cells
place by place: the i-th last line is in slot (n - i) modulo the size, a line of the screen
is as far above the cursor as the paper's is above the paper's end, the bytes of the keys
typed are the byte in read_key's hand and those from read to write index.

Frames. `OwnersApart` says that the frames of callers, directories, tables and mappings,
and those lost, are five disjoint sets, and with those that pmm_init keeps back
(`Reserved`) all the frames in use: none leaks. `OneEntry` and `OnePage` are needed for
destruction: each table, and each frame mapped, is freed once. Kernel tables are shared by
all directories and never freed.

Nodes. The rest of a command is one of a fixed set of suffixes of `Commands`; each says
which of the two variables hold a node (`InHand`). While vfs_open walks, the command holds
nothing, and the node walked through is a mounted root or vfs_open's own (`WalkHolds`).

### Not proved

Liveness under fairness stays with TLC: `QueuedRuns`, `SleeperResumes`, the fairness of
`RoundRobin` (`ImplementsRoundRobin` as a whole), `DhcpEnds`, `KeyIsRead`. tlapm has no
rules for ENABLED. The violation runs are counterexamples and need none.

`RootIsRoot`, `CurrentIsActive` and `NobodyLost` need that a line without `:` in its name and
password is taken apart into what it was put together from, for any number of lines and with
any tail behind them: a computation over texts. They are model-checked only.

Induction over data: the induction principles of the library take a predicate as
parameter, which the provers cannot instantiate. Where a proof needs induction (the loops
of users_save and users_load, of the tab and of `Tree`), `Lemmas!SetInduction` is used
on a set of numbers, and the recursive function gets its equation by the same lemma.

## Disagreements

- `sched_lost`: READY is "in the run queue, waiting for CPU" (process.h:21). A task that
  wakes itself inside schedule() and is dequeued again returns READY, and is lost when it
  next yields.
- `sched_return`: "proc_exit if func returns" (process.c:117). The word on top of the new
  stack is 0.
- `heap_split`: "leftover becomes a new free block" (heap.c:31). An exact fit wraps the
  difference, and the new header overwrites the neighbour's.
- `fs_lost`: "created /disk/{etc,home,tmp,var}" (kernel.c:106). etc goes to block 0 and is
  never found.
- `users_deleted`: "persistent via /disk/etc/passwd" (user.c:3). A deleted account comes
  back at the next boot.
- `boot_diskless`: "Wait 5s for OFFER" (net.c:434), on a machine without a disk, as
  Makefile:111-114 and README.md:52-54 start it. The wait for a tick at net.c:437 never
  ends: interrupts are off until kernel.c:201, and only ata_read turns them on earlier.

Met on the way and not given a run of their own: the shell's sleep returns at once when
nobody else is ready (process.h:72), since PID 0 is the fall-back; a sleep across the wrap
of the 32-bit wake_tick ends early (hence `NoOverflow`); after a format the first account
added is not saved. Further:

- Scheduler: proc_tick, "Called by timer IRQ every tick — preempt after ~20ms" (process.c:210;
  process.h:87), has no caller. A queued task waits as long as the shell waits for a key.
- Accounts: `:` separates the fields of the file (user.c:29-34, 74-81) and is not refused in
  a name or password: such an account has another name, password and level after a reboot,
  against the same "persistent" (hence `plain`).
- Network: the flags of dhcp_request are reset before the values, so an offer handled in
  between leads to a request for 0.0.0.0 (net.c:422). A NAK handled after the ACK and
  before the return, or the reset itself, clears the address, and success is reported
  (`Spoilt`). Options of any later message replace those of the lease, and an option the
  ACK lacks keeps what an earlier message of any server said. The transaction number never
  changes. Polled handler and interrupt handle one frame twice when they overlap. Frames
  are built in static buffers that the interrupt uses too (net.c:100, 145).
- Keyboard: the keyboard's acknowledgement of an LED command arrives as a scancode and
  can fall between a prefix and its code, which is then taken for a keypad key. A two-byte
  key whose second byte found no place takes the next key's first byte for it.
- Shell: UP beyond HISTORY_MAX goes on into newer lines.
- VFS: users_save and disk_first_boot never free the directory they opened, though
  vfs.c:80-81 asks it of every caller. A mount with the table full loses its root, and the
  shell says "mounted" all the same; a second mount of a path is never looked up. Nodes of
  initrd's static pool reach kfree, which only its magic number check saves.
- Memory: 4 GiB are counted as 0 (pmm.c:41). paging_map_page says nothing when it has no
  frame for the table. Kernel tables made later are not seen by directories that exist.

## Not modelled, and the plan

Not modelled: the serial port and kprintf, pixels, glyphs and colours, descriptor tables
and the enumeration of PCI: output and one-time set-up, no protocol over time. Of modelled
parts: disk errors in StackFS, cp and rm below a parent that is a file, the transmit ring
(its descriptors are used again after a wait with a limit), contents and checksums of
packets, flags of page table entries, the text of commands.

Next, in this order:

1. Abstract specifications: the file system as a map from paths to contents, of which
   `StackFS` implements the steps outside power cuts; the accounts as a set of names;
   `RoundRobin` has the form. Proofs of the steps as in `RoundRobinSafety`.
2. Compositions: process stacks and VFS nodes from `Heap`; `Users` over `StackFS`'s lost
   first entry.
3. The transmit ring beside `E1000`; disk errors in `StackFS`.
