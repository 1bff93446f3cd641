------------------------------- MODULE Sched -------------------------------
(***************************************************************************)
(* The process manager, kernel/proc/process.c: the process table, the run  *)
(* queue and the cooperative round-robin scheduler.                        *)
(*                                                                         *)
(* One CPU runs the code of proc_table[current].  That code calls the      *)
(* public API; a call that ends in schedule() is several steps here        *)
(* (ReadClock, one WakeStep per slot of the table, Dispatch), because the  *)
(* timer interrupt may advance the tick counter between any two of them.   *)
(* No interrupt handler touches the table or the queue, so nothing else    *)
(* interleaves: proc_tick, the preemption hook, has no caller.             *)
(*                                                                         *)
(* Slot 0 is PID 0: the thread that boots the kernel and then runs the     *)
(* shell (kernel_main, shell_run).  Its code yields, sleeps and creates    *)
(* processes and never exits or blocks; every other slot holds a task      *)
(* made by proc_create_kernel, which may use the whole API.                *)
(*                                                                         *)
(* The queue is linked through process_t.next.  A sequence stands for it;  *)
(* the two agree as long as no process is queued twice, which is part of   *)
(* QueueSound.                                                             *)
(***************************************************************************)
EXTENDS Integers, Sequences, Functions

CONSTANTS
    MaxProcs,     \* MAX_PROCS, the slots of proc_table
    MaxPid,       \* bound: no process is created with a larger PID
    MaxTicks,     \* bound: the timer stops at this tick
    SleepMs,      \* the arguments of proc_sleep, in milliseconds
    WakeMod       \* 2^32, the range of the 32-bit field wake_tick

ASSUME SchedAssumption ==
    /\ MaxProcs \in Nat \ {0}
    /\ MaxPid \in Nat
    /\ MaxTicks \in Nat
    /\ SleepMs \subseteq Nat
    /\ WakeMod \in Nat \ {0}

Slots == 0 .. MaxProcs - 1
Tasks == Slots \ {0}
States == {"RUNNING", "READY", "BLOCKED", "SLEEPING", "ZOMBIE"}

(***************************************************************************)
(* pc is the place of the code on the CPU:                                 *)
(*   "run"        the program of the current process                       *)
(*   "clock"      schedule() called, timer_ticks() not yet read            *)
(*   "wake"       in schedule(), the wake-up loop is about to look at slot *)
(*                scan, or, when scan = MaxProcs, is over                  *)
(*   "proc_exit"  a task's function has returned into proc_exit            *)
(*   "null"       a task's function has returned to address 0              *)
(***************************************************************************)
PCs == {"run", "clock", "wake", "proc_exit", "null"}

VARIABLES
    state,      \* state[p], proc_table[p].state
    pid,        \* pid[p]; a slot is free when it is a ZOMBIE with pid 0
    wakeTick,   \* wakeTick[p], proc_table[p].wake_tick
    queue,      \* run_queue
    current,    \* the slot current points to
    nextPid,    \* next_pid
    ticks,      \* tick_count of timer.c
    pc,
    now,        \* the local variable now of schedule()
    scan,       \* the loop counter i of schedule()
    deadline    \* history: the tick proc_sleep promised p to sleep until

vars == <<state, pid, wakeTick, queue, current, nextPid, ticks, pc, now, scan,
          deadline>>
table == <<state, pid, wakeTick, queue, current, nextPid, deadline>>
inSchedule == <<now, scan>>

---------------------------------------------------------------------------
(* Helpers of the code.  A definition marked FAULT is a mistake the code    *)
(* could have made and does not make: no definition uses it, it documents  *)
(* which property would notice.                                            *)

\* FAULT (QueuedRuns, ImplementsRoundRobin): last in, first out.
EnqueueAtHead(q, p) == <<p>> \o q
Enqueue(q, p) == Append(q, p)

\* FAULT (ExitIsFinal): the slot of an exited process is free.
ExitedIsFree(p) == state[p] = "ZOMBIE"
IsFree(p) == state[p] = "ZOMBIE" /\ pid[p] = 0

FirstFree(p) == IsFree(p) /\ \A s \in Slots : s < p => ~IsFree(s)

\* FAULT (PidUnique).
SamePid == nextPid
\* FAULT (TypeOK): a counter that starts over and hands out PID 0.
PidWraps == (nextPid + 1) % (MaxPid + 1)
PidAfter == nextPid + 1

\* The PIT runs at 100 Hz: a tick is 10 ms, and the division rounds down.
TicksFor(ms) == ms \div 10

\* Assignment of a 64-bit tick to the 32-bit field wake_tick.
NarrowTick(t) == t % WakeMod

\* The test of the wake-up loop.
Due(p) == state[p] = "SLEEPING" /\ pid[p] # 0 /\ now >= wakeTick[p]

\* FAULT (SleeperResumes): the loop stops one slot early.
LastSlotSkipped == MaxProcs - 1
ScanEnd == MaxProcs

\* proc_create_kernel pushes proc_exit, then 0, on the new stack; the first
\* switch_context enters the function with the last word pushed on top.
InitialFrame == <<"null", "proc_exit">>

---------------------------------------------------------------------------
\* proc_init.
Init ==
    /\ state = [p \in Slots |-> IF p = 0 THEN "READY" ELSE "ZOMBIE"]
    /\ pid = [p \in Slots |-> 0]
    /\ wakeTick = [p \in Slots |-> 0]
    /\ queue = <<>>
    /\ current = 0
    /\ nextPid = 1
    /\ ticks = 0
    /\ pc = "run"
    /\ now = 0
    /\ scan = 0
    /\ deadline = [p \in Slots |-> 0]

\* timer_irq_handler, between any two steps of the code.
TimerTick ==
    /\ ticks < MaxTicks
    /\ ticks' = ticks + 1
    /\ UNCHANGED <<table, pc, inSchedule>>

\* proc_create_kernel; with the table full it returns NULL and changes nothing.
Create ==
    /\ pc = "run"
    /\ nextPid <= MaxPid
    /\ \E p \in Slots :
        /\ FirstFree(p)
        /\ state' = [state EXCEPT ![p] = "READY"]
        /\ pid' = [pid EXCEPT ![p] = nextPid]
        /\ queue' = Enqueue(queue, p)
    /\ nextPid' = PidAfter
    /\ UNCHANGED <<wakeTick, current, ticks, pc, inSchedule, deadline>>

\* proc_yield.
Yield ==
    /\ pc = "run"
    /\ pc' = "clock"
    /\ UNCHANGED <<table, ticks, inSchedule>>

\* proc_sleep, up to its call of schedule().
Sleep ==
    /\ pc = "run"
    /\ \E ms \in SleepMs :
        /\ wakeTick' = [wakeTick EXCEPT ![current] = NarrowTick(ticks + TicksFor(ms))]
        /\ deadline' = [deadline EXCEPT ![current] = ticks + TicksFor(ms)]
    /\ state' = [state EXCEPT ![current] = "SLEEPING"]
    /\ pc' = "clock"
    /\ UNCHANGED <<pid, queue, current, nextPid, ticks, inSchedule>>

\* proc_block, up to its call of schedule().
Block ==
    /\ pc = "run"
    /\ current \in Tasks
    /\ state' = [state EXCEPT ![current] = "BLOCKED"]
    /\ pc' = "clock"
    /\ UNCHANGED <<pid, wakeTick, queue, current, nextPid, ticks, inSchedule, deadline>>

\* FAULT (QueueSound): unblock whoever is not running.
MayUnblockAny(p) == p # current
\* proc_unblock(p) called by the running process; a no-op unless p is blocked.
MayUnblock(p) == state[p] = "BLOCKED"
Unblock(p) ==
    /\ pc = "run"
    /\ MayUnblock(p)
    /\ state' = [state EXCEPT ![p] = "READY"]
    /\ queue' = Enqueue(queue, p)
    /\ UNCHANGED <<pid, wakeTick, current, nextPid, ticks, pc, inSchedule, deadline>>

\* proc_exit, up to its call of schedule().
Exit ==
    /\ pc = "proc_exit" \/ (pc = "run" /\ current \in Tasks)
    /\ state' = [state EXCEPT ![current] = "ZOMBIE"]
    /\ pc' = "clock"
    /\ UNCHANGED <<pid, wakeTick, queue, current, nextPid, ticks, inSchedule, deadline>>

\* The ret of a task's function pops the word on top of its initial frame.
Return ==
    /\ pc = "run"
    /\ current \in Tasks
    /\ pc' = Head(InitialFrame)
    /\ UNCHANGED <<table, ticks, inSchedule>>

---------------------------------------------------------------------------
(* schedule() *)

ReadClock ==
    /\ pc = "clock"
    /\ now' = ticks
    /\ scan' = 0
    /\ pc' = "wake"
    /\ UNCHANGED <<table, ticks>>

\* One turn of the wake-up loop.
WakeStep ==
    /\ pc = "wake"
    /\ scan < ScanEnd
    /\ IF Due(scan)
         THEN /\ state' = [state EXCEPT ![scan] = "READY"]
              /\ queue' = Enqueue(queue, scan)
         ELSE UNCHANGED <<state, queue>>
    /\ scan' = scan + 1
    /\ UNCHANGED <<pid, wakeTick, current, nextPid, ticks, pc, now, deadline>>

\* FAULT (OnlyRunnableHasCpu): with an empty queue, nobody to switch to.
CurrentKeepsCpu == current
\* What runs when the queue is empty: proc_table[0].
Fallback == 0

Chosen == IF queue = <<>> THEN Fallback ELSE Head(queue)
Rest == IF queue = <<>> THEN <<>> ELSE Tail(queue)

\* FAULT (SleepLasts): prev always goes back on the queue.
AlwaysRunnable(p) == TRUE
\* Is prev put back on the queue, and in which state is it left.
StillRunnable(p) == state[p] = "RUNNING"
\* FAULT (RunningIsCurrent).
LeftRunning(p) == state
PutBack(p) == [state EXCEPT ![p] = "READY"]

\* After the loop: dequeue, put prev back, switch.
Dispatch ==
    /\ pc = "wake"
    /\ scan >= ScanEnd
    /\ IF Chosen = current
         THEN /\ queue' = Rest
              /\ UNCHANGED <<state, current>>
         ELSE /\ IF StillRunnable(current)
                   THEN /\ state' = [PutBack(current) EXCEPT ![Chosen] = "RUNNING"]
                        /\ queue' = Enqueue(Rest, current)
                   ELSE /\ state' = [state EXCEPT ![Chosen] = "RUNNING"]
                        /\ queue' = Rest
              /\ current' = Chosen
    /\ pc' = "run"
    /\ now' = 0
    /\ scan' = 0
    /\ UNCHANGED <<pid, wakeTick, nextPid, ticks, deadline>>

---------------------------------------------------------------------------
Next ==
    \/ TimerTick
    \/ Create
    \/ Yield
    \/ Sleep
    \/ Block
    \/ \E p \in Slots : Unblock(p)
    \/ Exit
    \/ ReadClock
    \/ WakeStep
    \/ Dispatch

Spec == Init /\ [][Next]_vars

\* The kernel's one task function, heartbeat_task, never returns (kernel.c:91); with
\* functions that do, as proc_create_kernel provides for:
ReturningSpec == Init /\ [][Next \/ Return]_vars

(***************************************************************************)
(* Scheduling is cooperative.  The CPU carries out a call of schedule()    *)
(* once made, and a task makes one after the other, as heartbeat_task does *)
(* in each turn of its loop.  Of the shell nothing is assumed: it waits in *)
(* keyboard_getchar, whose loop halts the CPU and never yields, until      *)
(* somebody types yield or sleep.  The timer ticks, and only ticks.        *)
(***************************************************************************)
TaskGivesUp == current \in Tasks /\ (Yield \/ Sleep \/ Block \/ Exit)

Fairness ==
    /\ WF_vars(ReadClock)
    /\ WF_vars(WakeStep)
    /\ WF_vars(Dispatch)
    /\ WF_vars(TaskGivesUp)
    /\ WF_vars(TimerTick)

FairSpec == Spec /\ Fairness

---------------------------------------------------------------------------
(* Properties *)

TypeOK ==
    /\ state \in [Slots -> States]
    /\ pid \in [Slots -> Nat]
    /\ wakeTick \in [Slots -> 0 .. WakeMod - 1]
    /\ queue \in Seq(Slots)
    /\ current \in Slots
    /\ nextPid \in Nat \ {0}
    /\ ticks \in Nat
    /\ pc \in PCs
    /\ now \in Nat
    /\ scan \in 0 .. MaxProcs
    /\ deadline \in [Slots -> Nat]

NoDuplicates(q) == \A i, j \in DOMAIN q : q[i] = q[j] => i = j

(* The run queue holds no process twice (a second enqueue would cut or     *)
(* knot the linked list), only READY ones, and not the one on the CPU,     *)
(* except inside schedule() after the loop has woken the caller itself.    *)
QueueSound ==
    /\ NoDuplicates(queue)
    /\ \A p \in Range(queue) : state[p] = "READY"
    /\ current \in Range(queue) => pc = "wake"

(* One CPU: a process marked RUNNING is the current one.                   *)
RunningIsCurrent == \A p \in Slots : state[p] = "RUNNING" => p = current

(* A task that blocked, went to sleep or exited does not have the CPU:     *)
(* schedule() never returns to it in that state.                           *)
OnlyRunnableHasCpu ==
    pc \notin {"clock", "wake"} /\ current \in Tasks => state[current] \in {"RUNNING", "READY"}

(* "A unique PID" (process.h:5): no two slots in use, zombies included,    *)
(* share a PID, and only slot 0 among them has PID 0.                      *)
InUse(p) == p = 0 \/ ~IsFree(p)
PidUnique == \A p, q \in Slots : InUse(p) /\ InUse(q) /\ pid[p] = pid[q] => p = q

(* Exit is for good: no later wake-up, unblock or dispatch revives a task  *)
(* that has exited, and its slot and PID are not handed out again.         *)
Exited(p) == p \in Tasks /\ state[p] = "ZOMBIE" /\ pid[p] # 0
ExitIsFinal ==
    [][\A p \in Slots : Exited(p) => state'[p] = "ZOMBIE" /\ pid'[p] = pid[p]]_vars

(* A call of proc_sleep returns to a task only once the promised ticks     *)
(* have passed, whatever else yields, unblocks or exits meanwhile.         *)
Resumed(p) == pc = "wake" /\ pc' = "run" /\ current' = p
SleepLasts == [][\A p \in Tasks : Resumed(p) => ticks >= deadline[p]]_vars

(* The shell does not keep the CPU for ever: whenever it has it, somebody  *)
(* types yield or sleep some time.                                         *)
ShellYields == []<>(current \in Tasks \/ pc # "run")

(* As long as the shell goes on yielding, every process in the run queue   *)
(* gets the CPU, however often others yield, wake and are created.         *)
QueuedRuns ==
    ShellYields => \A p \in Slots : p \in Range(queue) ~> (current = p /\ pc = "run")

(* And so does every sleeping task whose tick has come.                    *)
SleeperResumes ==
    ShellYields =>
        \A p \in Tasks :
            (state[p] = "SLEEPING" /\ ticks >= wakeTick[p]) ~> (current = p /\ pc = "run")

(* The run queue and the CPU behave as a round-robin line, which moves on  *)
(* for certain as long as somebody other than the shell has the CPU.       *)
RR == INSTANCE RoundRobin WITH Proc <- Slots, Idle <- 0, line <- queue, onCpu <- current

ImplementsRoundRobin == RR!Spec

---------------------------------------------------------------------------
(* The inductive invariant: the properties above with what they rest on.   *)

Pid0Alive == state[0] \notin {"ZOMBIE", "BLOCKED"}

ReturnsOnlyFromTasks == pc = "proc_exit" => current \in Tasks

PidsBounded ==
    /\ pid[0] = 0
    /\ \A p \in Slots : pid[p] < nextPid
    /\ \A p \in Tasks : pid[p] = 0 => state[p] = "ZOMBIE"

IInv ==
    /\ TypeOK
    /\ QueueSound
    /\ RunningIsCurrent
    /\ OnlyRunnableHasCpu
    /\ PidUnique
    /\ Pid0Alive
    /\ ReturnsOnlyFromTasks
    /\ PidsBounded

(* While no wake-up time overflows wake_tick, a sleeping task's field is   *)
(* its deadline, and the deadline of every other task is over.             *)
NoOverflow == \A ms \in SleepMs : MaxTicks + TicksFor(ms) < WakeMod

ClockInv ==
    /\ now <= ticks
    /\ ticks <= MaxTicks
    /\ \A p \in Tasks : IF state[p] = "SLEEPING" THEN wakeTick[p] = deadline[p]
                                                ELSE deadline[p] <= ticks

---------------------------------------------------------------------------
(* Statements of the headers and comments that the code does not keep.     *)

(* process.h:21, READY means "in the run queue, waiting for CPU".          *)
ReadyIsQueued ==
    \A p \in Tasks : state[p] = "READY" => p \in Range(queue) \/ p = current

(* process.c:117 and 122, a function that returns goes to proc_exit.       *)
ReturnReachesExit == pc # "null"
=============================================================================
