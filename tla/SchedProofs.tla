---------------------------- MODULE SchedProofs ----------------------------
(***************************************************************************)
(* Proofs about Sched, for every size of the table and every bound.        *)
(***************************************************************************)
EXTENDS Sched, SequenceTheorems, TLAPS

---------------------------------------------------------------------------
(* Lemmas on sequences without duplicates, the run queue being one.        *)

(* Appending a new element keeps the elements distinct.                    *)
LEMMA EnqueueSound ==
    ASSUME NEW S, NEW q \in Seq(S), NEW p \in S
    PROVE  /\ Enqueue(q, p) \in Seq(S)
           /\ Range(Enqueue(q, p)) = Range(q) \cup {p}
           /\ NoDuplicates(q) /\ p \notin Range(q) => NoDuplicates(Enqueue(q, p))
<1> DEFINE r == Append(q, p)
<1>1. /\ r \in Seq(S)
      /\ Len(r) = Len(q) + 1
      /\ \A i \in 1 .. Len(q) : r[i] = q[i]
      /\ r[Len(q) + 1] = p
  BY AppendProperties
<1>2. DOMAIN q = 1 .. Len(q) /\ DOMAIN r = 1 .. Len(q) + 1 /\ Len(q) \in Nat
  BY <1>1, LenProperties
<1>3. Range(r) = Range(q) \cup {p}
  <2>1. ASSUME NEW x \in Range(r) PROVE x \in Range(q) \cup {p}
    <3>1. PICK i \in 1 .. Len(q) + 1 : x = r[i]
      BY <1>2, <2>1 DEF Range
    <3>2. CASE i = Len(q) + 1
      BY <3>1, <3>2, <1>1
    <3>3. CASE i # Len(q) + 1
      <4>1. i \in 1 .. Len(q)
        BY <3>3, <1>2
      <4> QED BY <4>1, <3>1, <1>1, <1>2 DEF Range
    <3> QED BY <3>2, <3>3
  <2>2. ASSUME NEW x \in Range(q) PROVE x \in Range(r)
    <3>1. PICK i \in 1 .. Len(q) : x = q[i]
      BY <1>2, <2>2 DEF Range
    <3>2. i \in 1 .. Len(q) + 1 /\ x = r[i]
      BY <3>1, <1>1, <1>2
    <3> QED BY <3>2, <1>2 DEF Range
  <2>3. p \in Range(r)
    <3>1. Len(q) + 1 \in 1 .. Len(q) + 1
      BY <1>2
    <3> QED BY <3>1, <1>1, <1>2 DEF Range
  <2> QED BY <2>1, <2>2, <2>3
<1>4. ASSUME NoDuplicates(q), p \notin Range(q) PROVE NoDuplicates(r)
  <2> SUFFICES ASSUME NEW i \in 1 .. Len(q) + 1, NEW j \in 1 .. Len(q) + 1, r[i] = r[j]
               PROVE  i = j
    BY <1>2 DEF NoDuplicates
  <2>1. \A k \in 1 .. Len(q) : q[k] # p
    BY <1>4, <1>2 DEF Range
  <2>2. CASE i \in 1 .. Len(q) /\ j \in 1 .. Len(q)
    <3>1. q[i] = q[j]
      BY <2>2, <1>1
    <3> QED BY <3>1, <2>2, <1>4, <1>2 DEF NoDuplicates
  <2>3. CASE i = Len(q) + 1 /\ j \in 1 .. Len(q)
    BY <2>3, <2>1, <1>1
  <2>4. CASE j = Len(q) + 1 /\ i \in 1 .. Len(q)
    BY <2>4, <2>1, <1>1
  <2>5. CASE i = Len(q) + 1 /\ j = Len(q) + 1
    BY <2>5
  <2> QED BY <2>2, <2>3, <2>4, <2>5, <1>2
<1> QED BY <1>1, <1>3, <1>4 DEF Enqueue

(* Taking the first of distinct elements leaves the others, without it.    *)
LEMMA DequeueSound ==
    ASSUME NEW S, NEW q \in Seq(S), q # <<>>
    PROVE  /\ Head(q) \in Range(q)
           /\ Tail(q) \in Seq(S)
           /\ Range(Tail(q)) \subseteq Range(q)
           /\ NoDuplicates(q) => NoDuplicates(Tail(q)) /\ Head(q) \notin Range(Tail(q))
<1> DEFINE t == Tail(q)
<1>1. /\ t \in Seq(S)
      /\ Len(t) = Len(q) - 1
      /\ \A i \in 1 .. Len(t) : t[i] = q[i + 1]
  BY HeadTailProperties
<1>2. /\ Len(q) \in Nat \ {0}
      /\ DOMAIN q = 1 .. Len(q)
      /\ DOMAIN t = 1 .. Len(q) - 1
  BY <1>1, LenProperties, EmptySeq
<1>3. Head(q) = q[1] /\ 1 \in 1 .. Len(q)
  BY <1>2
<1>4. \A i \in 1 .. Len(q) - 1 : i + 1 \in 1 .. Len(q) /\ t[i] = q[i + 1]
  BY <1>1, <1>2
<1>5. Head(q) \in Range(q) /\ Range(t) \subseteq Range(q)
  BY <1>2, <1>3, <1>4 DEF Range
<1>6. ASSUME NoDuplicates(q) PROVE NoDuplicates(t)
  <2> SUFFICES ASSUME NEW i \in 1 .. Len(q) - 1, NEW j \in 1 .. Len(q) - 1, t[i] = t[j]
               PROVE  i = j
    BY <1>2 DEF NoDuplicates
  <2>1. i + 1 = j + 1
    BY <1>2, <1>4, <1>6 DEF NoDuplicates
  <2> QED BY <2>1
<1>7. ASSUME NoDuplicates(q) PROVE Head(q) \notin Range(t)
  <2> SUFFICES ASSUME NEW i \in 1 .. Len(q) - 1, t[i] = q[1]
               PROVE  FALSE
    BY <1>2, <1>3 DEF Range
  <2>1. i + 1 = 1
    BY <1>2, <1>3, <1>4, <1>7 DEF NoDuplicates
  <2> QED BY <2>1
<1> QED BY <1>1, <1>5, <1>6, <1>7

(* What dequeue() leaves, whether or not the queue was empty.              *)
LEMMA ChosenAndRest ==
    ASSUME SchedAssumption, TypeOK, NoDuplicates(queue)
    PROVE  /\ Chosen \in Slots
           /\ Rest \in Seq(Slots)
           /\ Range(Rest) \subseteq Range(queue)
           /\ NoDuplicates(Rest)
           /\ Chosen \notin Range(Rest)
           /\ Chosen \in Tasks => Chosen \in Range(queue)
<1>1. 0 \in Slots
  BY SchedAssumption DEF SchedAssumption, Slots
<1>2. CASE queue = <<>>
  <2>1. Rest = <<>> /\ Chosen = 0 /\ queue \in Seq(Slots)
    BY <1>2 DEF Rest, Chosen, Fallback, TypeOK
  <2>2. DOMAIN Rest = {} /\ Range(Rest) = {}
    BY <2>1 DEF Range
  <2> QED BY <1>1, <1>2, <2>1, <2>2 DEF Tasks, NoDuplicates
<1>3. CASE queue # <<>>
  <2>1. Rest = Tail(queue) /\ Chosen = Head(queue) /\ queue \in Seq(Slots)
    BY <1>3 DEF Rest, Chosen, TypeOK
  <2>2. Range(queue) \subseteq Slots
    BY <2>1, RangeOfSeq
  <2> QED BY <1>3, <2>1, <2>2, DequeueSound
<1> QED BY <1>2, <1>3
---------------------------------------------------------------------------
(* The inductive invariant, one lemma per group of actions.                *)

LEMMA IInvInit == ASSUME SchedAssumption, Init PROVE IInv
<1>1. 0 \in Slots /\ \A p \in Tasks : p # 0
  BY SchedAssumption DEF SchedAssumption, Slots, Tasks
<1>2. TypeOK
  BY SchedAssumption, <1>1 DEF SchedAssumption, Init, TypeOK, States, PCs, Slots
<1>3. QueueSound
  <2>1. DOMAIN queue = {} /\ Range(queue) = {}
    BY DEF Init, Range
  <2> QED BY <2>1 DEF QueueSound, NoDuplicates
<1>4. RunningIsCurrent /\ OnlyRunnableHasCpu /\ Pid0Alive /\ ReturnsOnlyFromTasks
  BY <1>1 DEF Init, RunningIsCurrent, OnlyRunnableHasCpu, Pid0Alive,
              ReturnsOnlyFromTasks, Tasks, Slots
<1>5. PidUnique
  BY <1>1 DEF Init, PidUnique, InUse, IsFree
<1>6. PidsBounded
  BY <1>1 DEF Init, PidsBounded, Tasks
<1> QED BY <1>2, <1>3, <1>4, <1>5, <1>6 DEF IInv

(* Steps that leave the process table alone: only pc and the clock move.   *)
LEMMA IInvClock ==
    ASSUME SchedAssumption, IInv, TimerTick \/ Yield \/ ReadClock
    PROVE  IInv'
<1>1. UNCHANGED table
  BY DEF TimerTick, Yield, ReadClock
<1>2. TypeOK'
  BY <1>1, SchedAssumption
     DEF SchedAssumption, IInv, TypeOK, PCs, TimerTick, Yield, ReadClock,
         table, inSchedule
<1>3. \/ pc' = pc
      \/ pc' \in {"clock", "wake"} /\ pc \in {"run", "clock"}
  BY DEF TimerTick, Yield, ReadClock
<1>4. QueueSound'
  BY <1>1, <1>3 DEF IInv, QueueSound, table, Range, NoDuplicates
<1>5. OnlyRunnableHasCpu' /\ ReturnsOnlyFromTasks'
  BY <1>1, <1>3 DEF IInv, OnlyRunnableHasCpu, ReturnsOnlyFromTasks, table
<1>6. (RunningIsCurrent /\ PidUnique /\ Pid0Alive /\ PidsBounded)'
  BY <1>1 DEF IInv, RunningIsCurrent, PidUnique, InUse, IsFree, Pid0Alive,
              PidsBounded, table
<1> QED BY <1>2, <1>4, <1>5, <1>6 DEF IInv

(* The running process marks itself as waiting or gone and calls schedule. *)
LEMMA IInvGiveUp ==
    ASSUME SchedAssumption, IInv, Sleep \/ Block \/ Exit
    PROVE  IInv'
<1>1. PICK s \in {"SLEEPING", "BLOCKED", "ZOMBIE"} :
          /\ state' = [state EXCEPT ![current] = s]
          /\ current = 0 => s = "SLEEPING"
  <2>1. 0 \notin Tasks
    BY DEF Tasks
  <2> QED BY <2>1 DEF Sleep, Block, Exit, IInv, ReturnsOnlyFromTasks
<1>2. /\ pc \in {"run", "proc_exit"} /\ pc' = "clock"
      /\ UNCHANGED <<pid, queue, current, nextPid>>
  BY DEF Sleep, Block, Exit
<1>3. current \notin Range(queue)
  BY <1>2 DEF IInv, QueueSound
<1>hasPid. current \in Tasks => pid[current] # 0
  <2>1. current \in Tasks => state[current] # "ZOMBIE"
    BY <1>2 DEF IInv, OnlyRunnableHasCpu
  <2> QED BY <2>1 DEF IInv, PidsBounded
<1>4. TypeOK'
  <2>1. state' \in [Slots -> States] /\ pc' \in PCs
    BY <1>1, <1>2 DEF IInv, TypeOK, States, PCs
  <2>2. CASE Sleep
    <3>1. PICK ms \in SleepMs :
            /\ wakeTick' = [wakeTick EXCEPT ![current] = NarrowTick(ticks + TicksFor(ms))]
            /\ deadline' = [deadline EXCEPT ![current] = ticks + TicksFor(ms)]
      BY <2>2 DEF Sleep
    <3>2. ms \in Nat /\ ticks \in Nat /\ WakeMod \in Nat \ {0}
      BY SchedAssumption DEF SchedAssumption, IInv, TypeOK
    <3>3. ticks + TicksFor(ms) \in Nat
      BY <3>2 DEF TicksFor
    <3>4. NarrowTick(ticks + TicksFor(ms)) \in 0 .. WakeMod - 1
      BY <3>2, <3>3 DEF NarrowTick
    <3> QED BY <2>1, <2>2, <3>1, <3>3, <3>4 DEF IInv, TypeOK, Sleep, inSchedule
  <2>3. CASE Block \/ Exit
    BY <2>1, <2>3 DEF IInv, TypeOK, Block, Exit, inSchedule
  <2> QED BY <2>2, <2>3
<1>5. QueueSound'
  <2>1. \A p \in Range(queue) : p \in Slots /\ p # current
    BY <1>3, RangeOfSeq DEF IInv, TypeOK
  <2>2. \A p \in Range(queue) : state'[p] = "READY"
    BY <1>1, <2>1 DEF IInv, TypeOK, QueueSound
  <2>3. queue' = queue /\ current' = current
    BY <1>2
  <2> QED BY <1>3, <2>2, <2>3 DEF IInv, QueueSound, NoDuplicates, Range
<1>6. RunningIsCurrent' /\ OnlyRunnableHasCpu' /\ ReturnsOnlyFromTasks'
  BY <1>1, <1>2 DEF IInv, TypeOK, RunningIsCurrent, OnlyRunnableHasCpu, ReturnsOnlyFromTasks
<1>7. Pid0Alive'
  BY <1>1 DEF IInv, TypeOK, Pid0Alive
<1>8. PidsBounded'
  BY <1>1, <1>2, <1>hasPid DEF IInv, TypeOK, PidsBounded, Tasks
<1>9. \A p \in Slots : InUse(p)' => InUse(p)
  <2> SUFFICES ASSUME NEW p \in Slots, InUse(p)' PROVE InUse(p)
    OBVIOUS
  <2>1. CASE p = current
    BY <2>1, <1>hasPid DEF InUse, IsFree, Tasks
  <2>2. CASE p # current
    BY <2>2, <1>1, <1>2 DEF InUse, IsFree, IInv, TypeOK
  <2> QED BY <2>1, <2>2
<1>10. PidUnique'
  BY <1>2, <1>9 DEF IInv, PidUnique
<1> QED BY <1>4, <1>5, <1>6, <1>7, <1>8, <1>10 DEF IInv

(* A process becomes READY and joins the queue.                            *)
LEMMA IInvEnqueue ==
    ASSUME SchedAssumption, IInv, NEW p \in Slots, state[p] # "READY",
           state' = [state EXCEPT ![p] = "READY"], queue' = Enqueue(queue, p),
           current' = current, pc' = pc, p = current => pc = "wake"
    PROVE  QueueSound' /\ RunningIsCurrent' /\ OnlyRunnableHasCpu'
           /\ Pid0Alive' /\ ReturnsOnlyFromTasks' /\ queue' \in Seq(Slots)
<1>1. p \notin Range(queue)
  BY DEF IInv, QueueSound
<1>2. /\ queue' \in Seq(Slots)
      /\ Range(queue') = Range(queue) \cup {p}
      /\ NoDuplicates(queue')
  BY <1>1, EnqueueSound DEF IInv, TypeOK, QueueSound
<1>3. state \in [Slots -> States] /\ Range(queue) \subseteq Slots
  BY RangeOfSeq DEF IInv, TypeOK
<1>4. QueueSound'
  <2>1. \A r \in Range(queue') : state'[r] = "READY"
    BY <1>2, <1>3 DEF IInv, QueueSound
  <2>2. current' \in Range(queue') => pc' = "wake"
    BY <1>2 DEF IInv, QueueSound
  <2> QED BY <1>2, <2>1, <2>2 DEF QueueSound
<1>5. RunningIsCurrent' /\ Pid0Alive' /\ OnlyRunnableHasCpu' /\ ReturnsOnlyFromTasks'
  BY <1>3 DEF IInv, RunningIsCurrent, Pid0Alive, OnlyRunnableHasCpu, ReturnsOnlyFromTasks
<1> QED BY <1>2, <1>4, <1>5

LEMMA IInvCreate == ASSUME SchedAssumption, IInv, Create PROVE IInv'
<1>1. PICK p \in Slots :
        /\ FirstFree(p)
        /\ state' = [state EXCEPT ![p] = "READY"]
        /\ pid' = [pid EXCEPT ![p] = nextPid]
        /\ queue' = Enqueue(queue, p)
  BY DEF Create
<1>2. /\ pc = "run" /\ pc' = pc /\ current' = current /\ nextPid' = nextPid + 1
      /\ UNCHANGED <<wakeTick, ticks, inSchedule, deadline>>
  BY DEF Create, PidAfter
<1>3. state[p] = "ZOMBIE" /\ pid[p] = 0
  BY <1>1 DEF FirstFree, IsFree
<1>4. p # current /\ p # 0
  BY <1>2, <1>3 DEF IInv, OnlyRunnableHasCpu, Pid0Alive, TypeOK, Tasks
<1>5. /\ QueueSound' /\ RunningIsCurrent' /\ OnlyRunnableHasCpu'
      /\ Pid0Alive' /\ ReturnsOnlyFromTasks' /\ queue' \in Seq(Slots)
  BY <1>1, <1>2, <1>3, <1>4, IInvEnqueue
<1>6. TypeOK'
  <2>1. state' \in [Slots -> States] /\ pid' \in [Slots -> Nat] /\ nextPid' \in Nat \ {0}
    BY <1>1, <1>2 DEF IInv, TypeOK, States
  <2> QED BY <2>1, <1>2, <1>5 DEF IInv, TypeOK, inSchedule
<1>7. PidsBounded'
  BY <1>1, <1>2, <1>4 DEF IInv, TypeOK, PidsBounded, Tasks
<1>8. ASSUME NEW r \in Slots, InUse(r)', r # p PROVE InUse(r) /\ pid'[r] = pid[r]
  <2>1. state'[r] = state[r] /\ pid'[r] = pid[r]
    BY <1>1, <1>8 DEF IInv, TypeOK
  <2> QED BY <2>1, <1>8 DEF InUse, IsFree
<1>9. PidUnique'
  <2> SUFFICES ASSUME NEW r \in Slots, NEW s \in Slots,
                      InUse(r)', InUse(s)', pid'[r] = pid'[s]
               PROVE  r = s
    BY DEF PidUnique
  <2>1. pid'[p] = nextPid /\ \A x \in Slots : pid[x] \in Nat /\ pid[x] < nextPid
    BY <1>1 DEF IInv, TypeOK, PidsBounded
  <2>2. CASE r # p /\ s # p
    BY <2>2, <1>8 DEF IInv, PidUnique
  <2>3. CASE r = p /\ s # p
    BY <2>1, <2>3, <1>8
  <2>4. CASE r # p /\ s = p
    BY <2>1, <2>4, <1>8
  <2> QED BY <2>2, <2>3, <2>4
<1> QED BY <1>5, <1>6, <1>7, <1>9 DEF IInv

(* A waiting process made READY keeps its PID.                             *)
LEMMA PidsKept ==
    ASSUME IInv, NEW p \in Slots, state[p] # "ZOMBIE",
           state' = [state EXCEPT ![p] = "READY"], UNCHANGED <<pid, nextPid>>
    PROVE  PidUnique' /\ PidsBounded'
<1>1. \A r \in Slots : InUse(r)' => InUse(r)
  BY DEF IInv, TypeOK, InUse, IsFree
<1>2. PidUnique'
  BY <1>1 DEF IInv, PidUnique
<1>3. PidsBounded'
  BY DEF IInv, TypeOK, PidsBounded, Tasks
<1> QED BY <1>2, <1>3

LEMMA IInvUnblock ==
    ASSUME SchedAssumption, IInv, NEW p \in Slots, Unblock(p) PROVE IInv'
<1>1. /\ pc = "run" /\ state[p] = "BLOCKED"
      /\ state' = [state EXCEPT ![p] = "READY"]
      /\ queue' = Enqueue(queue, p)
      /\ UNCHANGED <<pid, wakeTick, current, nextPid, ticks, pc, inSchedule, deadline>>
  BY DEF Unblock, MayUnblock
<1>2. p # current
  BY <1>1 DEF IInv, OnlyRunnableHasCpu, Pid0Alive, TypeOK, Tasks
<1>3. /\ QueueSound' /\ RunningIsCurrent' /\ OnlyRunnableHasCpu'
      /\ Pid0Alive' /\ ReturnsOnlyFromTasks' /\ queue' \in Seq(Slots)
  BY <1>1, <1>2, IInvEnqueue
<1>4. TypeOK'
  BY <1>1, <1>3 DEF IInv, TypeOK, States, inSchedule
<1> QED BY <1>1, <1>3, <1>4, PidsKept DEF IInv

LEMMA IInvWakeStep == ASSUME SchedAssumption, IInv, WakeStep PROVE IInv'
<1>1. /\ pc = "wake" /\ scan < MaxProcs /\ scan' = scan + 1
      /\ UNCHANGED <<pid, wakeTick, current, nextPid, ticks, pc, now, deadline>>
  BY DEF WakeStep, ScanEnd
<1>2. scan \in Slots /\ scan' \in 0 .. MaxProcs
  BY <1>1, SchedAssumption DEF SchedAssumption, IInv, TypeOK, Slots
<1>3. CASE Due(scan)
  <2>1. /\ state[scan] = "SLEEPING"
        /\ state' = [state EXCEPT ![scan] = "READY"]
        /\ queue' = Enqueue(queue, scan)
    BY <1>3 DEF WakeStep, Due
  <2>2. /\ QueueSound' /\ RunningIsCurrent' /\ OnlyRunnableHasCpu'
        /\ Pid0Alive' /\ ReturnsOnlyFromTasks' /\ queue' \in Seq(Slots)
    BY <1>1, <1>2, <2>1, IInvEnqueue
  <2>3. TypeOK'
    BY <1>1, <1>2, <2>1, <2>2 DEF IInv, TypeOK, States
  <2> QED BY <1>1, <1>2, <2>1, <2>2, <2>3, PidsKept DEF IInv
<1>4. CASE ~Due(scan)
  <2>1. UNCHANGED <<state, queue>>
    BY <1>4 DEF WakeStep
  <2>2. TypeOK'
    BY <1>1, <1>2, <2>1 DEF IInv, TypeOK
  <2>3. QueueSound'
    BY <1>1, <2>1 DEF IInv, QueueSound, NoDuplicates, Range
  <2> QED BY <1>1, <2>1, <2>2, <2>3
          DEF IInv, RunningIsCurrent, OnlyRunnableHasCpu, PidUnique, InUse, IsFree,
              Pid0Alive, ReturnsOnlyFromTasks, PidsBounded
<1> QED BY <1>3, <1>4

LEMMA IInvDispatch == ASSUME SchedAssumption, IInv, Dispatch PROVE IInv'
<1>1. /\ pc = "wake" /\ pc' = "run" /\ now' = 0 /\ scan' = 0
      /\ UNCHANGED <<pid, wakeTick, nextPid, ticks, deadline>>
  BY DEF Dispatch
<1>2. /\ Chosen \in Slots
      /\ Rest \in Seq(Slots)
      /\ Range(Rest) \subseteq Range(queue)
      /\ NoDuplicates(Rest)
      /\ Chosen \notin Range(Rest)
      /\ Chosen \in Tasks => Chosen \in Range(queue)
  BY ChosenAndRest DEF IInv, QueueSound
<1>3. /\ \A p \in Range(queue) : p \in Slots /\ state[p] = "READY"
      /\ state \in [Slots -> States] /\ current \in Slots
  BY RangeOfSeq DEF IInv, TypeOK, QueueSound
<1>4. current' = Chosen /\ current' \in Slots
  BY <1>2 DEF Dispatch
<1>5. CASE Chosen = current
  <2>1. queue' = Rest /\ UNCHANGED <<state, current>>
    BY <1>5 DEF Dispatch
  <2>2. TypeOK'
    BY <1>1, <1>2, <2>1, SchedAssumption DEF SchedAssumption, IInv, TypeOK, PCs
  <2>3. QueueSound'
    BY <1>1, <1>2, <1>3, <1>5, <2>1 DEF QueueSound
  <2>4. OnlyRunnableHasCpu'
    BY <1>2, <1>3, <1>5, <2>1 DEF OnlyRunnableHasCpu
  <2> QED BY <1>1, <2>1, <2>2, <2>3, <2>4
          DEF IInv, RunningIsCurrent, PidUnique, InUse, IsFree, Pid0Alive,
              ReturnsOnlyFromTasks, PidsBounded
<1>6. CASE Chosen # current /\ StillRunnable(current)
  <2>1. /\ state[current] = "RUNNING"
        /\ state' = [[state EXCEPT ![current] = "READY"] EXCEPT ![Chosen] = "RUNNING"]
        /\ queue' = Enqueue(Rest, current)
    BY <1>6 DEF Dispatch, StillRunnable, PutBack
  <2>2. current \notin Range(Rest)
    BY <1>2, <1>3, <2>1
  <2>3. /\ queue' \in Seq(Slots)
        /\ Range(queue') = Range(Rest) \cup {current}
        /\ NoDuplicates(queue')
    BY <1>2, <1>3, <2>1, <2>2, EnqueueSound
  <2>newState. /\ state' \in [Slots -> States]
         /\ \A r \in Slots : state'[r] = IF r = Chosen THEN "RUNNING"
                                         ELSE IF r = current THEN "READY" ELSE state[r]
    <3>1. "READY" \in States /\ "RUNNING" \in States
      BY DEF States
    <3>2. [state EXCEPT ![current] = "READY"] \in [Slots -> States]
      BY <1>3, <3>1
    <3> QED BY <1>2, <1>3, <2>1, <3>1, <3>2
  <2>4. TypeOK'
    BY <1>1, <1>4, <2>3, <2>newState, SchedAssumption DEF SchedAssumption, IInv, TypeOK, PCs
  <2>5. QueueSound'
    <3>1. \A p \in Range(queue') : p \in Slots /\ p # Chosen /\ (p = current \/ p \in Range(queue))
      BY <1>2, <1>3, <1>6, <2>3
    <3>2. \A p \in Range(queue') : state'[p] = "READY"
      BY <1>3, <2>1, <3>1
    <3> QED BY <1>4, <2>3, <3>1, <3>2 DEF QueueSound
  <2>6. RunningIsCurrent' /\ OnlyRunnableHasCpu' /\ Pid0Alive' /\ ReturnsOnlyFromTasks'
    <3>1. 0 \in Slots
      BY SchedAssumption DEF SchedAssumption, Slots
    <3> QED BY <1>1, <1>2, <1>3, <1>4, <2>newState, <3>1
       DEF IInv, RunningIsCurrent, OnlyRunnableHasCpu, Pid0Alive, ReturnsOnlyFromTasks
  <2>7. Chosen # 0 => state[Chosen] = "READY"
    BY <1>2, <1>3 DEF Tasks
  <2>8. \A r \in Tasks : state'[r] = "ZOMBIE" <=> state[r] = "ZOMBIE"
    BY <1>2, <1>3, <2>1, <2>7 DEF Tasks
  <2>9. PidsBounded'
    BY <1>1, <2>8 DEF IInv, PidsBounded
  <2>10. \A r \in Slots : InUse(r)' => InUse(r)
    BY <1>1, <2>8 DEF InUse, IsFree, Tasks
  <2>11. PidUnique'
    BY <1>1, <2>10 DEF IInv, PidUnique
  <2> QED BY <2>4, <2>5, <2>6, <2>9, <2>11 DEF IInv
<1>7. CASE Chosen # current /\ ~StillRunnable(current)
  <2>1. /\ state[current] # "RUNNING"
        /\ state' = [state EXCEPT ![Chosen] = "RUNNING"]
        /\ queue' = Rest
    BY <1>7 DEF Dispatch, StillRunnable
  <2>2. TypeOK'
    BY <1>1, <1>2, <1>3, <1>4, <2>1, SchedAssumption
       DEF SchedAssumption, IInv, TypeOK, PCs, States
  <2>3. QueueSound'
    <3>1. \A p \in Range(queue') : p # Chosen /\ p \in Range(queue)
      BY <1>2, <2>1
    <3>2. \A p \in Range(queue') : state'[p] = "READY"
      BY <1>3, <2>1, <3>1
    <3> QED BY <1>2, <1>4, <2>1, <3>1, <3>2 DEF QueueSound
  <2>4. RunningIsCurrent' /\ OnlyRunnableHasCpu' /\ Pid0Alive' /\ ReturnsOnlyFromTasks'
    BY <1>1, <1>2, <1>3, <1>4, <2>1
       DEF IInv, RunningIsCurrent, OnlyRunnableHasCpu, Pid0Alive, ReturnsOnlyFromTasks
  <2>5. Chosen # 0 => state[Chosen] = "READY"
    BY <1>2, <1>3 DEF Tasks
  <2>6. \A r \in Tasks : state'[r] = "ZOMBIE" <=> state[r] = "ZOMBIE"
    BY <1>2, <1>3, <2>1, <2>5 DEF Tasks
  <2>7. PidsBounded'
    BY <1>1, <2>6 DEF IInv, PidsBounded
  <2>8. \A r \in Slots : InUse(r)' => InUse(r)
    BY <1>1, <2>6 DEF InUse, IsFree, Tasks
  <2>9. PidUnique'
    BY <1>1, <2>8 DEF IInv, PidUnique
  <2> QED BY <2>2, <2>3, <2>4, <2>7, <2>9 DEF IInv
<1> QED BY <1>5, <1>6, <1>7

LEMMA IInvNext == ASSUME SchedAssumption, IInv, [Next]_vars PROVE IInv'
<1>1. CASE TimerTick \/ Yield \/ ReadClock
  BY <1>1, IInvClock
<1>2. CASE Sleep \/ Block \/ Exit
  BY <1>2, IInvGiveUp
<1>3. CASE Create
  BY <1>3, IInvCreate
<1>4. CASE \E p \in Slots : Unblock(p)
  BY <1>4, IInvUnblock
<1>5. CASE WakeStep
  BY <1>5, IInvWakeStep
<1>6. CASE Dispatch
  BY <1>6, IInvDispatch
<1>7. CASE UNCHANGED vars
  BY <1>7 DEF vars, IInv, TypeOK, QueueSound, NoDuplicates, Range, RunningIsCurrent,
              OnlyRunnableHasCpu, PidUnique, InUse, IsFree, Pid0Alive,
              ReturnsOnlyFromTasks, PidsBounded
<1> QED BY <1>1, <1>2, <1>3, <1>4, <1>5, <1>6, <1>7 DEF Next

---------------------------------------------------------------------------
(* The inductive invariant holds in every reachable state.                 *)
THEOREM Inductive == Spec => []IInv
<1>1. Init => IInv
  BY SchedAssumption, IInvInit
<1>2. IInv /\ [Next]_vars => IInv'
  BY SchedAssumption, IInvNext
<1> QED BY <1>1, <1>2, PTL DEF Spec

(* Every variable keeps its type.                                          *)
THEOREM TypeCorrect == Spec => []TypeOK
<1>1. IInv => TypeOK
  BY DEF IInv
<1> QED BY <1>1, Inductive, PTL

(* The run queue never holds a process twice, one that is not READY, or,   *)
(* outside schedule(), the one on the CPU.                                 *)
THEOREM QueueIsSound == Spec => []QueueSound
<1>1. IInv => QueueSound
  BY DEF IInv
<1> QED BY <1>1, Inductive, PTL

(* At most the current process is RUNNING.                                 *)
THEOREM CpuIsExclusive == Spec => []RunningIsCurrent
<1>1. IInv => RunningIsCurrent
  BY DEF IInv
<1> QED BY <1>1, Inductive, PTL

(* A process that waits for a child, sleeps, or has exited is never the    *)
(* one on the CPU, once schedule() has returned.                           *)
THEOREM BlockedHasNoCpu == Spec => []OnlyRunnableHasCpu
<1>1. IInv => OnlyRunnableHasCpu
  BY DEF IInv
<1> QED BY <1>1, Inductive, PTL

(* PIDs are unique.                                                        *)
THEOREM PidsAreUnique == Spec => []PidUnique
<1>1. IInv => PidUnique
  BY DEF IInv
<1> QED BY <1>1, Inductive, PTL

---------------------------------------------------------------------------
(* Exit is for good.                                                       *)
THEOREM ExitPermanent == Spec => ExitIsFinal
<1>1. ASSUME IInv, [Next]_vars, NEW p \in Slots, Exited(p)
      PROVE  state'[p] = "ZOMBIE" /\ pid'[p] = pid[p]
  <2>1. p \in Tasks /\ state[p] = "ZOMBIE" /\ pid[p] # 0 /\ state \in [Slots -> States]
        /\ pid \in [Slots -> Nat]
    BY <1>1 DEF Exited, IInv, TypeOK
  <2>2. pc \notin {"clock", "wake"} => p # current
    BY <1>1, <2>1 DEF IInv, OnlyRunnableHasCpu
  <2>3. CASE TimerTick \/ Yield \/ ReadClock
    BY <2>1, <2>3 DEF TimerTick, Yield, ReadClock, table
  <2>4. CASE Create
    <3>1. PICK s \in Slots : /\ IsFree(s)
                             /\ state' = [state EXCEPT ![s] = "READY"]
                             /\ pid' = [pid EXCEPT ![s] = nextPid]
      BY <2>4 DEF Create, FirstFree
    <3> QED BY <2>1, <3>1 DEF IsFree
  <2>5. CASE Sleep \/ Block \/ Exit
    BY <2>1, <2>2, <2>5 DEF Sleep, Block, Exit
  <2>6. CASE \E s \in Slots : Unblock(s)
    BY <2>1, <2>6 DEF Unblock, MayUnblock
  <2>7. CASE WakeStep
    BY <2>1, <2>7 DEF WakeStep, Due
  <2>8. CASE Dispatch
    <3>1. Chosen # p
      <4>1. Chosen \in Tasks => Chosen \in Range(queue)
        BY <1>1, SchedAssumption, ChosenAndRest DEF IInv, QueueSound
      <4>2. \A r \in Range(queue) : state[r] = "READY"
        BY <1>1 DEF IInv, QueueSound
      <4> QED BY <2>1, <4>1, <4>2
    <3>2. StillRunnable(current) => current # p
      BY <2>1 DEF StillRunnable
    <3> QED BY <2>1, <2>8, <3>1, <3>2 DEF Dispatch, PutBack
  <2>9. CASE UNCHANGED vars
    BY <2>1, <2>9 DEF vars
  <2> QED BY <1>1, <2>3, <2>4, <2>5, <2>6, <2>7, <2>8, <2>9 DEF Next
<1>2. IInv /\ [Next]_vars =>
          [\A p \in Slots : Exited(p) => state'[p] = "ZOMBIE" /\ pid'[p] = pid[p]]_vars
  BY <1>1
<1> QED BY <1>2, Inductive, PTL DEF Spec, ExitIsFinal

---------------------------------------------------------------------------
(* The scheduler serves the run queue as a round-robin line.               *)
THEOREM RoundRobinSafety == Spec => RR!Safety
<1>1. Init => RR!Init
  BY DEF Init, RR!Init
<1>2. ASSUME IInv, [Next]_vars PROVE [RR!Next]_(RR!rrvars)
  <2> USE DEF RR!rrvars, RR!Next
  <2>1. \A p \in Range(queue) : p \in Slots /\ state[p] = "READY"
    BY <1>2, RangeOfSeq DEF IInv, QueueSound, TypeOK
  <2>2. CASE TimerTick \/ Yield \/ ReadClock
    BY <2>2 DEF TimerTick, Yield, ReadClock, table
  <2>3. CASE Sleep \/ Block \/ Exit
    BY <2>3 DEF Sleep, Block, Exit
  <2>join. ASSUME NEW p \in Slots, state[p] # "READY", queue' = Enqueue(queue, p),
                  current' = current
           PROVE  RR!Next
    <3>1. p \notin Range(queue)
      BY <2>1, <2>join
    <3>2. RR!Join(p)
      BY <2>join, <3>1 DEF RR!Join, RR!Range, Range, Enqueue
    <3> QED BY <3>2
  <2>4. CASE Create
    <3>1. PICK p \in Slots : IsFree(p) /\ queue' = Enqueue(queue, p)
      BY <2>4 DEF Create, FirstFree
    <3>2. current' = current /\ state[p] # "READY"
      BY <2>4, <3>1 DEF Create, IsFree
    <3> QED BY <2>join, <3>1, <3>2
  <2>5. CASE \E p \in Slots : Unblock(p)
    <3>1. PICK p \in Slots : Unblock(p)
      BY <2>5
    <3> QED BY <2>join, <3>1 DEF Unblock, MayUnblock
  <2>6. CASE WakeStep
    <3>1. scan \in Slots
      BY <1>2, <2>6, SchedAssumption DEF SchedAssumption, IInv, TypeOK, WakeStep, ScanEnd, Slots
    <3>2. CASE Due(scan)
      <4>1. state[scan] # "READY" /\ queue' = Enqueue(queue, scan) /\ current' = current
        BY <2>6, <3>2 DEF WakeStep, Due
      <4> QED BY <2>join, <3>1, <4>1
    <3>3. CASE ~Due(scan)
      BY <2>6, <3>3 DEF WakeStep
    <3> QED BY <3>2, <3>3
  <2>7. CASE Dispatch
    <3>1. RR!First = Chosen /\ RR!Others = Rest
      BY DEF RR!First, RR!Others, Chosen, Rest, Fallback
    <3>2. current' = Chosen /\ (queue' = Rest \/ queue' = Append(Rest, current))
      BY <2>7 DEF Dispatch, Enqueue
    <3>3. queue' # Rest => state[current] = "RUNNING" /\ Chosen # current
      BY <2>7 DEF Dispatch, StillRunnable
    <3>4. queue' # Rest => current \notin Range(queue) \cup {Chosen}
      BY <2>1, <3>3
    <3>5. CASE queue' = Rest
      BY <3>1, <3>2, <3>5 DEF RR!Serve
    <3>6. CASE queue' # Rest
      BY <3>1, <3>2, <3>4, <3>6 DEF RR!Serve, RR!Range, Range
    <3> QED BY <3>5, <3>6
  <2>8. CASE UNCHANGED vars
    BY <2>8 DEF vars
  <2> QED BY <1>2, <2>2, <2>3, <2>4, <2>5, <2>6, <2>7, <2>8 DEF Next
<1> QED BY <1>1, <1>2, Inductive, PTL DEF Spec, RR!Safety

---------------------------------------------------------------------------
(* Sleeps last as long as promised while wake_tick does not overflow.      *)

LEMMA ClockInvNext ==
    ASSUME SchedAssumption, NoOverflow, IInv, ClockInv, [Next]_vars
    PROVE  ClockInv'
<1>1. /\ state \in [Slots -> States] /\ wakeTick \in [Slots -> 0 .. WakeMod - 1]
      /\ deadline \in [Slots -> Nat] /\ ticks \in Nat /\ now \in Nat /\ current \in Slots
      /\ MaxTicks \in Nat /\ WakeMod \in Nat \ {0}
  BY DEF IInv, TypeOK, SchedAssumption
<1>2. /\ now <= ticks /\ ticks <= MaxTicks
      /\ \A p \in Tasks : IF state[p] = "SLEEPING" THEN wakeTick[p] = deadline[p]
                                                  ELSE deadline[p] <= ticks
  BY DEF ClockInv
<1>3. Tasks \subseteq Slots
  BY DEF Tasks
<1>4. CASE TimerTick
  <2>1. /\ ticks < MaxTicks /\ ticks' = ticks + 1
        /\ UNCHANGED <<state, wakeTick, deadline, now>>
    BY <1>4 DEF TimerTick, table, inSchedule
  <2> QED BY <1>1, <1>2, <1>3, <2>1 DEF ClockInv
<1>5. CASE Yield \/ ReadClock
  <2>1. /\ UNCHANGED <<state, wakeTick, deadline, ticks>>
        /\ now' \in {now, ticks}
    BY <1>5 DEF Yield, ReadClock, table, inSchedule
  <2> QED BY <1>1, <1>2, <2>1 DEF ClockInv
<1>6. CASE Sleep
  <2>1. PICK ms \in SleepMs :
          /\ wakeTick' = [wakeTick EXCEPT ![current] = NarrowTick(ticks + TicksFor(ms))]
          /\ deadline' = [deadline EXCEPT ![current] = ticks + TicksFor(ms)]
    BY <1>6 DEF Sleep
  <2>2. /\ state' = [state EXCEPT ![current] = "SLEEPING"]
        /\ UNCHANGED <<ticks, now>>
    BY <1>6 DEF Sleep, inSchedule
  <2>3. ms \in Nat /\ TicksFor(ms) \in Nat
    BY SchedAssumption DEF SchedAssumption, TicksFor
  <2>4. ticks + TicksFor(ms) < WakeMod
    <3>1. MaxTicks + TicksFor(ms) < WakeMod
      BY DEF NoOverflow
    <3> QED BY <1>1, <1>2, <2>3, <3>1
  <2>5. NarrowTick(ticks + TicksFor(ms)) = ticks + TicksFor(ms)
    BY <1>1, <2>3, <2>4 DEF NarrowTick
  <2> QED BY <1>1, <1>2, <1>3, <2>1, <2>2, <2>5 DEF ClockInv
<1>7. CASE Create \/ Block \/ Exit \/ \E p \in Slots : Unblock(p)
  <2>1. PICK p \in Slots : /\ state' = [state EXCEPT ![p] = "READY"]
                              \/ state' = [state EXCEPT ![p] = "BLOCKED"]
                              \/ state' = [state EXCEPT ![p] = "ZOMBIE"]
                           /\ p \in Tasks => state[p] # "SLEEPING"
    <3>1. CASE Create
      BY <3>1 DEF Create, FirstFree, IsFree
    <3>2. CASE Block \/ Exit
      BY <1>1, <3>2 DEF Block, Exit, IInv, OnlyRunnableHasCpu
    <3>3. CASE \E p \in Slots : Unblock(p)
      BY <3>3 DEF Unblock, MayUnblock
    <3> QED BY <1>7, <3>1, <3>2, <3>3
  <2>2. UNCHANGED <<wakeTick, deadline, ticks, now>>
    BY <1>7 DEF Create, Block, Exit, Unblock, inSchedule
  <2>3. ASSUME NEW r \in Tasks
        PROVE  state'[r] = state[r] \/ (state[r] # "SLEEPING" /\ state'[r] # "SLEEPING")
    BY <1>1, <1>3, <2>1
  <2> QED BY <1>1, <1>2, <2>2, <2>3 DEF ClockInv
<1>8. CASE WakeStep
  <2>1. UNCHANGED <<wakeTick, deadline, ticks, now>>
    BY <1>8 DEF WakeStep
  <2>2. ASSUME NEW r \in Tasks
        PROVE  \/ state'[r] = state[r]
               \/ now >= wakeTick[r] /\ state'[r] = "READY" /\ state[r] = "SLEEPING"
    BY <1>1, <1>3, <1>8 DEF WakeStep, Due
  <2> QED BY <1>1, <1>2, <1>3, <2>1, <2>2 DEF ClockInv
<1>9. CASE Dispatch
  <2>1. now' = 0 /\ UNCHANGED <<wakeTick, deadline, ticks>>
    BY <1>9 DEF Dispatch
  <2>2. \A r \in Range(queue) : state[r] = "READY"
    BY DEF IInv, QueueSound
  <2>3. Chosen \in Tasks => state[Chosen] = "READY"
    BY <2>2, ChosenAndRest DEF IInv, QueueSound
  <2>4. ASSUME NEW r \in Tasks
        PROVE  state'[r] = state[r] \/ (state[r] # "SLEEPING" /\ state'[r] # "SLEEPING")
    BY <1>1, <1>3, <1>9, <2>3 DEF Dispatch, StillRunnable, PutBack
  <2> QED BY <1>1, <1>2, <2>1, <2>4 DEF ClockInv
<1>10. CASE UNCHANGED vars
  BY <1>2, <1>10 DEF vars, ClockInv
<1> QED BY <1>4, <1>5, <1>6, <1>7, <1>8, <1>9, <1>10 DEF Next

(* proc_sleep gives the CPU back to a task only when its time has come.    *)
THEOREM SleepsLast == NoOverflow => (Spec => SleepLasts)
<1> SUFFICES ASSUME NoOverflow PROVE Spec => SleepLasts
  OBVIOUS
<1>1. Init => ClockInv
  BY SchedAssumption DEF SchedAssumption, Init, ClockInv, Tasks
<1>2. IInv /\ ClockInv /\ [Next]_vars => ClockInv'
  BY SchedAssumption, ClockInvNext
<1>3. ASSUME IInv, ClockInv, [Next]_vars, NEW p \in Tasks, Resumed(p)
      PROVE  ticks >= deadline[p]
  <2>1. Dispatch
    BY <1>3 DEF Resumed, Next, vars, TimerTick, Create, Yield, Sleep, Block, Unblock,
                Exit, ReadClock, WakeStep
  <2>2. p = Chosen
    BY <1>3, <2>1 DEF Resumed, Dispatch
  <2>3. state[p] = "READY"
    BY <1>3, <2>2, SchedAssumption, ChosenAndRest DEF IInv, QueueSound
  <2> QED BY <1>3, <2>3 DEF ClockInv, IInv, TypeOK, Tasks
<1>4. IInv /\ ClockInv /\ [Next]_vars
        => [\A p \in Tasks : Resumed(p) => ticks >= deadline[p]]_vars
  BY <1>3
<1> QED BY <1>1, <1>2, <1>4, Inductive, PTL DEF Spec, SleepLasts
=============================================================================
