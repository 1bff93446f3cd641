---------------------------- MODULE RoundRobin ----------------------------
(***************************************************************************)
(* What the scheduler of Sched promises: one processor, a line of waiting  *)
(* processes served in order of arrival, and a distinguished process that  *)
(* gets the processor when nobody waits, and may keep it; any other gives  *)
(* it up.  Why a process joins the line (created, woken, unblocked) is     *)
(* left out.                                                               *)
(***************************************************************************)
EXTENDS Integers, Sequences, Functions

CONSTANTS
    Proc,
    Idle   \* a member of Proc

VARIABLES line, onCpu

rrvars == <<line, onCpu>>

Init == line = <<>> /\ onCpu = Idle

Join(p) ==
    /\ p \notin Range(line)
    /\ line' = Append(line, p)
    /\ UNCHANGED onCpu

First == IF line = <<>> THEN Idle ELSE Head(line)
Others == IF line = <<>> THEN <<>> ELSE Tail(line)

\* The processor goes to the first in line; the process that had it leaves,
\* or waits behind all the others.
Serve ==
    /\ onCpu' = First
    /\ \/ line' = Others
       \/ /\ onCpu \notin Range(line) \cup {First}
          /\ line' = Append(Others, onCpu)

Next == (\E p \in Proc : Join(p)) \/ Serve

Spec == Init /\ [][Next]_rrvars /\ WF_rrvars(onCpu # Idle /\ Serve)

Safety == Init /\ [][Next]_rrvars
=============================================================================
