------------------------------ MODULE Services ------------------------------
(***************************************************************************)
(* The parts of the kernel that share no state with each other: keyboard,  *)
(* line editor, VFS, memory, screen.  A behaviour exercises one of them,   *)
(* chosen in its initial state; what one does has no effect on the rest.   *)
(***************************************************************************)
EXTENDS Keyboard, History, Vfs, Memory, Screen

VARIABLE part    \* the part this behaviour exercises

vars == <<kbVars, histVars, vfsVars, memVars, scrVars, part>>

Init ==
    /\ part \in {"keyboard", "history", "vfs", "memory", "screen"}
    /\ KbInit /\ HistInit
    /\ VfsInit /\ (part # "vfs" => Len(vfsMounts) = 1)
    /\ MemInit /\ (part # "memory" => memTotal = 0)
    /\ ScrInit /\ (part # "screen" => ~scrFb)

Next ==
    \/ part = "keyboard" /\ KbNext /\ UNCHANGED <<histVars, vfsVars, memVars, scrVars, part>>
    \/ part = "history" /\ HistNext /\ UNCHANGED <<kbVars, vfsVars, memVars, scrVars, part>>
    \/ part = "vfs" /\ VfsNext /\ UNCHANGED <<kbVars, histVars, memVars, scrVars, part>>
    \/ part = "memory" /\ MemNext /\ UNCHANGED <<kbVars, histVars, vfsVars, scrVars, part>>
    \/ part = "screen" /\ ScrNext /\ UNCHANGED <<kbVars, histVars, vfsVars, memVars, part>>

\* The shell keeps asking for keys, and the timer ticks; nothing is assumed of
\* who types.
Spec ==
    /\ Init /\ [][Next]_vars
    /\ WF_vars(part = "keyboard" /\ KbReader /\ UNCHANGED <<histVars, vfsVars, memVars, scrVars, part>>)
    /\ WF_vars(part = "keyboard" /\ KbTimer /\ UNCHANGED <<histVars, vfsVars, memVars, scrVars, part>>)

\* Each component's variables have their types.
TypeOK == KbTypeOK /\ HistTypeOK /\ VfsTypeOK /\ MemTypeOK /\ ScrTypeOK
=============================================================================
