------------------------------- MODULE E1000 -------------------------------
(***************************************************************************)
(* The receive ring of the network card, kernel/drivers/net/e1000.c.  The  *)
(* card fills descriptors at its head and sets their DD bits; the driver   *)
(* empties them at rx_tail and hands them back through RDT.                *)
(*                                                                         *)
(* e1000_handle_irq is called from two contexts: by the thread that polls  *)
(* ("main") and by the interrupt ("irq").  An interrupt may find the       *)
(* thread in the middle of the same function.                              *)
(*                                                                         *)
(* A frame is only its DD bit here; what is in it is chosen when it is     *)
(* read (Net).                                                             *)
(***************************************************************************)
EXTENDS Integers

CONSTANTS
    RxCount,     \* RX_DESC_COUNT
    MaxFrames    \* bound: frames arriving in a behaviour

ASSUME E1000Assumption == RxCount \in Nat /\ RxCount >= 2 /\ MaxFrames \in Nat

Descriptors == 0 .. RxCount - 1
Contexts == {"main", "irq"}

VARIABLES
    dd,          \* descriptors whose DD bit is set
    rdh, rdt,    \* the card's head and tail registers
    rxTail,      \* rx_tail
    cause,       \* ICR has RXT0 or RXDMT0
    nicOn,       \* e1000_init has succeeded
    rxCb,        \* rx_cb is set
    at,          \* where each context is in e1000_handle_irq
    frames,      \* frames arrived, for the bound
    reentered    \* history: the interrupt came while main was handling a frame

ringVars == <<dd, rdh, rdt, rxTail>>
nicVars == <<dd, rdh, rdt, rxTail, cause, nicOn, rxCb, at, frames, reentered>>

\* FAULT (TypeOK): the driver's place does not wrap.
NextUnwrapped(i) == i + 1
NextDescriptor(i) == (i + 1) % RxCount

RingInit ==
    /\ dd = {} /\ rdh = 0 /\ rdt = RxCount - 1 /\ rxTail = 0

NicInit ==
    /\ RingInit
    /\ cause = FALSE /\ nicOn = FALSE /\ rxCb = FALSE
    /\ at = [c \in Contexts |-> "out"]
    /\ frames = 0 /\ reentered = FALSE

---------------------------------------------------------------------------
(* The card *)

\* A frame comes in.  With head and tail equal there is no descriptor for it.
Arrive ==
    /\ nicOn
    /\ rdh # rdt
    /\ frames < MaxFrames
    /\ dd' = dd \cup {rdh}
    /\ rdh' = NextDescriptor(rdh)
    /\ cause' = TRUE
    /\ frames' = frames + 1
    /\ UNCHANGED <<rdt, rxTail, nicOn, rxCb, at, reentered>>

---------------------------------------------------------------------------
(* The driver.  The last conjuncts about at say where the caller goes on.  *)

\* e1000_init, once the card is found, mapped and reset.
StartNic ==
    /\ nicOn' = TRUE
    /\ dd' = {} /\ rdh' = 0 /\ rdt' = RxCount - 1 /\ rxTail' = 0
    /\ UNCHANGED <<cause, rxCb, at, frames, reentered>>

EnterHandler(c) ==
    /\ at[c] = "out"
    /\ at' = [at EXCEPT ![c] = "icr"]

\* Reading ICR clears it; without a receive cause the ring is not looked at.
ReadIcr(c) ==
    /\ at[c] = "icr"
    /\ cause' = FALSE
    /\ at' = [at EXCEPT ![c] = IF cause THEN "sweep" ELSE "return"]
    /\ UNCHANGED <<dd, rdh, rdt, rxTail, nicOn, rxCb, frames, reentered>>

\* The loop condition holds and the frame is passed on.
TakeFrame(c) ==
    /\ at[c] = "sweep"
    /\ rxTail \in dd
    /\ at' = [at EXCEPT ![c] = "release"]
    /\ UNCHANGED <<dd, rdh, rdt, rxTail, cause, nicOn, rxCb, frames, reentered>>

\* FAULT (RingInStep): the descriptor behind the one just read is handed back.
AfterFreed == NextDescriptor(rxTail)
Freed == rxTail

\* The rest of the loop's body.  rx_tail is read anew: the interrupt may have
\* moved it since the frame was taken.
Release(c) ==
    /\ at[c] = "release"
    /\ dd' = dd \ {rxTail}
    /\ rdt' = Freed
    /\ rxTail' = NextDescriptor(rxTail)
    /\ at' = [at EXCEPT ![c] = "sweep"]
    /\ UNCHANGED <<rdh, cause, nicOn, rxCb, frames, reentered>>

SweepDone(c) ==
    /\ at[c] = "sweep"
    /\ rxTail \notin dd
    /\ at' = [at EXCEPT ![c] = "return"]
    /\ UNCHANGED <<dd, rdh, rdt, rxTail, cause, nicOn, rxCb, frames, reentered>>

LeaveHandler(c) ==
    /\ at[c] = "return"
    /\ at' = [at EXCEPT ![c] = "out"]

---------------------------------------------------------------------------
(* Properties *)

\* The descriptors from a up to, and without, b.
Between(a, b) == {i \in Descriptors : (i - a) % RxCount < (b - a) % RxCount}

\* Driver and card agree: the frames waiting are exactly those between the
\* driver's place and the card's, and the card may go on to the descriptor just
\* before the driver's.  So every frame is handled once and in order, however
\* arrivals fall between polls, callbacks and the driver's writes.  (Once the
\* interrupt has come while main was handling a frame the frame is handled
\* twice, another may be dropped, and driver and card may stay out of step.)
RingInStep ==
    nicOn /\ ~reentered => dd = Between(rxTail, rdh) /\ NextDescriptor(rdt) = rxTail
=============================================================================
