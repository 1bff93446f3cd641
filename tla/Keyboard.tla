------------------------------ MODULE Keyboard ------------------------------
(***************************************************************************)
(* The keyboard driver, kernel/drivers/keyboard.c, between the interrupt   *)
(* that turns scancodes into bytes and the shell's read_key, which turns   *)
(* bytes into keys.  An arrow key is two bytes in the ring; so is every    *)
(* other extended key, for which the right Ctrl stands.                    *)
(***************************************************************************)
EXTENDS Integers, Sequences, SequencesExt

CONSTANTS
    KbBuf,        \* KB_BUF
    MaxScancodes  \* bound: scancodes sent by the keyboard

ASSUME KeyboardAssumption == KbBuf \in Nat \ {0} /\ MaxScancodes \in Nat

\* The prefix, the letter c, code 48 (arrow up behind the prefix, else keypad
\* 8), modifiers, and releases.  "-48" also stands for the acknowledgements, FA,
\* that update_leds makes the keyboard send: bit 7 is all the code looks at.
Scancodes == {"E0", "c", "48", "ctrl", "caps", "-ctrl", "-48"}
Bytes == {"E0", "H", "1D", "c", "C", "^C", "8"}
KeyBytes == [UP |-> <<"E0", "H">>, RCTRL |-> <<"E0", "1D">>,
             c |-> <<"c">>, C |-> <<"C">>, ctrlC |-> <<"^C">>, eight |-> <<"8">>]
NoByte == "\\0"

VARIABLES
    kbRing, kbRp, kbWp,           \* buf, rp, wp
    kbExtended, kbCtrl, kbCaps,   \* extended, ctrl, caps
    kbAt,                         \* where the reader is in keyboard_getchar
    kbMarker,                     \* read_key has the marker and waits for the code
    kbSent,                       \* scancodes so far, for the bound
    kbTyped,                      \* history: keys put into the ring and not yet read
    kbTorn                        \* history: a marker went in without its code

kbFlags == <<kbExtended, kbCtrl, kbCaps>>
kbVars == <<kbRing, kbRp, kbWp, kbFlags, kbAt, kbMarker, kbSent, kbTyped, kbTorn>>

KbInit ==
    /\ kbRing = [i \in 0 .. KbBuf - 1 |-> NoByte] /\ kbRp = 0 /\ kbWp = 0
    /\ kbExtended = FALSE /\ kbCtrl = FALSE /\ kbCaps = FALSE
    /\ kbAt = "poll" /\ kbMarker = FALSE
    /\ kbSent = 0 /\ kbTyped = <<>> /\ kbTorn = FALSE

KbWaiting == [i \in 1 .. (kbWp - kbRp) % KbBuf |-> kbRing[(kbRp + i - 1) % KbBuf]]

---------------------------------------------------------------------------
(* The interrupt *)

\* FAULT (KeysInOrder): every place of the ring is used.
FreeWithoutGap == KbBuf - Len(KbWaiting)

\* push drops a byte when the next place is the reader's.
KbFree == KbBuf - 1 - Len(KbWaiting)

\* push, for each byte of a key; what does not fit is dropped.
Push(key) ==
    LET bytes == KeyBytes[key]
        fits == IF KbFree < Len(bytes) THEN KbFree ELSE Len(bytes)
    IN  /\ kbRing' = [i \in DOMAIN kbRing |->
              LET k == ((i - kbWp) % KbBuf) + 1 IN IF k <= fits THEN bytes[k] ELSE kbRing[i]]
        /\ kbWp' = (kbWp + fits) % KbBuf
        /\ kbTorn' = (kbTorn \/ fits \in 1 .. Len(bytes) - 1)
        /\ kbTyped' = IF kbTorn' THEN <<>>
                      ELSE IF fits = 0 THEN kbTyped ELSE Append(kbTyped, key)

NoKey == UNCHANGED <<kbRing, kbWp, kbTorn, kbTyped>>

Letter == IF kbCtrl THEN "ctrlC" ELSE IF kbCaps THEN "C" ELSE "c"

\* kb_irq.  Any interrupt wakes a halted reader.
KbIrq(sc) ==
    /\ kbSent < MaxScancodes
    /\ kbSent' = kbSent + 1
    /\ kbAt' = IF kbAt = "halted" THEN "poll" ELSE kbAt
    /\ kbExtended' = (sc = "E0")
    /\ CASE sc = "E0" -> NoKey /\ UNCHANGED <<kbCtrl, kbCaps>>
         [] sc # "E0" /\ kbExtended ->
              /\ UNCHANGED <<kbCtrl, kbCaps>>
              /\ CASE sc = "48" -> Push("UP")
                   [] sc \in {"-48", "-ctrl"} -> NoKey
                   [] OTHER -> Push("RCTRL")
         [] OTHER ->
              /\ kbCtrl' = IF sc \in {"ctrl", "-ctrl"} THEN sc = "ctrl" ELSE kbCtrl
              /\ kbCaps' = IF sc = "caps" THEN ~kbCaps ELSE kbCaps
              /\ CASE sc = "c" -> Push(Letter)
                   [] sc = "48" -> Push("eight")
                   [] OTHER -> NoKey
    /\ UNCHANGED <<kbRp, kbMarker>>

\* FAULT (KeyIsRead): the reader halts with interrupts off.
WokenByNothing == FALSE
WokenByTimer == TRUE

\* timer_irq_handler, as far as the reader is concerned.
KbTimer ==
    /\ kbAt = "halted" /\ WokenByTimer
    /\ kbAt' = "poll"
    /\ UNCHANGED <<kbRing, kbRp, kbWp, kbFlags, kbMarker, kbSent, kbTyped, kbTorn>>

---------------------------------------------------------------------------
(* The reader: keyboard_poll in keyboard_getchar in read_key *)

\* keyboard_poll looks; with nothing there getchar goes on to hlt.
KbLook ==
    /\ kbAt = "poll"
    /\ kbAt' = IF kbRp = kbWp THEN "hlt" ELSE "take"
    /\ UNCHANGED <<kbRing, kbRp, kbWp, kbFlags, kbMarker, kbSent, kbTyped, kbTorn>>

\* hlt, also when the key has come since the look.
KbHlt ==
    /\ kbAt = "hlt"
    /\ kbAt' = "halted"
    /\ UNCHANGED <<kbRing, kbRp, kbWp, kbFlags, kbMarker, kbSent, kbTyped, kbTorn>>

\* keyboard_poll takes the byte, read_key makes a key of it or asks for the
\* next.  A ring that is empty again is in step whatever was dropped before.
KbTake ==
    /\ kbAt = "take"
    /\ kbRp' = (kbRp + 1) % KbBuf
    /\ kbMarker' = (~kbMarker /\ kbRing[kbRp] = "E0")
    /\ LET resync == kbRp' = kbWp /\ ~kbMarker'
       IN  /\ kbTorn' = (kbTorn /\ ~resync)
           /\ kbTyped' = IF kbTyped = <<>> \/ kbMarker' THEN kbTyped ELSE Tail(kbTyped)
    /\ kbAt' = "poll"
    /\ UNCHANGED <<kbRing, kbWp, kbFlags, kbSent>>

KbReader == KbLook \/ KbHlt \/ KbTake
KbNext == (\E sc \in Scancodes : KbIrq(sc)) \/ KbTimer \/ KbReader

---------------------------------------------------------------------------
(* Properties *)

KbTypeOK ==
    /\ kbRing \in [0 .. KbBuf - 1 -> Bytes \cup {NoByte}]
    /\ {kbRp, kbWp} \subseteq 0 .. KbBuf - 1
    /\ {kbExtended, kbCtrl, kbCaps, kbMarker, kbTorn} \subseteq BOOLEAN
    /\ kbAt \in {"poll", "hlt", "halted", "take"}
    /\ kbTyped \in Seq(DOMAIN KeyBytes)

\* What the ring and read_key hold between them are exactly the keys pressed and
\* not yet read, each whole and in order, while the interrupt writes between any
\* two steps of the reader and keys are dropped at a full ring.  (When only the
\* marker of an arrow key found a place, this holds again once the ring has been
\* emptied.)
KeysInOrder ==
    ~kbTorn => (IF kbMarker THEN <<"E0">> ELSE <<>>) \o KbWaiting
               = FlattenSeq([i \in DOMAIN kbTyped |-> KeyBytes[kbTyped[i]]])

\* What is in the ring gets read, also when it came between the look and hlt.
KeyIsRead == (kbRp # kbWp) ~> (kbRp = kbWp)
=============================================================================
