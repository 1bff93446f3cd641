-------------------------------- MODULE Boot --------------------------------
(***************************************************************************)
(* The start of the kernel from the disk on (kernel/kernel.c), with the    *)
(* DHCP exchange of dhcp_request, the commands dhcp and ping, the disk     *)
(* driver's cli and sti, and the interrupts of timer and network card.     *)
(*                                                                         *)
(* boot.asm enters kernel_main with interrupts off, and kernel_main turns  *)
(* them on only behind dhcp_request, which waits for timer ticks.  What    *)
(* lets the ticks through is the sti at the end of a disk transfer.        *)
(***************************************************************************)
EXTENDS Net

CONSTANTS
    Attempts, Polls,  \* the 3 attempts and the 500 polls of each wait
    Sectors,          \* bound: sectors of a transfer
    MaxExchanges      \* bound: dhcp commands

ASSUME BootAssumption == {Attempts, Polls, Sectors, MaxExchanges} \subseteq Nat

VARIABLES
    pc,               \* where kernel_main is
    ifFlag,           \* the interrupt flag
    disk,             \* ata_init finds a drive
    line,             \* the firmware left the card's line open at the PIC
    left,             \* sectors left of the transfer
    attempt, polls,   \* attempt and i of dhcp_request
    waiting,          \* inside the body of a polling loop
    ticked,           \* timer_ticks() is beyond t
    exchanges,        \* dhcp commands given; 0 while the kernel starts
    leased            \* history: lease when dhcp_request returned

flowVars == <<pc, ifFlag, disk, line, left, attempt, polls, waiting, ticked, exchanges, leased>>
vars == <<nicVars, netVars, flowVars>>

Init ==
    /\ NicInit /\ NetInitial
    /\ pc = "ata" /\ ifFlag = FALSE
    /\ disk \in BOOLEAN /\ line \in BOOLEAN
    /\ left = 0 /\ attempt = 0 /\ polls = 0
    /\ waiting = FALSE /\ ticked = TRUE /\ exchanges = 0 /\ leased = NoLease

\* The thread at place p, no interrupt being served.
MainAt(p) == pc = p /\ at["irq"] = "out" /\ at["main"] = "out"

---------------------------------------------------------------------------
(* Interrupts *)

\* IRQ 0.
TimerIrq ==
    /\ ifFlag /\ at["irq"] = "out"
    /\ ticked' = TRUE
    /\ UNCHANGED <<nicVars, netVars, pc, ifFlag, disk, line, left, attempt, polls,
                   waiting, exchanges, leased>>

\* The card's interrupt, through irq_common and irq_handler.
NicIrq ==
    /\ ifFlag /\ line /\ nicOn /\ cause
    /\ EnterHandler("irq")
    /\ ifFlag' = FALSE
    /\ reentered' = (reentered \/ at["main"] = "release")
    /\ UNCHANGED <<ringVars, cause, nicOn, rxCb, frames, netVars, pc, disk, line, left,
                   attempt, polls, waiting, ticked, exchanges, leased>>

\* EOI, and sti before iret.
IrqReturn ==
    /\ LeaveHandler("irq")
    /\ ifFlag' = TRUE
    /\ UNCHANGED <<ringVars, cause, nicOn, rxCb, frames, reentered, netVars, pc, disk, line,
                   left, attempt, polls, waiting, ticked, exchanges, leased>>

\* A step of e1000_handle_irq; main stands still while the interrupt is served.
HandlerStep(c) ==
    /\ c = "main" => at["irq"] = "out"
    /\ \/ (ReadIcr(c) \/ Release(c) \/ SweepDone(c)) /\ UNCHANGED netVars
       \/ /\ TakeFrame(c)
          /\ IF rxCb THEN \E m \in Incoming : Receive(m) ELSE UNCHANGED netVars
    /\ UNCHANGED flowVars

---------------------------------------------------------------------------
(* The disk *)

\* ata_init.  With a drive kernel_main reads the superblock, and more.
AtaInit ==
    /\ MainAt("ata")
    /\ pc' = IF disk THEN "disk" ELSE "nic"
    /\ UNCHANGED <<nicVars, netVars, ifFlag, disk, line, left, attempt, polls, waiting,
                   ticked, exchanges, leased>>

\* ata_read and ata_write up to the loop.
AtaCli(count) ==
    /\ MainAt("disk")
    /\ ifFlag' = FALSE /\ left' = count /\ pc' = "transfer"
    /\ UNCHANGED <<nicVars, netVars, disk, line, attempt, polls, waiting, ticked,
                   exchanges, leased>>

\* A turn of the loop; an error or a drive that stays busy ends it.
AtaSector ==
    /\ MainAt("transfer") /\ left > 0
    /\ left' \in {left - 1, 0}
    /\ UNCHANGED <<nicVars, netVars, pc, ifFlag, disk, line, attempt, polls, waiting,
                   ticked, exchanges, leased>>

\* FAULT (DhcpEnds): the flag is left as it was before the transfer.
FlagRestored == FALSE
FlagAfterTransfer == TRUE

AtaSti ==
    /\ MainAt("transfer") /\ left = 0
    /\ ifFlag' = FlagAfterTransfer
    /\ pc' \in {"disk", "nic"}
    /\ UNCHANGED <<nicVars, netVars, disk, line, left, attempt, polls, waiting, ticked,
                   exchanges, leased>>

---------------------------------------------------------------------------
(* The network *)

E1000Missing ==
    /\ MainAt("nic")
    /\ pc' = "sti"
    /\ UNCHANGED <<nicVars, netVars, ifFlag, disk, line, left, attempt, polls, waiting,
                   ticked, exchanges, leased>>

E1000Init ==
    /\ MainAt("nic")
    /\ StartNic
    /\ pc' = "net"
    /\ UNCHANGED <<netVars, ifFlag, disk, line, left, attempt, polls, waiting, ticked,
                   exchanges, leased>>

\* net_init.  Frames that come before it are emptied from the ring unseen.
NetInit ==
    /\ MainAt("net")
    /\ arp' = <<>> /\ bound' = FALSE /\ netIp' = NoIp /\ rxCb' = TRUE
    /\ pc' = "start"
    /\ UNCHANGED <<ringVars, cause, nicOn, at, frames, reentered, traffic, netOpts, out, sending, heard,
                   gotOffer, gotAck, offered, server, opts, lease, discovered, asked,
                   ifFlag, disk, line, left, attempt, polls, waiting, ticked, exchanges, leased>>

\* dhcp_request: the flags are reset before the values.
DhcpReset ==
    /\ MainAt("start")
    /\ gotOffer' = FALSE /\ gotAck' = FALSE /\ lease' = NoLease
    /\ pc' = "clear"
    /\ UNCHANGED <<nicVars, traffic, netIp, netOpts, cacheVars, bound, offered, server, opts,
                   discovered, asked, ifFlag, disk, line, left, attempt, polls, waiting,
                   ticked, exchanges, leased>>

\* The values, and udp_register_port(68).
DhcpClear ==
    /\ MainAt("clear")
    /\ offered' = NoIp /\ server' = NoIp /\ opts' = [o \in Options |-> NoIp] /\ bound' = TRUE
    /\ lease' = IF gotAck THEN Spoilt ELSE lease
    /\ attempt' = 0
    /\ pc' = "discover"
    /\ UNCHANGED <<nicVars, traffic, netIp, netOpts, cacheVars, gotOffer, gotAck, discovered,
                   asked, ifFlag, disk, line, left, polls, waiting, ticked, exchanges, leased>>

\* The condition of the outer loop, and the DISCOVER of its body.
SendDiscover ==
    /\ MainAt("discover")
    /\ IF attempt < Attempts /\ ~gotOffer
       THEN /\ discovered' = TRUE
            /\ attempt' = attempt + 1 /\ polls' = 0
            /\ pc' = "offer"
       ELSE /\ pc' = IF gotOffer THEN "request" ELSE "failed"
            /\ UNCHANGED <<discovered, attempt, polls>>
    /\ UNCHANGED <<nicVars, traffic, netIp, netOpts, cacheVars, dhcpVars, asked, ifFlag, disk,
                   line, left, waiting, ticked, exchanges, leased>>

SendRequest ==
    /\ MainAt("request")
    /\ asked' = asked \cup {<<offered, server>>}
    /\ polls' = 0
    /\ pc' = "ack"
    /\ UNCHANGED <<nicVars, traffic, netIp, netOpts, cacheVars, dhcpVars, discovered, ifFlag,
                   disk, line, left, attempt, waiting, ticked, exchanges, leased>>

\* The two polling loops, at p = "offer" and p = "ack".
Answered(p) == IF p = "offer" THEN gotOffer ELSE gotAck

Poll(p) ==
    /\ MainAt(p) /\ ~waiting
    /\ polls < Polls /\ ~Answered(p)
    /\ EnterHandler("main")
    /\ waiting' = TRUE
    /\ UNCHANGED <<ringVars, cause, nicOn, rxCb, frames, reentered, netVars, pc, ifFlag, disk,
                   line, left, attempt, polls, ticked, exchanges, leased>>

\* e1000_handle_irq returns and t = timer_ticks().
PollReturn ==
    /\ at["irq"] = "out"
    /\ LeaveHandler("main")
    /\ ticked' = FALSE
    /\ UNCHANGED <<ringVars, cause, nicOn, rxCb, frames, reentered, netVars, pc, ifFlag, disk,
                   line, left, attempt, polls, waiting, exchanges, leased>>

NextTick(p) ==
    /\ MainAt(p) /\ waiting /\ ticked
    /\ waiting' = FALSE /\ polls' = polls + 1
    /\ UNCHANGED <<nicVars, netVars, pc, ifFlag, disk, line, left, attempt, ticked,
                   exchanges, leased>>

PollsDone(p) ==
    /\ MainAt(p) /\ ~waiting
    /\ polls = Polls \/ Answered(p)
    /\ pc' = CASE p = "offer" -> "discover"
               [] p = "ack" -> IF gotAck THEN "success" ELSE "failed"
    /\ UNCHANGED <<nicVars, netVars, ifFlag, disk, line, left, attempt, polls, waiting,
                   ticked, exchanges, leased>>

Caller == IF exchanges = 0 THEN "sti" ELSE "shell"

\* The lease is taken, of the options those that some message carried, and
\* announced by a gratuitous ARP request.
DhcpSuccess ==
    /\ MainAt("success")
    /\ netIp' = offered
    /\ netOpts' = [o \in Options |-> IF opts[o] = NoIp THEN netOpts[o] ELSE opts[o]]
    /\ out' = ToAll
    /\ leased' = lease
    /\ pc' = Caller
    /\ UNCHANGED <<nicVars, traffic, arp, sending, heard, dhcpVars, discovered, asked, ifFlag, disk,
                   line, left, attempt, polls, waiting, ticked, exchanges>>

\* dhcp_request returns 0: kernel_main takes the fall-back, the shell nothing.
DhcpFailed ==
    /\ MainAt("failed")
    /\ IF exchanges = 0 THEN netIp' = Fallback /\ netOpts' = [o \in Options |-> Fallback]
       ELSE UNCHANGED <<netIp, netOpts>>
    /\ pc' = Caller
    /\ UNCHANGED <<nicVars, traffic, cacheVars, dhcpVars, discovered, asked, ifFlag, disk, line,
                   left, attempt, polls, waiting, ticked, exchanges, leased>>

Sti ==
    /\ MainAt("sti")
    /\ ifFlag' = TRUE
    /\ pc' = "shell"
    /\ UNCHANGED <<nicVars, netVars, disk, line, left, attempt, polls, waiting, ticked,
                   exchanges, leased>>

\* cmd_dhcp.
ShellDhcp ==
    /\ MainAt("shell") /\ nicOn
    /\ exchanges < MaxExchanges
    /\ exchanges' = exchanges + 1
    /\ pc' = "start"
    /\ UNCHANGED <<nicVars, netVars, ifFlag, disk, line, left, attempt, polls, waiting,
                   ticked, leased>>

\* cmd_ping, one of its four packets, up to the look-up of the address.
Ping(dst) ==
    /\ MainAt("shell") /\ nicOn
    /\ traffic = "arp"
    /\ sending' = Sent(dst)
    /\ pc' = "send"
    /\ UNCHANGED <<nicVars, traffic, netIp, netOpts, arp, out, heard, dhcpVars, discovered,
                   asked, ifFlag, disk, line, left, attempt, polls, waiting, ticked,
                   exchanges, leased>>

\* eth_send_raw, or the ARP request in its stead.
PingSend ==
    /\ MainAt("send")
    /\ out' = sending /\ sending' = NoFrame
    /\ pc' = "shell"
    /\ UNCHANGED <<nicVars, traffic, netIp, netOpts, arp, heard, dhcpVars, discovered,
                   asked, ifFlag, disk, line, left, attempt, polls, waiting, ticked,
                   exchanges, leased>>

---------------------------------------------------------------------------

Irq == NicIrq \/ HandlerStep("irq") \/ IrqReturn

Disk == AtaInit \/ (\E n \in 1 .. Sectors : AtaCli(n)) \/ AtaSector \/ AtaSti

Wait == \E p \in {"offer", "ack"} : Poll(p) \/ NextTick(p) \/ PollsDone(p)

Dhcp ==
    \/ DhcpReset \/ DhcpClear \/ SendDiscover \/ SendRequest
    \/ Wait \/ HandlerStep("main") \/ PollReturn
    \/ DhcpSuccess \/ DhcpFailed

Main == Disk \/ E1000Missing \/ E1000Init \/ NetInit \/ Dhcp \/ Sti \/ PingSend

Command == ShellDhcp \/ \E dst \in Hosts \cup {SubnetBroadcast} : Ping(dst)

Next ==
    \/ Arrive /\ UNCHANGED <<netVars, flowVars>>
    \/ TimerIrq \/ Irq \/ Main \/ Command

\* The CPU goes on executing, and the timer ticks.  Nothing is assumed of the
\* network or of who types commands.
Spec == Init /\ [][Next]_vars /\ WF_vars(Main) /\ WF_vars(Irq) /\ WF_vars(TimerIrq)

---------------------------------------------------------------------------
(* Properties *)

TypeOK ==
    /\ dd \subseteq Descriptors
    /\ {rdh, rdt, rxTail} \subseteq Descriptors
    /\ {cause, nicOn, rxCb, reentered} \subseteq BOOLEAN
    /\ at \in [Contexts -> {"out", "icr", "sweep", "release", "return"}]
    /\ frames \in 0 .. MaxFrames
    /\ netIp \in Addresses /\ netOpts \in [Options -> Servers \cup {Fallback}]
    /\ arp \in UNION {[1 .. n -> [ip : Hosts, mac : Macs]] : n \in 0 .. ArpCache}
    /\ heard \in [Hosts -> Macs \cup {NoMac}]
    /\ {out.to, sending.to} \subseteq Macs \cup {All, NoMac, Torn.to}
    /\ {offered, server} \subseteq Servers \cup {NoIp}
    /\ opts \in [Options -> Servers \cup {NoIp}]
    /\ {bound, gotOffer, gotAck, discovered} \subseteq BOOLEAN
    /\ asked \subseteq (Servers \cup {NoIp}) \X (Servers \cup {NoIp})
    /\ {lease, leased} \subseteq
          [from : Servers, has : SUBSET Options] \cup {NoLease, Spoilt}
    /\ pc \in {"ata", "disk", "transfer", "nic", "net", "start", "clear", "discover", "offer",
               "request", "ack", "success", "failed", "sti", "shell", "send"}
    /\ {ifFlag, disk, line, waiting, ticked} \subseteq BOOLEAN
    /\ left \in 0 .. Sectors /\ attempt \in 0 .. Attempts /\ polls \in 0 .. Polls
    /\ exchanges \in 0 .. MaxExchanges

\* An address from a server is only ever set when an ACK was accepted, never from
\* an offer alone; it is that of the server whose ACK was the last accepted, and was asked
\* for; and every option that ACK carried, and no message of another server after
\* it, is in use with it.  All that whatever other servers, late answers of earlier
\* exchanges and repeated messages came in between, unless the address was set
\* back after the ACK (by a NAK, or the reset itself) or the handler interrupted
\* itself.  (An option the ACK did not carry may be another server's.)
LeaseFromAck ==
    /\ netIp \in Servers => leased # NoLease
    /\ leased.from \in Servers /\ ~reentered =>
          /\ netIp = leased.from
          /\ asked \cap {<<netIp, netIp>>, <<netIp, NoIp>>} # {}
          /\ \A o \in leased.has : netOpts[o] = leased.from

\* dhcp_request comes to its end, whatever the servers do, wherever frames and
\* interrupts fall: at start-up on a machine with a disk, from the shell on any.
DhcpEnds == (pc = "start" /\ (disk \/ exchanges > 0)) ~> (pc = "shell")

\* net.c:434 says "Wait 5s for OFFER": on any machine the kernel gets beyond
\* dhcp_request.  The Makefile (111-114) and the README (52-54) start it on
\* machines that have a network card and no disk.
DhcpAlwaysEnds == (pc = "start") ~> (pc = "shell")
=============================================================================
