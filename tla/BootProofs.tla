---------------------------- MODULE BootProofs ----------------------------
(***************************************************************************)
(* Proofs about Boot: the receive ring, the ARP cache and the DHCP client, *)
(* for every size of ring and cache, any hosts and servers and any number  *)
(* of frames and exchanges.                                                *)
(***************************************************************************)
EXTENDS Boot, Lemmas, SequenceTheorems

---------------------------------------------------------------------------
(* Which steps touch the ring.                                             *)

Places == {"out", "icr", "sweep", "release", "return"}

(* The inductive invariant of the ring.  The interrupt may come between    *)
(* any two steps of main but those of the handler's loop: until it has,    *)
(* whoever releases a descriptor releases the one it took.                 *)
RingType ==
    /\ dd \subseteq Descriptors
    /\ rdh \in Descriptors /\ rdt \in Descriptors /\ rxTail \in Descriptors
    /\ at \in [Contexts -> Places]
    /\ reentered \in BOOLEAN
RingInv ==
    /\ RingType
    /\ ~reentered =>
          /\ dd = Between(rxTail, rdh)
          /\ NextDescriptor(rdt) = rxTail
          /\ \A c \in Contexts : at[c] = "release" => rxTail \in dd
          /\ at["irq"] # "out" => at["main"] # "release"

LEMMA RingChanges ==
    ASSUME Next
    PROVE  \/ UNCHANGED <<ringVars, at, reentered>>
           \/ Arrive
           \/ MainAt("nic") /\ StartNic
           \/ /\ EnterHandler("irq") /\ reentered' = (reentered \/ at["main"] = "release")
              /\ UNCHANGED ringVars
           \/ /\ at["irq"] = "out"
              /\ EnterHandler("main") \/ LeaveHandler("main")
              /\ UNCHANGED <<ringVars, reentered>>
           \/ LeaveHandler("irq") /\ UNCHANGED <<ringVars, reentered>>
           \/ \E c \in Contexts : /\ c = "main" => at["irq"] = "out"
                                  /\ ReadIcr(c) \/ Release(c) \/ SweepDone(c) \/ TakeFrame(c)
<1> USE DEF ringVars, nicVars
<1>1. CASE Arrive
  BY <1>1
<1>2. CASE TimerIrq
  BY <1>2 DEF TimerIrq
<1>3. CASE NicIrq
  BY <1>3 DEF NicIrq
<1>4. ASSUME NEW c \in Contexts, HandlerStep(c)
      PROVE  /\ c = "main" => at["irq"] = "out"
             /\ ReadIcr(c) \/ Release(c) \/ SweepDone(c) \/ TakeFrame(c)
  BY <1>4 DEF HandlerStep
<1>5. CASE IrqReturn
  BY <1>5 DEF IrqReturn
<1>6. CASE Disk
  BY <1>6 DEF Disk, AtaInit, AtaCli, AtaSector, AtaSti
<1>7. CASE E1000Missing \/ NetInit \/ Sti \/ PingSend \/ Command
  BY <1>7 DEF E1000Missing, NetInit, Sti, PingSend, Command, ShellDhcp, Ping
<1>8. CASE E1000Init
  BY <1>8 DEF E1000Init
<1>9. CASE \/ DhcpReset \/ DhcpClear \/ SendDiscover \/ SendRequest \/ DhcpSuccess \/ DhcpFailed
           \/ \E p \in {"offer", "ack"} : NextTick(p) \/ PollsDone(p)
  BY <1>9 DEF DhcpReset, DhcpClear, SendDiscover, SendRequest, DhcpSuccess, DhcpFailed,
              NextTick, PollsDone
<1>10. ASSUME NEW p \in {"offer", "ack"}, Poll(p)
       PROVE  /\ at["irq"] = "out" /\ EnterHandler("main") /\ UNCHANGED <<ringVars, reentered>>
  BY <1>10 DEF Poll, MainAt
<1>11. CASE PollReturn
  BY <1>11 DEF PollReturn
<1> QED BY <1>1, <1>2, <1>3, <1>4, <1>5, <1>6, <1>7, <1>8, <1>9, <1>10, <1>11
        DEF Next, Irq, Main, Dhcp, Wait, Contexts

---------------------------------------------------------------------------
(* Places in the ring.                                                     *)

LEMMA NextPlace ==
    ASSUME E1000Assumption, NEW i \in Descriptors
    PROVE  NextDescriptor(i) \in Descriptors
           /\ NextDescriptor(i) = IF i = RxCount - 1 THEN 0 ELSE i + 1
<1>1. i \in Nat /\ i + 1 <= RxCount /\ RxCount \in Nat \ {0}
  BY DEF E1000Assumption, Descriptors
<1>2. i + 1 < RxCount => (i + 1) % RxCount = i + 1
  BY <1>1, SmallMod
<1>3. RxCount % RxCount = 0
  BY <1>1, MultipleMod
<1> QED BY <1>1, <1>2, <1>3 DEF NextDescriptor, Descriptors

LEMMA Distance ==
    ASSUME E1000Assumption, NEW a \in Descriptors, NEW i \in Descriptors
    PROVE  (i - a) % RxCount = IF a <= i THEN i - a ELSE i - a + RxCount
<1>1. /\ i \in Nat /\ a \in Nat /\ i < RxCount /\ a < RxCount /\ RxCount \in Nat \ {0}
  BY DEF E1000Assumption, Descriptors
<1>2. CASE a <= i
  <2>1. i - a \in 0 .. RxCount - 1
    BY <1>1, <1>2
  <2> QED BY <1>1, <1>2, <2>1, SmallMod
<1>3. CASE ~(a <= i)
  <2>1. i - a \in Int /\ i - a < 0 /\ i - a >= -RxCount
    BY <1>1, <1>3
  <2> QED BY <1>1, <1>3, <2>1, NegativeMod
<1> QED BY <1>2, <1>3

LEMMA InBetween ==
    ASSUME E1000Assumption, NEW a \in Descriptors, NEW b \in Descriptors, NEW i
    PROVE  i \in Between(a, b) <=>
             i \in Descriptors /\ IF a <= b THEN a <= i /\ i < b ELSE a <= i \/ i < b
<1>1. i \in Descriptors => (i - a) % RxCount = IF a <= i THEN i - a ELSE i - a + RxCount
  BY Distance
<1>2. (b - a) % RxCount = IF a <= b THEN b - a ELSE b - a + RxCount
  BY Distance
<1>3. i \in Between(a, b) <=> i \in Descriptors /\ (i - a) % RxCount < (b - a) % RxCount
  BY DEF Between
<1> QED BY <1>1, <1>2, <1>3 DEF Descriptors, E1000Assumption

(* The ring over the steps of card and driver.                             *)
LEMMA CardFills ==
    ASSUME E1000Assumption, NEW t \in Descriptors, NEW h \in Descriptors,
           NextDescriptor(h) # t
    PROVE  Between(t, NextDescriptor(h)) = Between(t, h) \cup {h}
<1> DEFINE n == NextDescriptor(h)
<1>1. n \in Descriptors /\ n = IF h = RxCount - 1 THEN 0 ELSE h + 1
  BY NextPlace
<1> HIDE DEF n
<1>2. \A i : i \in Between(t, n) <=> i \in Between(t, h) \/ i = h
  BY <1>1, InBetween DEF Descriptors, E1000Assumption, n
<1> QED BY <1>2 DEF n

LEMMA DriverEmpties ==
    ASSUME E1000Assumption, NEW t \in Descriptors, NEW h \in Descriptors, t \in Between(t, h)
    PROVE  Between(NextDescriptor(t), h) = Between(t, h) \ {t}
<1> DEFINE n == NextDescriptor(t)
<1>1. n \in Descriptors /\ n = IF t = RxCount - 1 THEN 0 ELSE t + 1
  BY NextPlace
<1> HIDE DEF n
<1>2. \A i : i \in Between(n, h) <=> i \in Between(t, h) /\ i # t
  BY <1>1, InBetween DEF Descriptors, E1000Assumption
<1> QED BY <1>2 DEF n

LEMMA RingKept == ASSUME E1000Assumption, RingInv, Next PROVE RingInv'
<1> USE DEF Contexts
<1>0. /\ dd \subseteq Descriptors /\ rdh \in Descriptors /\ rdt \in Descriptors
      /\ rxTail \in Descriptors /\ at \in [{"main", "irq"} -> Places] /\ reentered \in BOOLEAN
  BY DEF RingInv, RingType
<1>1. CASE UNCHANGED <<ringVars, at, reentered>>
  BY <1>1 DEF RingInv, RingType, ringVars, Between, NextDescriptor
<1>2. CASE Arrive
  <2>1. /\ rdh # rdt /\ dd' = dd \cup {rdh} /\ rdh' = NextDescriptor(rdh)
        /\ UNCHANGED <<rdt, rxTail, at, reentered>>
    BY <1>2 DEF Arrive
  <2>2. rdh' \in Descriptors
    BY <1>0, <2>1, NextPlace
  <2>3. ASSUME ~reentered PROVE dd' = Between(rxTail, rdh')
    <3>1. NextDescriptor(rdh) # rxTail
      BY <1>0, <2>1, <2>3, NextPlace DEF RingInv, Descriptors, E1000Assumption
    <3> QED BY <1>0, <2>1, <2>3, <3>1, CardFills DEF RingInv
  <2>4. (Between(rxTail, rdh))' = Between(rxTail, rdh') /\ NextDescriptor(rdt)' = NextDescriptor(rdt)
    BY <2>1 DEF Between, NextDescriptor
  <2> QED BY <1>0, <2>1, <2>2, <2>3, <2>4 DEF RingInv, RingType
<1>3. CASE MainAt("nic") /\ StartNic
  <2>1. /\ dd' = {} /\ rdh' = 0 /\ rdt' = RxCount - 1 /\ rxTail' = 0
        /\ UNCHANGED <<at, reentered>> /\ at["irq"] = "out" /\ at["main"] = "out"
    BY <1>3 DEF StartNic, MainAt
  <2>2. 0 \in Descriptors /\ RxCount - 1 \in Descriptors
    BY DEF Descriptors, E1000Assumption
  <2>3. Between(0, 0) = {}
    BY <2>2, InBetween DEF Descriptors
  <2>4. NextDescriptor(RxCount - 1) = 0
    BY <2>2, NextPlace
  <2>5. RingType'
    BY <1>0, <2>1, <2>2 DEF RingType
  <2>6. Between(rxTail, rdh)' = Between(0, 0) /\ NextDescriptor(rdt)' = NextDescriptor(RxCount - 1)
    BY <2>1 DEF Between, NextDescriptor
  <2> QED BY <2>1, <2>3, <2>4, <2>5, <2>6 DEF RingInv
<1>4. CASE /\ EnterHandler("irq") /\ reentered' = (reentered \/ at["main"] = "release")
           /\ UNCHANGED ringVars
  <2>1. /\ at' = [at EXCEPT !["irq"] = "icr"] /\ UNCHANGED <<dd, rdh, rdt, rxTail>>
        /\ at["irq"] = "out"
    BY <1>4 DEF EnterHandler, ringVars
  <2>2. reentered' \in BOOLEAN /\ (~reentered' => ~reentered /\ at["main"] # "release")
    BY <1>0, <1>4
  <2>3. RingType'
    BY <1>0, <2>1, <2>2 DEF RingType, Places
  <2>4. at'["irq"] = "icr" /\ at'["main"] = at["main"]
    BY <1>0, <2>1
  <2>5. Between(rxTail, rdh)' = Between(rxTail, rdh) /\ NextDescriptor(rdt)' = NextDescriptor(rdt)
    BY <2>1 DEF Between, NextDescriptor
  <2> QED BY <2>1, <2>2, <2>3, <2>4, <2>5 DEF RingInv
<1>5. CASE \/ /\ at["irq"] = "out"
              /\ EnterHandler("main") \/ LeaveHandler("main")
              /\ UNCHANGED <<ringVars, reentered>>
           \/ LeaveHandler("irq") /\ UNCHANGED <<ringVars, reentered>>
  <2>1. UNCHANGED <<dd, rdh, rdt, rxTail, reentered>>
    BY <1>5 DEF ringVars
  <2>2. PICK c \in {"main", "irq"}, place \in {"icr", "out"} : at' = [at EXCEPT ![c] = place]
    BY <1>5 DEF EnterHandler, LeaveHandler
  <2>3. RingType'
    BY <1>0, <2>1, <2>2 DEF RingType, Places
  <2>4. \A d \in {"main", "irq"} : at'[d] = "release" => at[d] = "release"
    BY <1>0, <2>2
  <2>5. at'["irq"] # "out" => at["irq"] # "out"
    BY <1>0, <1>5 DEF EnterHandler, LeaveHandler
  <2>6. Between(rxTail, rdh)' = Between(rxTail, rdh) /\ NextDescriptor(rdt)' = NextDescriptor(rdt)
    BY <2>1 DEF Between, NextDescriptor
  <2> QED BY <2>1, <2>3, <2>4, <2>5, <2>6 DEF RingInv
<1>6. ASSUME NEW c \in {"main", "irq"}, c = "main" => at["irq"] = "out",
             ReadIcr(c) \/ SweepDone(c) \/ TakeFrame(c)
      PROVE  RingInv'
  <2>1. UNCHANGED <<dd, rdh, rdt, rxTail, reentered>>
    BY <1>6 DEF ReadIcr, SweepDone, TakeFrame
  <2>2. PICK place \in Places : /\ at' = [at EXCEPT ![c] = place]
                                /\ place = "release" => rxTail \in dd
                                /\ at[c] # "out"
    BY <1>6 DEF ReadIcr, SweepDone, TakeFrame, Places
  <2>3. RingType'
    BY <1>0, <2>1, <2>2 DEF RingType
  <2>4. \A d \in {"main", "irq"} : at'[d] = "release" => at[d] = "release" \/ rxTail \in dd
    BY <1>0, <2>2
  <2>5. at'["irq"] # "out" => at["irq"] # "out" /\ at'["main"] = at["main"]
    BY <1>0, <1>6, <2>2
  <2>6. Between(rxTail, rdh)' = Between(rxTail, rdh) /\ NextDescriptor(rdt)' = NextDescriptor(rdt)
    BY <2>1 DEF Between, NextDescriptor
  <2> QED BY <2>1, <2>3, <2>4, <2>5, <2>6 DEF RingInv
<1>7. ASSUME NEW c \in {"main", "irq"}, c = "main" => at["irq"] = "out", Release(c)
      PROVE  RingInv'
  <2>1. /\ dd' = dd \ {rxTail} /\ rdt' = rxTail /\ rxTail' = NextDescriptor(rxTail)
        /\ at' = [at EXCEPT ![c] = "sweep"] /\ UNCHANGED <<rdh, reentered>>
        /\ at[c] = "release"
    BY <1>7 DEF Release, Freed
  <2>2. RingType'
    BY <1>0, <2>1, NextPlace DEF RingType, Places
  <2>3. ASSUME ~reentered PROVE dd' = Between(rxTail', rdh)
    BY <1>0, <2>1, <2>3, DriverEmpties DEF RingInv
  <2>4. ASSUME ~reentered, NEW d \in {"main", "irq"} PROVE at'[d] # "release"
    BY <1>0, <1>7, <2>1, <2>4 DEF RingInv
  <2>5. (Between(rxTail, rdh))' = Between(rxTail', rdh) /\ NextDescriptor(rdt)' = rxTail'
    BY <2>1 DEF Between, NextDescriptor
  <2> QED BY <2>1, <2>2, <2>3, <2>4, <2>5 DEF RingInv
<1> QED BY <1>1, <1>2, <1>3, <1>4, <1>5, <1>6, <1>7, RingChanges

---------------------------------------------------------------------------
(* The inductive invariant of the receive ring: rx_tail, the card's        *)
(* registers and the descriptors filled, for every size of ring.           *)
THEOREM BootRingInvariant == Spec => []RingInv
<1>1. Init => RingInv
  <2> SUFFICES ASSUME Init PROVE RingInv
    OBVIOUS
  <2>1. /\ dd = {} /\ rdh = 0 /\ rdt = RxCount - 1 /\ rxTail = 0
        /\ at = [c \in Contexts |-> "out"] /\ reentered = FALSE
    BY DEF Init, NicInit, RingInit
  <2>2. 0 \in Descriptors /\ RxCount - 1 \in Descriptors
    BY E1000Assumption DEF Descriptors, E1000Assumption
  <2>3. Between(0, 0) = {} /\ NextDescriptor(RxCount - 1) = 0
    BY <2>2, E1000Assumption, InBetween, NextPlace DEF Descriptors
  <2> QED BY <2>1, <2>2, <2>3 DEF RingInv, RingType, Places, Contexts
<1>2. RingInv /\ [Next]_vars => RingInv'
  <2>1. RingInv /\ UNCHANGED vars => RingInv'
    BY DEF vars, nicVars, RingInv, RingType, Between, NextDescriptor, Contexts
  <2> QED BY <2>1, E1000Assumption, RingKept
<1> QED BY <1>1, <1>2, PTL DEF Spec

(* Driver and card agree on which descriptors hold frames waiting, wherever*)
(* frames, polls and interrupts fall, as long as the handler has not       *)
(* interrupted itself.                                                     *)
THEOREM BootRingInStep == Spec => []RingInStep
<1>1. RingInv => RingInStep
  BY DEF RingInv, RingInStep
<1> QED BY <1>1, BootRingInvariant, PTL

---------------------------------------------------------------------------
(* The ARP cache and the frames sent.                                      *)

EntrySet == [ip : Hosts, mac : Macs]

\* A frame to a known address goes to the one its next hop had given last.
Known(frame) ==
    /\ frame.to \in Macs \cup {All, NoMac, Torn.to}
    /\ frame.to \in Macs => frame.to = frame.latest

(* The inductive invariant: the cache has at most one entry for a host,    *)
(* and it is the latest.                                                   *)
ArpInv ==
    /\ arp \in Seq(EntrySet) /\ Len(arp) <= ArpCache
    /\ heard \in [Hosts -> Macs \cup {NoMac}]
    /\ \A i, j \in 1 .. Len(arp) : arp[i].ip = arp[j].ip => i = j
    /\ \A i \in 1 .. Len(arp) : arp[i].mac = heard[arp[i].ip]
    /\ Known(out) /\ Known(sending)

(* What servers send; an ACK only to a request for their own offer.        *)
LEMMA DhcpFrameIs ==
    ASSUME NetAssumption, NEW m \in DhcpFrames
    PROVE  /\ m.kind = "dhcp" /\ m.from \in Servers
           /\ m.has \subseteq Options \cup {ServerId}
           /\ m.type = "ack" => asked \cap {<<m.from, m.from>>, <<m.from, NoIp>>} # {}
<1>1. m.kind = "dhcp" /\ m.has \in Carried /\ (m.type = "ack" => m.from \in Granting)
  BY DEF DhcpFrames
<1>2. m.from \in Servers
  BY DEF DhcpFrames, Granting, Refusing
<1> QED BY <1>1, <1>2 DEF NetAssumption, Granting

LEMMA FrameKinds ==
    /\ \A m \in DhcpFrames : m.kind = "dhcp"
    /\ \A m \in OtherFrames : m.kind = "other"
    /\ \A m \in ArpFrames : m.kind = "arp"
    /\ \A m \in EchoFrames : m.kind = "echo" /\ m.from \in Hosts
<1>1. \A m \in DhcpFrames : m.kind = "dhcp"
  BY DEF DhcpFrames
<1>2. \A m \in OtherFrames : m.kind = "other"
  BY DEF OtherFrames
<1>3. \A m \in ArpFrames : m.kind = "arp"
  BY DEF ArpFrames
<1>4. \A m \in EchoFrames : m.kind = "echo" /\ m.from \in Hosts
  BY DEF EchoFrames
<1> QED BY <1>1, <1>2, <1>3, <1>4

LEMMA ArpChanges ==
    ASSUME Next
    PROVE  \/ UNCHANGED cacheVars
           \/ \E m \in ArpFrames : HandleArp(m)
           \/ \E h \in Hosts : Reply(h)
           \/ arp' = <<>> /\ UNCHANGED <<out, sending, heard>>
           \/ out' = ToAll /\ UNCHANGED <<arp, sending, heard>>
           \/ (\E dst \in Hosts \cup {SubnetBroadcast} : sending' = Sent(dst))
                /\ UNCHANGED <<arp, out, heard>>
           \/ out' = sending /\ sending' = NoFrame /\ UNCHANGED <<arp, heard>>
<1> USE DEF cacheVars, netVars
<1>1. CASE Arrive /\ UNCHANGED <<netVars, flowVars>>
  BY <1>1
<1>2. CASE TimerIrq \/ NicIrq \/ IrqReturn \/ Disk
  BY <1>2 DEF TimerIrq, NicIrq, IrqReturn, Disk, AtaInit, AtaCli, AtaSector, AtaSti
<1>3. ASSUME NEW c \in Contexts, HandlerStep(c)
      PROVE  \/ UNCHANGED cacheVars
             \/ \E m \in ArpFrames : HandleArp(m)
             \/ \E h \in Hosts : Reply(h)
  <2>1. CASE UNCHANGED netVars
    BY <2>1
  <2>2. ASSUME NEW m \in Incoming, Receive(m)
        PROVE  \/ UNCHANGED cacheVars
               \/ \E n \in ArpFrames : HandleArp(n)
               \/ \E h \in Hosts : Reply(h)
    <3>0. m \in DhcpFrames \/ m \in OtherFrames \/ m \in ArpFrames \/ m \in EchoFrames
      BY DEF Incoming
    <3>1. m.kind = "arp" => m \in ArpFrames
      BY <3>0, FrameKinds
    <3>2. m.kind = "echo" => m.from \in Hosts
      BY <3>0, FrameKinds
    <3>3. CASE m.kind = "arp"
      BY <2>2, <3>1, <3>3 DEF Receive
    <3>4. CASE m.kind = "echo"
      BY <2>2, <3>2, <3>4 DEF Receive
    <3>5. CASE m.kind # "arp" /\ m.kind # "echo"
      BY <2>2, <3>5 DEF Receive
    <3> QED BY <3>3, <3>4, <3>5
  <2> QED BY <1>3, <2>1, <2>2 DEF HandlerStep
<1>4. CASE E1000Missing \/ E1000Init \/ Sti \/ ShellDhcp
  BY <1>4 DEF E1000Missing, E1000Init, Sti, ShellDhcp
<1>5. CASE \/ DhcpReset \/ DhcpClear \/ SendDiscover \/ SendRequest \/ DhcpFailed \/ PollReturn
           \/ \E p \in {"offer", "ack"} : Poll(p) \/ NextTick(p) \/ PollsDone(p)
  BY <1>5 DEF DhcpReset, DhcpClear, SendDiscover, SendRequest, DhcpFailed, PollReturn, Poll,
              NextTick, PollsDone
<1>6. CASE NetInit
  BY <1>6 DEF NetInit
<1>7. CASE DhcpSuccess
  BY <1>7 DEF DhcpSuccess
<1>8. ASSUME NEW dst \in Hosts \cup {SubnetBroadcast}, Ping(dst)
      PROVE  sending' = Sent(dst) /\ UNCHANGED <<arp, out, heard>>
  BY <1>8 DEF Ping
<1>9. CASE PingSend
  BY <1>9 DEF PingSend
<1> QED BY <1>1, <1>2, <1>3, <1>4, <1>5, <1>6, <1>7, <1>8, <1>9
        DEF Next, Irq, Main, Dhcp, Wait, Command, Contexts

LEMMA SlotIs ==
    ASSUME ArpInv, NEW ip
    PROVE  /\ SlotOf(ip) \in 0 .. Len(arp)
           /\ SlotOf(ip) = 0 => \A i \in 1 .. Len(arp) : arp[i].ip # ip
           /\ SlotOf(ip) # 0 => arp[SlotOf(ip)].ip = ip
<1> DEFINE I == {i \in 1 .. Len(arp) : arp[i].ip = ip}
<1>1. Len(arp) \in Nat
  BY LenProperties DEF ArpInv
<1>2. SlotOf(ip) = IF I # {} THEN Min(I) ELSE 0
  BY DEF SlotOf, SelectInSeq
<1>3. I # {} => Min(I) \in I
  <2> SUFFICES ASSUME I # {} PROVE Min(I) \in I
    OBVIOUS
  <2>0. I \subseteq Nat
    BY <1>1
  <2>1. \E x \in I : \A y \in I : x <= y
    <3> HIDE DEF I
    <3> QED BY <2>0, LeastElement
  <2> HIDE DEF I
  <2> QED BY <2>1 DEF Min
<1> QED BY <1>1, <1>2, <1>3

LEMMA SentIsKnown ==
    ASSUME NetAssumption, ArpInv, NEW dst \in Hosts \cup {SubnetBroadcast}
    PROVE  Known(Sent(dst))
<1> DEFINE hop == NextHop(dst)
           slot == SlotOf(hop)
           known == [to |-> arp[slot].mac, latest |-> heard[hop]]
<1>1. Sent(dst) = ToAll \/ (slot # 0 /\ Sent(dst) = known)
  BY DEF Sent
<1>2. Known(ToAll)
  BY DEF ToAll, Known, NetAssumption
<1>3. CASE slot # 0 /\ Sent(dst) = known
  <2>1. slot \in 1 .. Len(arp) /\ arp[slot].ip = hop
    BY <1>3, SlotIs, LenProperties DEF ArpInv
  <2>2. arp[slot] \in EntrySet
    BY <2>1, ElementOfSeq DEF ArpInv
  <2> HIDE DEF slot, hop
  <2>3. arp[slot].mac \in Macs /\ arp[slot].mac = heard[hop]
    BY <2>1, <2>2 DEF EntrySet, ArpInv
  <2> QED BY <1>3, <2>3 DEF Known
<1> QED BY <1>1, <1>2, <1>3

(* Frames that go to nobody in particular.                                 *)
LEMMA NobodyIsKnown ==
    ASSUME NetAssumption
    PROVE  /\ Known(NoFrame) /\ Known(Torn)
           /\ Known(ToAll)
           /\ NoFrame.to \notin Macs /\ Torn.to \notin Macs
BY DEF Known, NoFrame, Torn, ToAll, NetAssumption

LEMMA ArpHandled ==
    ASSUME NetAssumption, ArpInv, NEW m \in ArpFrames, HandleArp(m)
    PROVE  ArpInv'
<1> DEFINE entry == [ip |-> m.from, mac |-> m.mac]
           slot == SlotOf(m.from)
<1>1. m.from \in Hosts /\ m.mac \in Macs /\ entry \in EntrySet
  BY DEF ArpFrames, EntrySet
<1>2. /\ arp \in Seq(EntrySet) /\ Len(arp) \in Nat /\ Len(arp) <= ArpCache
      /\ \A i \in 1 .. Len(arp) : arp[i] \in EntrySet
      /\ ArpCache \in Nat \ {0}
  BY LenProperties, ElementOfSeq DEF ArpInv, NetAssumption
<1>3. /\ slot \in 0 .. Len(arp)
      /\ slot = 0 => \A i \in 1 .. Len(arp) : arp[i].ip # m.from
      /\ slot # 0 => arp[slot].ip = m.from
  BY SlotIs
<1>4. /\ heard' = [heard EXCEPT ![m.from] = m.mac]
      /\ heard' \in [Hosts -> Macs \cup {NoMac}]
      /\ heard'[m.from] = m.mac
      /\ \A h \in Hosts \ {m.from} : heard'[h] = heard[h]
  BY <1>1 DEF HandleArp, ArpInv
<1>5. arp' = CASE slot # 0 -> [arp EXCEPT ![slot] = entry]
               [] slot = 0 /\ Len(arp) < ArpCache -> Append(arp, entry)
               [] OTHER -> [arp EXCEPT ![1] = entry]
  BY DEF HandleArp, ArpAdded
<1> HIDE DEF slot, entry
<1>6. PICK k \in 1 .. Len(arp) + 1 :
        /\ arp' \in Seq(EntrySet) /\ Len(arp') <= ArpCache
        /\ k \in 1 .. Len(arp') /\ Len(arp') \in Nat
        /\ arp'[k] = entry
        /\ \A i \in 1 .. Len(arp') : i # k => /\ i \in 1 .. Len(arp)
                                              /\ arp'[i] = arp[i] /\ arp[i].ip # m.from
  <2>1. CASE slot # 0
    <3>1. slot \in 1 .. Len(arp) /\ arp' = [arp EXCEPT ![slot] = entry]
      BY <1>2, <1>3, <1>5, <2>1
    <3>2. /\ arp' \in Seq(EntrySet) /\ Len(arp') = Len(arp)
          /\ \A i \in 1 .. Len(arp) : arp'[i] = IF i = slot THEN entry ELSE arp[i]
      BY <1>1, <1>2, <3>1, ExceptSeq
    <3>3. \A i \in 1 .. Len(arp) : i # slot => arp[i].ip # m.from
      BY <1>3, <2>1, <3>1 DEF ArpInv
    <3>4. slot \in 1 .. Len(arp) + 1
      BY <1>2, <3>1
    <3> WITNESS slot \in 1 .. Len(arp) + 1
    <3> QED BY <1>2, <3>1, <3>2, <3>3
  <2>2. CASE slot = 0 /\ Len(arp) < ArpCache
    <3>1. arp' = Append(arp, entry)
      BY <1>5, <2>2
    <3>2. /\ arp' \in Seq(EntrySet) /\ Len(arp') = Len(arp) + 1
          /\ \A i \in 1 .. Len(arp) : arp'[i] = arp[i]
          /\ arp'[Len(arp) + 1] = entry
      BY <1>1, <1>2, <3>1, AppendProperties
    <3>3. Len(arp) + 1 \in 1 .. Len(arp) + 1
      BY <1>2
    <3> WITNESS Len(arp) + 1 \in 1 .. Len(arp) + 1
    <3> QED BY <1>2, <1>3, <2>2, <3>2
  <2>3. CASE slot = 0 /\ ~(Len(arp) < ArpCache)
    <3>1. arp' = [arp EXCEPT ![1] = entry] /\ 1 \in 1 .. Len(arp)
      BY <1>2, <1>5, <2>3
    <3>2. /\ arp' \in Seq(EntrySet) /\ Len(arp') = Len(arp)
          /\ \A i \in 1 .. Len(arp) : arp'[i] = IF i = 1 THEN entry ELSE arp[i]
      BY <1>1, <1>2, <3>1, ExceptSeq
    <3>3. 1 \in 1 .. Len(arp) + 1
      BY <1>2
    <3> WITNESS 1 \in 1 .. Len(arp) + 1
    <3> QED BY <1>2, <1>3, <2>3, <3>1, <3>2
  <2> QED BY <2>1, <2>2, <2>3
<1>7. entry.ip = m.from /\ entry.mac = m.mac
  BY DEF entry
<1>8. \A i, j \in 1 .. Len(arp') : arp'[i].ip = arp'[j].ip => i = j
  BY <1>6, <1>7 DEF ArpInv
<1>9. \A i \in 1 .. Len(arp') : arp'[i].mac = heard'[arp'[i].ip]
  <2>1. \A i \in 1 .. Len(arp) : arp[i].ip \in Hosts /\ arp[i].mac = heard[arp[i].ip]
    BY <1>2 DEF EntrySet, ArpInv
  <2> QED BY <1>4, <1>6, <1>7, <2>1
<1>10. Known(out')
  <2>1. out' = [to |-> m.mac, latest |-> m.mac] \/ out' = out
    BY DEF HandleArp
  <2> QED BY <1>1, <2>1 DEF ArpInv, Known
<1>11. Known(sending')
  <2>1. sending' = sending \/ sending' = Torn
    BY DEF HandleArp, Overwritten
  <2> QED BY <2>1, NobodyIsKnown DEF ArpInv
<1> QED BY <1>4, <1>6, <1>8, <1>9, <1>10, <1>11 DEF ArpInv

LEMMA ArpKept == ASSUME NetAssumption, ArpInv, Next PROVE ArpInv'
<1>1. CASE UNCHANGED cacheVars
  BY <1>1 DEF cacheVars, ArpInv, Known
<1>2. CASE \E m \in ArpFrames : HandleArp(m)
  BY <1>2, ArpHandled
<1>3. ASSUME UNCHANGED <<arp, heard>>, Known(out'), Known(sending') PROVE ArpInv'
  BY <1>3 DEF ArpInv, Known
<1>4. ASSUME NEW h \in Hosts, Reply(h) PROVE ArpInv'
  <2>1. out' = Sent(h) /\ UNCHANGED <<arp, heard>> /\ (sending' = sending \/ sending' = Torn)
    BY <1>4 DEF Reply, Overwritten
  <2> QED BY <1>3, <2>1, SentIsKnown, NobodyIsKnown DEF ArpInv
<1>5. CASE arp' = <<>> /\ UNCHANGED <<out, sending, heard>>
  <2>1. <<>> \in Seq(EntrySet) /\ Len(<<>>) = 0
    BY EmptySeq
  <2>2. arp' \in Seq(EntrySet) /\ Len(arp') = 0
    BY <1>5, <2>1
  <2> QED BY <1>5, <2>2 DEF ArpInv, Known, NetAssumption
<1>6. CASE out' = ToAll /\ UNCHANGED <<arp, sending, heard>>
  BY <1>3, <1>6, NobodyIsKnown DEF ArpInv
<1>7. ASSUME NEW dst \in Hosts \cup {SubnetBroadcast}, sending' = Sent(dst),
             UNCHANGED <<arp, out, heard>>
      PROVE  ArpInv'
  BY <1>3, <1>7, SentIsKnown DEF ArpInv
<1>8. CASE out' = sending /\ sending' = NoFrame /\ UNCHANGED <<arp, heard>>
  BY <1>3, <1>8, NobodyIsKnown DEF ArpInv
<1> QED BY <1>1, <1>2, <1>4, <1>5, <1>6, <1>7, <1>8, ArpChanges

(* The inductive invariant of arp_cache: a host has one entry at most, with*)
(* the address it gave last, and a frame sent to a host's address carries  *)
(* the one that was the last when it was looked up.                        *)
THEOREM BootArpInvariant == Spec => []ArpInv
<1>1. Init => ArpInv
  <2> SUFFICES ASSUME Init PROVE ArpInv
    OBVIOUS
  <2>1. /\ arp = <<>> /\ out = NoFrame /\ sending = NoFrame
        /\ heard = [h \in Hosts |-> NoMac]
    BY DEF Init, NetInitial
  <2>2. <<>> \in Seq(EntrySet) /\ Len(<<>>) = 0
    BY EmptySeq
  <2>3. arp \in Seq(EntrySet) /\ Len(arp) = 0
    BY <2>1, <2>2
  <2> QED BY <2>1, <2>3, NetAssumption, NobodyIsKnown DEF ArpInv, NetAssumption
<1>2. ArpInv /\ [Next]_vars => ArpInv'
  <2>1. ArpInv /\ UNCHANGED vars => ArpInv'
    BY DEF vars, netVars, cacheVars, ArpInv, Known
  <2> QED BY <2>1, NetAssumption, ArpKept
<1> QED BY <1>1, <1>2, PTL DEF Spec

(* A packet goes to the hardware address its next hop had last given at the*)
(* look-up, or to nobody's.                                                *)
THEOREM BootSentToLatest == Spec => []SentToLatest
<1>1. ArpInv => SentToLatest
  BY DEF ArpInv, Known, SentToLatest
<1> QED BY <1>1, BootArpInvariant, PTL

---------------------------------------------------------------------------
(* The DHCP client.                                                        *)

BeforeNet == {"ata", "disk", "transfer", "nic", "net"}
Exchanging == {"start", "clear", "discover", "offer", "request", "ack", "success", "failed"}
Commands == {"sti", "shell", "send"}
Leases == [from : Servers, has : SUBSET Options] \cup {NoLease, Spoilt}
AskedFor(s) == asked \cap {<<s, s>>, <<s, NoIp>>} # {}

\* What is known of a lease by its kind.
LEMMA LeaseKinds ==
    ASSUME NetAssumption
    PROVE  /\ NoLease.from = NoIp /\ NoLease.has = {} /\ Spoilt.has = {}
           /\ NoLease \in Leases /\ Spoilt \in Leases /\ NoLease # Spoilt
           /\ NoIp \notin Servers /\ Fallback \notin Servers /\ Spoilt.from \notin Servers
           /\ \A l \in Leases :
                 /\ l.from \notin Servers => l = NoLease \/ l = Spoilt
                 /\ l.from \in Servers => l # NoLease /\ l # Spoilt
                 /\ l.has \subseteq Options
<1>1. NoIp \notin Servers /\ Fallback \notin Servers /\ Spoilt.from \notin Servers
  BY DEF NetAssumption
<1>2. /\ NoLease.from = NoIp /\ NoLease.has = {} /\ Spoilt.has = {} /\ NoLease # Spoilt
  BY DEF NoLease, Spoilt, NoIp
<1> QED BY <1>1, <1>2 DEF Leases

(* The inductive invariant.  lease is what the values of the client stand  *)
(* for; dhcp_request succeeds only with a lease, and the first one finds   *)
(* that there was none before.                                             *)
DhcpInv ==
    /\ {offered, server} \subseteq Servers \cup {NoIp}
    /\ opts \in [Options -> Servers \cup {NoIp}]
    /\ {bound, gotOffer, gotAck, discovered} \subseteq BOOLEAN
    /\ asked \subseteq (Servers \cup {NoIp}) \X (Servers \cup {NoIp})
    /\ lease \in Leases
    /\ gotAck <=> lease # NoLease
    /\ lease.from \in Servers =>
          /\ offered = lease.from /\ AskedFor(lease.from) /\ gotOffer
          /\ \A o \in lease.has : opts[o] = lease.from
    /\ pc = "success" => gotAck
LeaseInv ==
    /\ netIp \in Addresses /\ netOpts \in [Options -> Servers \cup {Fallback}]
    /\ leased \in Leases
    /\ netIp \in Servers => leased # NoLease
    /\ leased.from \in Servers =>
          /\ netIp = leased.from /\ AskedFor(leased.from)
          /\ \A o \in leased.has : netOpts[o] = leased.from
    /\ pc \in BeforeNet \/ (exchanges = 0 /\ pc \in Exchanging) => leased = NoLease
FlagsInv ==
    /\ ifFlag \in BOOLEAN /\ disk \in BOOLEAN /\ line \in BOOLEAN
    /\ waiting \in BOOLEAN /\ ticked \in BOOLEAN
    /\ cause \in BOOLEAN /\ nicOn \in BOOLEAN /\ rxCb \in BOOLEAN
FlowInv ==
    /\ pc \in BeforeNet \cup Exchanging \cup Commands
    /\ left \in 0 .. Sectors /\ attempt \in 0 .. Attempts /\ polls \in 0 .. Polls
    /\ exchanges \in 0 .. MaxExchanges
    /\ frames \in 0 .. MaxFrames
    /\ waiting => pc \in {"offer", "ack"} /\ polls < Polls

(* What a reply does to the client.                                        *)
LEMMA DhcpHandled ==
    ASSUME NetAssumption, DhcpInv, NEW m \in DhcpFrames, HandleDhcp(m),
           UNCHANGED <<asked, discovered, pc>>
    PROVE  DhcpInv'
<1>1. m.from \in Servers /\ m.has \subseteq Options \cup {ServerId}
      /\ (m.type = "ack" => AskedFor(m.from)')
  BY DhcpFrameIs DEF AskedFor
<1>2. /\ {offered', server'} \subseteq Servers \cup {NoIp}
      /\ opts' = OptsAfter(m) /\ opts' \in [Options -> Servers \cup {NoIp}]
      /\ \A o \in Options : opts'[o] = IF o \in m.has THEN m.from ELSE opts[o]
  BY <1>1 DEF HandleDhcp, OptsAfter, ServerAfter, DhcpInv
<1>3. {bound', gotOffer', gotAck', discovered'} \subseteq BOOLEAN
  BY DEF HandleDhcp, DhcpInv
<1>4. CASE m.type = "ack" /\ gotOffer
  <2>1. /\ offered' = m.from /\ gotAck' = TRUE
        /\ lease' = [from |-> m.from, has |-> m.has \cap Options]
    BY <1>4 DEF HandleDhcp, LeaseAfter
  <2>2. lease' \in Leases /\ lease'.from = m.from /\ lease'.has = m.has \cap Options
    BY <1>1, <2>1 DEF Leases
  <2>3. lease' # NoLease /\ gotOffer'
    BY <1>1, <1>4, <2>2, LeaseKinds DEF HandleDhcp
  <2>4. \A o \in lease'.has : opts'[o] = lease'.from
    BY <1>2, <2>2
  <2>5. (pc = "success" => gotAck)' /\ asked' \subseteq (Servers \cup {NoIp}) \X (Servers \cup {NoIp})
    BY <2>1 DEF DhcpInv
  <2>6. offered' = lease'.from /\ AskedFor(m.from)'
    BY <1>1, <1>4, <2>1, <2>2
  <2> QED BY <1>1, <1>2, <1>3, <2>1, <2>2, <2>3, <2>4, <2>5, <2>6 DEF DhcpInv, AskedFor
<1>5. CASE m.type = "nak" /\ gotAck
  <2>1. lease' = Spoilt /\ gotAck' = TRUE
    BY <1>5 DEF HandleDhcp, LeaseAfter
  <2> QED BY <1>2, <1>3, <2>1, LeaseKinds DEF DhcpInv
<1>6. CASE ~(m.type = "ack" /\ gotOffer) /\ ~(m.type = "nak" /\ gotAck)
  <2>1. /\ UNCHANGED gotAck
        /\ lease' = IF m.from = lease.from THEN lease ELSE [lease EXCEPT !.has = @ \ m.has]
    BY <1>6 DEF HandleDhcp, LeaseAfter
  <2>2. CASE lease.from \in Servers
    <3>1. /\ lease = [from |-> lease.from, has |-> lease.has] /\ lease.has \subseteq Options
          /\ gotAck = TRUE
      BY <2>2, LeaseKinds DEF DhcpInv, Leases
    <3>2. /\ lease' \in Leases /\ lease'.from = lease.from
          /\ m.from # lease.from => lease'.has = lease.has \ m.has
          /\ m.from = lease.from => lease' = lease
      BY <2>1, <2>2, <3>1 DEF Leases
    \* Nothing but an ACK or a NAK changes the address once there is an offer.
    <3>3. UNCHANGED offered
      BY <1>6, <2>2, <3>1 DEF HandleDhcp, DhcpInv
    <3>4. \A o \in lease'.has : opts'[o] = lease.from
      BY <1>2, <2>2, <3>1, <3>2 DEF DhcpInv
    <3>5. lease'.from \in Servers /\ lease' # NoLease /\ gotOffer' /\ gotAck'
      BY <1>6, <2>1, <2>2, <3>1, <3>2, LeaseKinds DEF HandleDhcp, DhcpInv
    <3>6. offered' = lease'.from /\ AskedFor(lease.from)'
      BY <2>2, <3>2, <3>3 DEF DhcpInv, AskedFor
    <3>7. (pc = "success" => gotAck)' /\ asked' \subseteq (Servers \cup {NoIp}) \X (Servers \cup {NoIp})
      BY <3>5 DEF DhcpInv
    <3> QED BY <1>2, <1>3, <3>2, <3>4, <3>5, <3>6, <3>7 DEF DhcpInv
  <2>3. CASE lease.from \notin Servers
    <3>1. lease' = lease
      <4>1. lease \in Leases
        BY DEF DhcpInv
      <4>2. lease = NoLease \/ lease = Spoilt
        BY <2>3, <4>1 DEF Leases
      <4>3. lease.has \ m.has = lease.has
        BY <4>2, LeaseKinds
      <4>4. lease = [from |-> lease.from, has |-> lease.has]
        BY <4>2 DEF NoLease, Spoilt
      <4> QED BY <2>1, <4>3, <4>4
    <3> QED BY <1>2, <1>3, <2>1, <2>3, <3>1, LeaseKinds DEF DhcpInv, AskedFor
  <2> QED BY <2>2, <2>3
<1> QED BY <1>4, <1>5, <1>6

(* A step of the handler.                                                  *)
LEMMA HandlerKeeps ==
    ASSUME NetAssumption, DhcpInv, LeaseInv, FlowInv, NEW c \in Contexts, HandlerStep(c)
    PROVE  DhcpInv' /\ LeaseInv' /\ FlowInv'
<1>1. UNCHANGED flowVars /\ UNCHANGED frames
  BY DEF HandlerStep, ReadIcr, Release, SweepDone, TakeFrame
<1>2. UNCHANGED <<netIp, netOpts, asked, discovered>>
  BY DEF HandlerStep, Receive, netVars
<1>3. LeaseInv' /\ FlowInv'
  BY <1>1, <1>2 DEF flowVars, LeaseInv, FlowInv, AskedFor
<1>4. DhcpInv'
  <2>1. CASE UNCHANGED dhcpVars
    BY <1>1, <1>2, <2>1 DEF dhcpVars, flowVars, DhcpInv, AskedFor
  <2>2. ASSUME NEW m \in DhcpFrames, HandleDhcp(m) PROVE DhcpInv'
    BY <1>1, <1>2, <2>2, DhcpHandled DEF flowVars
  <2>3. ASSUME NEW m \in Incoming, Receive(m)
        PROVE  UNCHANGED dhcpVars \/ \E n \in DhcpFrames : HandleDhcp(n)
    <3>1. m.kind = "dhcp" => m \in DhcpFrames
      BY FrameKinds DEF Incoming
    <3>2. CASE m.kind = "dhcp" /\ bound
      BY <2>3, <3>1, <3>2 DEF Receive
    <3>3. CASE ~(m.kind = "dhcp" /\ bound)
      BY <2>3, <3>3 DEF Receive
    <3> QED BY <3>2, <3>3
  <2> QED BY <2>1, <2>2, <2>3 DEF HandlerStep, netVars
<1> QED BY <1>3, <1>4

(* The steps of kernel_main, of the interrupts and of the shell.           *)
LEMMA StepsKeepTypes ==
    ASSUME NetAssumption, BootAssumption, E1000Assumption, DhcpInv, LeaseInv, FlowInv,
           [Next]_vars, ~\E c \in Contexts : HandlerStep(c)
    PROVE  FlowInv'
<1> USE DEF FlowInv, MainAt, BeforeNet, Exchanging, Commands, nicVars
<1>1. CASE Disk
  <2>1. CASE AtaInit
    BY <2>1 DEF AtaInit
  <2>2. ASSUME NEW n \in 1 .. Sectors, AtaCli(n) PROVE FlowInv'
    BY <2>2 DEF AtaCli, BootAssumption
  <2>3. CASE AtaSector
    BY <2>3 DEF AtaSector, BootAssumption
  <2>4. CASE AtaSti
    BY <2>4 DEF AtaSti, FlagAfterTransfer
  <2> QED BY <1>1, <2>1, <2>2, <2>3, <2>4 DEF Disk
<1>2. CASE E1000Missing \/ Sti \/ PingSend
  BY <1>2 DEF E1000Missing, Sti, PingSend
<1>3. CASE E1000Init \/ NetInit
  BY <1>3 DEF E1000Init, StartNic, NetInit
<1>4. CASE DhcpReset \/ DhcpClear
  BY <1>4 DEF DhcpReset, DhcpClear, BootAssumption
<1>5. CASE SendDiscover
  BY <1>5 DEF SendDiscover, BootAssumption
<1>6. CASE SendRequest
  BY <1>6 DEF SendRequest, BootAssumption
<1>7. CASE DhcpSuccess \/ DhcpFailed
  BY <1>7 DEF DhcpSuccess, DhcpFailed, Caller
<1>8. CASE PollReturn
  BY <1>8 DEF PollReturn
<1>9. ASSUME NEW p \in {"offer", "ack"}, Poll(p) \/ NextTick(p) \/ PollsDone(p) PROVE FlowInv'
  <2>1. CASE Poll(p)
    BY <2>1 DEF Poll
  <2>2. CASE NextTick(p)
    BY <2>2 DEF NextTick, BootAssumption
  <2>3. CASE PollsDone(p)
    <3>1. pc' \in {"discover", "success", "failed"}
      BY <2>3 DEF PollsDone
    <3> QED BY <2>3, <3>1 DEF PollsDone
  <2> QED BY <1>9, <2>1, <2>2, <2>3
<1>10. CASE ShellDhcp
  BY <1>10 DEF ShellDhcp, BootAssumption
<1>11. ASSUME NEW dst \in Hosts \cup {SubnetBroadcast}, Ping(dst) PROVE FlowInv'
  BY <1>11 DEF Ping
<1>12. CASE TimerIrq \/ NicIrq \/ IrqReturn
  BY <1>12 DEF TimerIrq, NicIrq, IrqReturn
<1>13. CASE Arrive /\ UNCHANGED <<netVars, flowVars>>
  BY <1>13 DEF Arrive, flowVars, E1000Assumption
<1>14. CASE UNCHANGED vars
  BY <1>14 DEF vars, flowVars
<1> QED BY <1>1, <1>2, <1>3, <1>4, <1>5, <1>6, <1>7, <1>8, <1>9, <1>10, <1>11, <1>12, <1>13, <1>14
        DEF Next, Irq, Main, Dhcp, Wait, Command, Contexts

(* Which of them are about the lease.                                      *)
NotDhcp ==
    /\ UNCHANGED <<dhcpVars, discovered, asked, netIp, netOpts, leased, exchanges>>
    /\ \/ pc' = pc
       \/ pc \in Commands /\ pc' \in Commands
       \/ pc \in BeforeNet /\ pc' \in BeforeNet \cup {"sti"}
LEMMA DhcpChanges ==
    ASSUME [Next]_vars, ~\E c \in Contexts : HandlerStep(c)
    PROVE  \/ NotDhcp
           \/ NetInit \/ DhcpReset \/ DhcpClear \/ SendDiscover \/ SendRequest
           \/ DhcpSuccess \/ DhcpFailed \/ ShellDhcp
           \/ \E p \in {"offer", "ack"} : PollsDone(p)
<1> USE DEF NotDhcp, netVars, MainAt, BeforeNet, Commands
<1>1. CASE Disk
  BY <1>1 DEF Disk, AtaInit, AtaCli, AtaSector, AtaSti
<1>2. CASE E1000Missing \/ E1000Init \/ Sti \/ PingSend
  BY <1>2 DEF E1000Missing, E1000Init, Sti, PingSend
<1>3. CASE PollReturn \/ \E p \in {"offer", "ack"} : Poll(p) \/ NextTick(p)
  BY <1>3 DEF PollReturn, Poll, NextTick
<1>4. ASSUME NEW dst \in Hosts \cup {SubnetBroadcast}, Ping(dst)
      PROVE  NotDhcp
  BY <1>4 DEF Ping
<1>5. CASE TimerIrq \/ NicIrq \/ IrqReturn
  BY <1>5 DEF TimerIrq, NicIrq, IrqReturn
<1>6. CASE Arrive /\ UNCHANGED <<netVars, flowVars>>
  BY <1>6 DEF flowVars
<1>7. CASE UNCHANGED vars
  BY <1>7 DEF vars, flowVars
<1> QED BY <1>1, <1>2, <1>3, <1>4, <1>5, <1>6, <1>7
        DEF Next, Irq, Main, Dhcp, Wait, Command, Contexts

LEMMA StepsKeepLease ==
    ASSUME NetAssumption, BootAssumption, DhcpInv, LeaseInv, FlowInv,
           [Next]_vars, ~\E c \in Contexts : HandlerStep(c)
    PROVE  DhcpInv' /\ LeaseInv'
<1> USE DEF DhcpInv, LeaseInv, FlowInv, MainAt, BeforeNet, Exchanging, Commands, AskedFor
<1>1. CASE NotDhcp
  BY <1>1 DEF NotDhcp, dhcpVars
<1>2. CASE NetInit
  BY <1>2 DEF NetInit, NetAssumption, Addresses
<1>3. CASE DhcpReset
  <2>1. lease' = NoLease /\ gotAck' = FALSE /\ gotOffer' = FALSE
    BY <1>3 DEF DhcpReset
  <2> QED BY <1>3, <2>1, LeaseKinds DEF DhcpReset
<1>4. CASE DhcpClear
  <2>1. /\ lease' = (IF gotAck THEN Spoilt ELSE lease) /\ UNCHANGED gotAck
        /\ offered' = NoIp /\ server' = NoIp /\ opts' = [o \in Options |-> NoIp]
    BY <1>4 DEF DhcpClear
  <2>2. lease' \in {NoLease, Spoilt} /\ (gotAck' <=> lease' # NoLease)
    BY <2>1, LeaseKinds
  <2> QED BY <1>4, <2>1, <2>2, LeaseKinds DEF DhcpClear
<1>5. CASE SendDiscover
  BY <1>5 DEF SendDiscover, dhcpVars
<1>6. CASE SendRequest
  BY <1>6 DEF SendRequest, dhcpVars
<1>7. CASE DhcpSuccess
  <2>1. /\ netIp' = offered /\ leased' = lease /\ pc' \in Commands /\ lease # NoLease
        /\ netOpts' = [o \in Options |-> IF opts[o] = NoIp THEN netOpts[o] ELSE opts[o]]
        /\ UNCHANGED <<dhcpVars, discovered, asked, exchanges>>
    BY <1>7 DEF DhcpSuccess, Caller
  <2>2. netOpts' \in [Options -> Servers \cup {Fallback}]
    BY <2>1
  <2>3. lease.from \in Servers => \A o \in lease.has : netOpts'[o] = lease.from
    BY <2>1, LeaseKinds
  <2>4. LeaseInv'
    BY <2>1, <2>2, <2>3 DEF Addresses
  <2> QED BY <2>1, <2>4 DEF dhcpVars
<1>8. CASE DhcpFailed
  <2>1. /\ IF exchanges = 0 THEN netIp' = Fallback /\ netOpts' = [o \in Options |-> Fallback]
                            ELSE UNCHANGED <<netIp, netOpts>>
        /\ pc = "failed" /\ pc' \in Commands
        /\ UNCHANGED <<dhcpVars, discovered, asked, exchanges, leased>>
    BY <1>8 DEF DhcpFailed, Caller
  <2>2. LeaseInv'
    BY <2>1, LeaseKinds DEF Addresses
  <2> QED BY <2>1, <2>2 DEF dhcpVars
<1>9. CASE ShellDhcp
  BY <1>9 DEF ShellDhcp, netVars, dhcpVars, BootAssumption
<1>10. ASSUME NEW p \in {"offer", "ack"}, PollsDone(p) PROVE DhcpInv' /\ LeaseInv'
  <2>1. /\ pc = p /\ pc' \in Exchanging /\ (pc' = "success" => gotAck)
        /\ UNCHANGED <<netVars, leased, exchanges>>
    BY <1>10 DEF PollsDone
  <2> QED BY <2>1 DEF netVars, dhcpVars
<1> QED BY <1>1, <1>2, <1>3, <1>4, <1>5, <1>6, <1>7, <1>8, <1>9, <1>10, DhcpChanges

(* The flags.                                                              *)
LEMMA FlagsKept == ASSUME FlagsInv, [Next]_vars PROVE FlagsInv'
<1> USE DEF FlagsInv, nicVars, flowVars
<1>1. CASE AtaInit \/ AtaSector \/ E1000Missing
  BY <1>1, Zenon DEF AtaInit, AtaSector, E1000Missing
<1>2. CASE AtaSti \/ Sti
  BY <1>2, Zenon DEF AtaSti, Sti, FlagAfterTransfer
<1>3. ASSUME NEW n \in 1 .. Sectors, AtaCli(n) PROVE FlagsInv'
  BY <1>3, Zenon DEF AtaCli
<1>4. CASE E1000Init
  BY <1>4, Zenon DEF E1000Init, StartNic
<1>5. CASE NetInit
  BY <1>5, Zenon DEF NetInit
<1>6. CASE DhcpReset \/ DhcpClear \/ SendDiscover \/ SendRequest
  BY <1>6, Zenon DEF DhcpReset, DhcpClear, SendDiscover, SendRequest
<1>7. CASE DhcpSuccess \/ DhcpFailed \/ PingSend \/ ShellDhcp
  BY <1>7, Zenon DEF DhcpSuccess, DhcpFailed, PingSend, ShellDhcp
<1>8. ASSUME NEW p \in {"offer", "ack"}, Poll(p) PROVE FlagsInv'
  BY <1>8, Zenon DEF Poll
<1>9. ASSUME NEW p \in {"offer", "ack"}, NextTick(p) PROVE FlagsInv'
  BY <1>9, Zenon DEF NextTick
<1>10. ASSUME NEW p \in {"offer", "ack"}, PollsDone(p) PROVE FlagsInv'
  BY <1>10, Zenon DEF PollsDone
<1>11. CASE PollReturn
  BY <1>11, Zenon DEF PollReturn
<1>12. ASSUME NEW dst \in Hosts \cup {SubnetBroadcast}, Ping(dst) PROVE FlagsInv'
  BY <1>12, Zenon DEF Ping
<1>13. CASE TimerIrq
  BY <1>13, Zenon DEF TimerIrq
<1>14. CASE NicIrq
  BY <1>14, Zenon DEF NicIrq
<1>15. CASE IrqReturn
  BY <1>15, Zenon DEF IrqReturn
<1>16. CASE Arrive /\ UNCHANGED <<netVars, flowVars>>
  BY <1>16, Zenon DEF Arrive
<1>17. CASE UNCHANGED vars
  BY <1>17, Zenon DEF vars
<1>18. ASSUME NEW c \in Contexts, HandlerStep(c) PROVE FlagsInv'
  <2>1. UNCHANGED flowVars /\ UNCHANGED <<nicOn, rxCb>>
    BY <1>18 DEF HandlerStep, ReadIcr, Release, SweepDone, TakeFrame
  <2>2. cause' = cause \/ cause' = FALSE
    BY <1>18, Zenon DEF HandlerStep, ReadIcr, Release, SweepDone, TakeFrame
  <2> QED BY <2>1, <2>2, Zenon
<1> QED BY <1>1, <1>2, <1>3, <1>4, <1>5, <1>6, <1>7, <1>8, <1>9, <1>10, <1>11, <1>12, <1>13, <1>14,
           <1>15, <1>16, <1>17, <1>18
        DEF Next, Irq, Main, Disk, Dhcp, Wait, Command, Contexts

ClientInv == DhcpInv /\ LeaseInv /\ FlowInv /\ FlagsInv

(* The inductive invariant of the DHCP client and of the flow of control:  *)
(* what the flags say about the values, at every place of dhcp_request,    *)
(* however late, repeated or mixed the answers.                            *)
THEOREM BootLeaseInvariant == Spec => []ClientInv
<1>1. Init => ClientInv
  <2> SUFFICES ASSUME Init PROVE ClientInv
    OBVIOUS
  <2>1. DhcpInv
    BY NetAssumption, LeaseKinds DEF Init, NetInitial, DhcpInv
  <2>2. LeaseInv
    BY NetAssumption, LeaseKinds DEF Init, NetInitial, LeaseInv, Addresses
  <2>3. FlowInv
    BY BootAssumption, E1000Assumption
    DEF Init, NicInit, FlowInv, BeforeNet, BootAssumption, E1000Assumption
  <2>4. FlagsInv
    BY Zenon DEF Init, NicInit, FlagsInv
  <2> QED BY <2>1, <2>2, <2>3, <2>4 DEF ClientInv
<1>2. ClientInv /\ [Next]_vars => ClientInv'
  BY NetAssumption, BootAssumption, E1000Assumption, HandlerKeeps, StepsKeepTypes, StepsKeepLease,
     FlagsKept DEF ClientInv
<1> QED BY <1>1, <1>2, PTL DEF Spec

(* An address comes only from an ACK; it is the one of the server whose ACK*)
(* was the last accepted, and so are the options that came with it and that*)
(* no later message of another server took.                                *)
THEOREM BootLeaseFromAck == Spec => []LeaseFromAck
<1>1. ClientInv => LeaseFromAck
  BY DEF ClientInv, LeaseInv, LeaseFromAck, AskedFor
<1> QED BY <1>1, BootLeaseInvariant, PTL

(* Types.  Counters of attempts and polls, ring indexes and places in the  *)
(* code stay in their ranges through interrupts and both exchanges.        *)
THEOREM BootTypes == Spec => []TypeOK
<1>1. RingInv /\ ArpInv /\ ClientInv => TypeOK
  <2> SUFFICES ASSUME RingInv, ArpInv, DhcpInv, LeaseInv, FlowInv, FlagsInv PROVE TypeOK
    BY DEF ClientInv
  <2>1. /\ dd \subseteq Descriptors /\ {rdh, rdt, rxTail} \subseteq Descriptors
        /\ {cause, nicOn, rxCb, reentered} \subseteq BOOLEAN
        /\ at \in [Contexts -> {"out", "icr", "sweep", "release", "return"}]
    BY DEF RingInv, RingType, Places, FlagsInv
  <2>2. arp \in UNION {[1 .. n -> EntrySet] : n \in 0 .. ArpCache}
    <3>1. arp \in [1 .. Len(arp) -> EntrySet] /\ Len(arp) \in 0 .. ArpCache
      BY NetAssumption, LenProperties DEF ArpInv, NetAssumption
    <3> QED BY <3>1
  <2>3. /\ heard \in [Hosts -> Macs \cup {NoMac}]
        /\ {out.to, sending.to} \subseteq Macs \cup {All, NoMac, Torn.to}
    BY DEF ArpInv, Known
  <2> QED BY <2>1, <2>2, <2>3
          DEF TypeOK, EntrySet, DhcpInv, LeaseInv, FlowInv, FlagsInv, BeforeNet, Exchanging, Commands,
              Leases
<1> QED BY <1>1, BootRingInvariant, BootArpInvariant, BootLeaseInvariant, PTL
=============================================================================
