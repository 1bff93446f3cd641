-------------------------------- MODULE Net --------------------------------
(***************************************************************************)
(* The network stack, kernel/net/net.c: what eth_rx does with a frame, the *)
(* ARP cache, where a packet is sent, and the answers the DHCP client      *)
(* takes.  The frames come from the card's ring (E1000); dhcp_request, in  *)
(* whose loops they are handled, is in Boot.                               *)
(*                                                                         *)
(* A server gives one address, and one value for each option: the server's *)
(* name stands for all of them.  Its messages need not carry every option. *)
(***************************************************************************)
EXTENDS E1000, Sequences, SequencesExt

CONSTANTS
    Servers,             \* DHCP servers
    Options,             \* of mask, router and name server, those considered
    Carried,             \* the sets of options a message may carry, ServerId among them
    Near, Far, Gateway,  \* hosts on the subnet, off it, and the gateway
    SubnetBroadcast,     \* the subnet's broadcast address
    Macs,                \* their hardware addresses
    ArpCache             \* ARP_CACHE

NoIp == "0.0.0.0"
Fallback == "10.0.2.15"
NoMac == "no MAC"
All == "ff:ff"
Hosts == Near \cup Far \cup {Gateway}
Addresses == Servers \cup {NoIp, Fallback}
ServerId == "server"

\* A frame: where it goes, and (history) the address the host it is for had last
\* given when that was decided.
NoFrame == [to |-> NoMac, latest |-> NoMac]
Torn == [to |-> "torn", latest |-> NoMac]
ToAll == [to |-> All, latest |-> NoMac]

VARIABLES
    traffic,             \* what the frames of this behaviour are about
    netIp, netOpts,      \* net_ip; net_mask, net_gw, net_dns
    arp,                 \* arp_cache: its valid entries, in slot order
    bound,               \* dhcp_rx is registered for port 68
    gotOffer, gotAck,    \* dhcp_got_offer, dhcp_got_ack
    offered, server, opts, \* dhcp_offered, dhcp_server; dhcp_mask, _gw, _dns
    discovered, asked,   \* DISCOVER sent; REQUESTs sent, as <<address, server>>
    out,                 \* the last unicast or ARP frame given to e1000_send
    sending,             \* the frame the shell is building, or NoFrame
    heard,               \* history: the hardware address each host last gave
    lease                \* history: the last ACK accepted, see LeaseAfter

\* A lease: the server that gave it, and the options that came with the ACK.
\* Spoilt: the address was set back to none after the ACK.
NoLease == [from |-> NoIp, has |-> {}]
Spoilt == [from |-> "spoilt", has |-> {}]

\* No server has the addresses that stand for none or for the fall-back, no
\* host the broadcast address of the hardware.
ASSUME NetAssumption ==
    /\ ArpCache \in Nat \ {0}
    /\ {NoIp, Fallback, Spoilt.from} \cap Servers = {}
    /\ {All, NoMac, Torn.to} \cap Macs = {}
    /\ SubnetBroadcast \notin Hosts
    /\ Carried \subseteq SUBSET (Options \cup {ServerId})

cacheVars == <<arp, out, sending, heard>>
dhcpVars == <<bound, gotOffer, gotAck, offered, server, opts, lease>>
netVars == <<traffic, netIp, netOpts, cacheVars, dhcpVars, discovered, asked>>

NetInitial ==
    /\ traffic \in {"dhcp", "arp"}
    /\ netIp = NoIp /\ netOpts = [o \in Options |-> Fallback]
    /\ arp = <<>> /\ out = NoFrame /\ sending = NoFrame /\ heard = [h \in Hosts |-> NoMac]
    /\ bound = FALSE /\ gotOffer = FALSE /\ gotAck = FALSE
    /\ offered = NoIp /\ server = NoIp /\ opts = [o \in Options |-> NoIp]
    /\ discovered = FALSE /\ asked = {} /\ lease = NoLease

---------------------------------------------------------------------------
(* ARP and sending *)

\* FAULT (SentToLatest): an entry is added though the address has one.
AppendedOnly(ip, mac) ==
    IF Len(arp) < ArpCache THEN Append(arp, [ip |-> ip, mac |-> mac])
    ELSE [arp EXCEPT ![1] = [ip |-> ip, mac |-> mac]]

SlotOf(ip) == SelectInSeq(arp, LAMBDA e : e.ip = ip)

\* arp_add: the entry of that address, else a free slot, else slot 0.
ArpAdded(ip, mac) ==
    LET entry == [ip |-> ip, mac |-> mac]
    IN  CASE SlotOf(ip) # 0 -> [arp EXCEPT ![SlotOf(ip)] = entry]
          [] SlotOf(ip) = 0 /\ Len(arp) < ArpCache -> Append(arp, entry)
          [] OTHER -> [arp EXCEPT ![1] = entry]

\* raw_ip4_send: the address whose hardware address is looked up.
NextHop(dst) == IF netIp # NoIp /\ dst \in Far THEN Gateway ELSE dst

\* raw_ip4_send: broadcast, or to the address in the cache; on a miss an ARP
\* request is sent instead and the packet is dropped.
Sent(dst) ==
    LET hop == NextHop(dst)
    IN  IF (netIp # NoIp /\ dst = SubnetBroadcast) \/ SlotOf(hop) = 0 THEN ToAll
        ELSE [to |-> arp[SlotOf(hop)].mac, latest |-> heard[hop]]

\* eth_frame and ip_pkt are static: what the interrupt sends may go into the frame
\* the shell is building, depending on how far it has got.
Overwritten == sending' = sending \/ (sending # NoFrame /\ sending' = Torn)

\* An answer from the receive handler.
Reply(dst) == out' = Sent(dst) /\ Overwritten /\ UNCHANGED <<arp, heard>>

\* arp_handle: what the sender says of itself is always noted; only a request for
\* our address, once we have one, is answered.
HandleArp(m) ==
    /\ arp' = ArpAdded(m.from, m.mac)
    /\ heard' = [heard EXCEPT ![m.from] = m.mac]
    /\ \/ /\ m.forUs /\ netIp # NoIp
          /\ out' = [to |-> m.mac, latest |-> m.mac] /\ Overwritten
       \/ /\ ~(m.forUs /\ netIp # NoIp)
          /\ UNCHANGED <<out, sending>>

---------------------------------------------------------------------------
(* DHCP *)

\* FAULT (LeaseFromAck): the options of an ACK are not read.
OptsOfOffer(m) ==
    [o \in Options |-> IF m.type # "ack" /\ o \in m.has THEN m.from ELSE opts[o]]

\* dhcp_parse_opts.  What options there are is stored before the message is
\* looked at; the others stay as they are.
OptsAfter(m) == [o \in Options |-> IF o \in m.has THEN m.from ELSE opts[o]]
ServerAfter(m) == IF ServerId \in m.has THEN m.from ELSE server

\* History.  A later message of another server takes the options it carries.
LeaseAfter(m) ==
    CASE m.type = "ack" /\ gotOffer -> [from |-> m.from, has |-> m.has \cap Options]
      [] m.type = "nak" /\ gotAck -> Spoilt
      [] OTHER -> IF m.from = lease.from THEN lease ELSE [lease EXCEPT !.has = @ \ m.has]

\* dhcp_rx, for a reply with our xid, which is the same in every exchange.
HandleDhcp(m) ==
    /\ opts' = OptsAfter(m)
    /\ \/ /\ m.type = "offer" /\ ~gotOffer
          /\ offered' = m.from /\ server' = ServerAfter(m) /\ gotOffer' = TRUE
          /\ UNCHANGED gotAck
       \/ /\ m.type = "ack" /\ gotOffer
          /\ offered' = m.from /\ server' = ServerAfter(m) /\ gotAck' = TRUE
          /\ UNCHANGED gotOffer
       \/ /\ m.type = "nak"
          /\ offered' = NoIp /\ server' = NoIp /\ gotOffer' = FALSE
          /\ UNCHANGED gotAck
       \/ /\ \/ m.type = "offer" /\ gotOffer
             \/ m.type = "ack" /\ ~gotOffer
          /\ server' = ServerAfter(m)
          /\ UNCHANGED <<offered, gotOffer, gotAck>>
    /\ lease' = LeaseAfter(m)
    /\ UNCHANGED bound

---------------------------------------------------------------------------
(* Frames *)

\* The servers with a request, late or repeated, for their own address that names
\* no other server.
Granting == {s \in Servers : asked \cap {<<s, s>>, <<s, NoIp>>} # {}}
Refusing == {s \in Servers : \E a \in asked : a[2] \in {s, NoIp}}

\* What the servers may have sent by now: any answer to any message of ours,
\* late or repeated.
DhcpFrames ==
    [kind : {"dhcp"}, type : {"offer"}, from : IF discovered THEN Servers ELSE {}, has : Carried]
    \cup [kind : {"dhcp"}, type : {"ack"}, from : Granting, has : Carried]
    \cup [kind : {"dhcp"}, type : {"nak"}, from : Refusing, has : Carried]

ArpFrames == [kind : {"arp"}, from : Hosts, mac : Macs, forUs : BOOLEAN]
EchoFrames == [kind : {"echo"}, from : Hosts]
OtherFrames == {[kind |-> "other"]}

Incoming == IF traffic = "dhcp" THEN DhcpFrames \cup OtherFrames
            ELSE ArpFrames \cup EchoFrames

\* eth_rx: ARP, an echo request to be answered, or a datagram for port 68.
Receive(m) ==
    /\ CASE m.kind = "arp" -> HandleArp(m) /\ UNCHANGED dhcpVars
         [] m.kind = "echo" -> Reply(m.from) /\ UNCHANGED dhcpVars
         [] m.kind = "dhcp" /\ bound -> HandleDhcp(m) /\ UNCHANGED cacheVars
         [] OTHER -> UNCHANGED <<cacheVars, dhcpVars>>
    /\ UNCHANGED <<traffic, netIp, netOpts, discovered, asked>>

---------------------------------------------------------------------------
(* Properties *)

\* A packet goes to the hardware address its next hop had last given when it was
\* looked up, through updates, replacements of slot 0 in a full cache, and changes
\* of our own address; when that is not known nothing is sent to anyone's.  (An
\* address that changes between the look-up and the sending is one frame late; a
\* frame the interrupt wrote over while it was built is Torn; and once the handler
\* has interrupted itself nothing is said.)
SentToLatest == out.to \in Macs /\ ~reentered => out.to = out.latest
=============================================================================
