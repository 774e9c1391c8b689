---------------------------------- MODULE Net ----------------------------------
(***************************************************************************)
(* The network stack of Nuvora Core, kernel/net.c: two adapters of which   *)
(* one is active, DHCP, the UDP inbox and its ports, the echo probe, and   *)
(* the TCP stream of module Tcp.                                           *)
(*                                                                         *)
(*  - adapter  ip (0: none) and state of "wired" and of "usb"; the other   *)
(*             configured values go with the address                       *)
(*  - lease    lease_state, and the server whose address was offered.      *)
(*             Servers answer at any time, again, or never; answers to     *)
(*             another exchange are told by their random xid and dropped   *)
(*  - ports    udp_ports: the port each process has claimed, 0 for none    *)
(*  - inbox    the one datagram received: for whom, on which interface     *)
(*             and address                                                 *)
(*  - probe    echo_probe, and where it was sent from                      *)
(*  - local    stream.index and stream.source_ip                           *)
(*                                                                         *)
(* Whether there is a link is asked at each call and may change between    *)
(* any two.  A server is known by the address it gives out.  The ARP       *)
(* cache is not modelled: an address that is not resolved is one of the    *)
(* reasons for a send to say "again".                                      *)
(***************************************************************************)
EXTENDS Tcp, FiniteSets

CONSTANTS
    Addresses,   \* addresses of this machine, by the server that gives them
    Ports,       \* UDP ports, positive
    UdpSlots,    \* size of udp_ports, NV_TASK_MAX
    Clients,     \* bound: the processes that open streams,
    Homes,       \*        and the addresses they are opened from
    Alone        \* bound: the stream is opened only when no other traffic is
                 \* under way and the other adapter is down, and other traffic
                 \* begins only without a stream

ASSUME NetAssumption ==
    /\ Addresses \subseteq Nat \ {0} /\ Ports \subseteq Nat \ {0}
    /\ UdpSlots \in Nat /\ Clients \subseteq Apps
    /\ Homes \subseteq Addresses /\ Alone \in BOOLEAN

VARIABLES active, attached, adapter, lease, ports, inbox, probe, local

config == <<active, attached, adapter>>
traffic == <<lease, ports, inbox, probe>>
vars == <<tcp, local, config, traffic>>

Adapter == {"wired", "usb"}
None == [kind |-> "none"]
NoLease == [step |-> "idle", server |-> 0]
Down == [ip |-> 0, state |-> "DOWN"]
Place == [index : Adapter, ip : Addresses]

TypeOK ==
    /\ TcpTypeOK /\ local \in Place \cup {None}
    /\ active \in Adapter /\ attached \in BOOLEAN
    /\ adapter \in [Adapter -> [ip : Addresses \cup {0},
                                state : {"DOWN", "LINK", "CONFIGURING", "ONLINE"}]]
    /\ lease \in [step : {"idle", "discover", "request"}, server : Addresses \cup {0}]
    /\ ports \in [Apps -> Ports \cup {0}]
    /\ Cardinality({a \in Apps : ports[a] # 0}) <= UdpSlots
    /\ inbox \in {None} \cup [owner : Apps, port : Ports, at : Place]
    /\ probe \in {None} \cup [replied : BOOLEAN, at : Place]

Init ==
    /\ TcpInit /\ local = None
    /\ active = "wired" /\ attached = FALSE /\ adapter = [n \in Adapter |-> Down]
    /\ lease = NoLease /\ ports = [a \in Apps |-> 0] /\ inbox = None /\ probe = None
-----------------------------------------------------------------------------
ip == adapter[active].ip
Online == adapter[active].state = "ONLINE"
Here == [index |-> active, ip |-> ip]
SetUp(n, address, state) == adapter' = [adapter EXCEPT ![n] = [ip |-> address, state |-> state]]

Focus == Alone => stream.state = Idle
Quiet == Alone =>
    /\ lease = NoLease /\ ports = [a \in Apps |-> 0] /\ inbox = None /\ probe = None
    /\ \A n \in Adapter \ {active} : adapter[n] = Down

\* What belongs to the interface and its address goes with them.
reset_protocol_state(step) ==
    /\ lease' = [NoLease EXCEPT !.step = step]
    /\ inbox' = None /\ ports' = [a \in Apps |-> 0] /\ probe' = None
    /\ DropStream /\ local' = None
-----------------------------------------------------------------------------
(* Adapters: a USB adapter comes and goes; DHCP, STATIC, SELECT; no link   *)

net_usb_attach ==
    /\ ~attached /\ attached' = TRUE
    /\ SetUp("usb", 0, "DOWN")
    /\ UNCHANGED <<tcp, local, active, traffic>>

net_usb_detach ==
    /\ attached /\ attached' = FALSE
    /\ SetUp("usb", 0, "DOWN") /\ active' = "wired"
    /\ IF active = "usb" THEN reset_protocol_state("idle")
       ELSE UNCHANGED <<tcp, local, traffic>>

Select(n) ==
    /\ n # active /\ (n = "usb" => attached)
    /\ active' = n /\ reset_protocol_state("idle")
    /\ UNCHANGED <<attached, adapter>>

Dhcp ==
    /\ reset_protocol_state("discover")
    /\ SetUp(active, 0, "CONFIGURING")
    /\ UNCHANGED <<active, attached>>

Static(address) ==
    /\ reset_protocol_state("idle")
    /\ SetUp(active, address, "ONLINE")
    /\ UNCHANGED <<active, attached>>

LinkLost ==
    /\ SetUp(active, 0, "DOWN") /\ reset_protocol_state("idle")
    /\ UNCHANGED <<active, attached>>
-----------------------------------------------------------------------------
(* Frames that are not TCP                                                 *)

Offer(server) ==
    /\ lease.step = "discover"
    /\ lease' = [step |-> "request", server |-> server]
    /\ UNCHANGED <<adapter, ports, inbox, probe>>

LeaseAck ==
    /\ lease.step = "request" /\ lease' = NoLease
    /\ SetUp(active, lease.server, "ONLINE")
    /\ UNCHANGED <<ports, inbox, probe>>

LeaseNak ==
    /\ lease.step = "request"
    /\ lease' = [NoLease EXCEPT !.step = "discover"]
    /\ UNCHANGED <<adapter, ports, inbox, probe>>

\* A datagram is kept for the process that holds its port, if there is room.
Datagram(port) ==
    /\ ip # 0 /\ inbox = None
    /\ \E a \in Apps : ports[a] = port
                       /\ inbox' = [owner |-> a, port |-> port, at |-> Here]
    /\ UNCHANGED <<adapter, lease, ports, probe>>

EchoReply ==
    /\ ip # 0 /\ probe # None /\ probe' = [probe EXCEPT !.replied = TRUE]
    /\ UNCHANGED <<adapter, lease, ports, inbox>>

Frame ==
    /\ \/ \E s \in Addresses : Offer(s)
       \/ LeaseAck
       \/ LeaseNak
       \/ \E p \in Ports : Datagram(p)
       \/ EchoReply
    /\ UNCHANGED <<local, active, attached>>

\* A USB adapter hands its frames over as they come, outside net_poll.
net_usb_receive ==
    /\ active = "usb"
    /\ \/ Frame /\ UNCHANGED tcp
       \/ /\ ip # 0 /\ local = Here
          /\ \E g \in Current \cup Past : TcpReceive(g)
          /\ UNCHANGED <<local, config, traffic>>

\* net_poll with a link: the wired adapter's frames, then tcp_retry.
PollAlone ==
    /\ \E r \in IF Sends(stream) THEN Outcome ELSE {"sent"} : TcpRetry(r)
    /\ SetUp(active, ip, IF adapter[active].state = "DOWN" THEN "LINK"
                         ELSE adapter[active].state)
    /\ UNCHANGED <<local, active, attached, traffic>>

PollOther ==
    /\ active = "wired" /\ Frame
    /\ \E r \in IF Sends(stream) THEN Outcome ELSE {"sent"} : TcpRetry(r)

PollSegment ==
    /\ active = "wired" /\ ip # 0 /\ local = Here
    /\ \E g \in Current \cup Past : TcpPollFrame(g)
    /\ UNCHANGED <<local, config, traffic>>

net_poll == PollAlone \/ PollOther \/ PollSegment \/ LinkLost
-----------------------------------------------------------------------------
(* Calls of processes: net_ioctl, and the end of one                       *)

\* udp_bind: claim a port, unless another process has it or the table is full.
CanBind(a, port) ==
    /\ \A b \in Apps \ {a} : ports[b] # port
    /\ ports[a] # 0 \/ Cardinality({b \in Apps : ports[b] # 0}) < UdpSlots
udp_bind(a, port) ==
    /\ CanBind(a, port) /\ ports' = [ports EXCEPT ![a] = port]
\* (Mutated: another port does not drop the datagram.)
KeptAlways(a, port) == inbox
KeptBy(a, port) ==
    IF inbox # None /\ inbox.owner = a /\ inbox.port # port THEN None ELSE inbox

UdpSend(a, port) ==
    /\ Focus /\ Online
    /\ udp_bind(a, port) /\ inbox' = KeptBy(a, port)
    /\ UNCHANGED <<tcp, local, config, lease, probe>>

UdpReceive(a, port) ==
    /\ Focus
    /\ udp_bind(a, port)
    /\ inbox' = IF inbox # None /\ inbox.owner = a THEN None ELSE inbox
    /\ UNCHANGED <<tcp, local, config, lease, probe>>

UdpReceiveAny(a) ==
    /\ inbox # None /\ inbox.owner = a /\ inbox' = None
    /\ UNCHANGED <<tcp, local, config, lease, ports, probe>>

\* PING sends, and later asks for the reply until it is there or 2 s are over.
Ping ==
    /\ Focus /\ Online
    /\ probe' = IF probe = None THEN [replied |-> FALSE, at |-> Here] ELSE None
    /\ UNCHANGED <<tcp, local, config, lease, ports, inbox>>

Open(a) ==
    /\ a \in Clients /\ ip \in Homes /\ Quiet /\ Online
    /\ TcpOpen(a) /\ local' = Here
    /\ UNCHANGED <<config, traffic>>

Send(a) == TcpSend(a) /\ UNCHANGED <<local, config, traffic>>
Recv(a) == TcpRecv(a) /\ UNCHANGED <<local, config, traffic>>
Close(a) == TcpClose(a) /\ local' = None /\ UNCHANGED <<config, traffic>>
Report(a) == TcpReport(a) /\ local' = None /\ UNCHANGED <<config, traffic>>

\* A process ends, or executes another program.
net_task_release(a) ==
    /\ inbox' = IF inbox # None /\ inbox.owner = a THEN None ELSE inbox
    /\ ports' = [ports EXCEPT ![a] = 0]
    /\ IF stream.state # Idle /\ stream.owner = a
       THEN DropStream /\ local' = None ELSE UNCHANGED <<tcp, local>>
    /\ UNCHANGED <<config, lease, probe>>

Tick(late) == TcpTick(late) /\ UNCHANGED <<local, config, traffic>>
PeerReceives == PeerTakes /\ UNCHANGED <<local, config, traffic>>

System == net_usb_receive \/ net_poll \/ PeerReceives \/ \E late \in BOOLEAN : Tick(late)

User ==
    \/ net_usb_attach \/ net_usb_detach \/ Dhcp \/ Ping
    \/ \E n \in Adapter : Select(n)
    \/ \E s \in Addresses : Static(s)
    \/ \E a \in Apps :
         \/ Open(a) \/ Send(a) \/ Recv(a) \/ Close(a) \/ Report(a)
         \/ net_task_release(a) \/ UdpReceiveAny(a)
         \/ \E p \in Ports : UdpSend(a, p) \/ UdpReceive(a, p)

Next == System \/ User

\* Time passes; some process makes calls, and each polls; a frame that is to
\* be repeated does not meet a busy ring or an unresolved neighbour for ever.
Repeat == stream.state \in Live /\ Unacknowledged(stream) /\ stream.due
          /\ (\E r \in {"sent", "nodev"} : TcpRetry(r))
          /\ UNCHANGED <<local, config, traffic>>

Spec == Init /\ [][Next]_vars /\ WF_vars(Tick(TRUE)) /\ SF_vars(Repeat)
-----------------------------------------------------------------------------
(* Properties *)

Bytes == INSTANCE ByteStream WITH
    open <- stream.state # Idle,
    written <- [i \in 1 .. wrote |-> i],
    arrived <- peer.taken,
    received <- IF stream.state = Idle THEN <<>> ELSE got \o stream.buffer,
    ended <- stream.state # Idle /\ stream.eof

\* The stream keeps the promise of ByteStream over a network that loses,
\* repeats and reorders segments, past the wrap of the sequence numbers, with
\* partial acknowledgements, overlapping segments, probes beyond the window,
\* and segments of the connection before: tcp_input and tcp_retry.
StreamPromise == Bytes!Spec

\* Whatever the peer was ever invited to send fits into the buffer: no update
\* takes back room that an earlier segment gave away (tcp_packet's window).
\* Types are part of it: the queue never holds more than its room.
RoomAsPromised ==
    /\ TypeOK
    /\ stream.state = Established /\ ~stream.eof =>
          peer.edge <= Offset(stream) + DataMax - Len(stream.buffer)

\* Everything under way belongs to the interface and address in use, and to a
\* process that still holds its port; while an address is being asked for there
\* is none and nothing is under way.  "Never return a packet or finish a probe
\* from the old one", net.c says of reset_protocol_state.
CurrentConfiguration ==
    /\ stream.state # Idle => local = Here /\ Online
    /\ inbox # None => inbox.at = Here /\ ports[inbox.owner] = inbox.port
    /\ probe # None => probe.at = Here
    /\ lease.step # "idle" => /\ adapter[active] = [ip |-> 0, state |-> "CONFIGURING"]
                              /\ stream.state = Idle /\ inbox = None /\ probe = None

\* A SYN or bytes under way do not stay so for ever: they are acknowledged, or
\* the stream fails or is given up.  Nothing that the peer sends, and no busy
\* ring for a while, holds off the retransmissions that lead to one of the two.
OutputSettles ==
    (stream.state \in Live /\ Unacknowledged(stream)) ~>
        ~(stream.state \in Live /\ Unacknowledged(stream))
=============================================================================
