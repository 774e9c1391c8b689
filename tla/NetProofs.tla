------------------------------- MODULE NetProofs -------------------------------
(***************************************************************************)
(* Proofs about Net: nothing of one configuration is used with another,    *)
(* the stream is a ByteStream, and its peer is never invited to send what  *)
(* would not fit.                                                          *)
(***************************************************************************)
EXTENDS Net, TLAPS, SequenceTheorems, FiniteSetTheorems

\* The types that the configuration needs, and why attaching a USB adapter does
\* not touch the active one: "usb" is active only while one is attached.
ConfigTypes ==
    /\ active \in Adapter /\ attached \in BOOLEAN
    /\ adapter \in [Adapter -> [ip : Addresses \cup {0},
                                state : {"DOWN", "LINK", "CONFIGURING", "ONLINE"}]]
    /\ lease \in [step : {"idle", "discover", "request"}, server : Addresses \cup {0}]
    /\ ports \in [Apps -> Ports \cup {0}]
    /\ active = "usb" => attached

\* CurrentConfiguration part by part
StreamIsHere == stream.state # Idle => local = Here /\ Online
InboxIsHere == inbox # None => inbox.at = Here /\ ports[inbox.owner] = inbox.port
ProbeIsHere == probe # None => probe.at = Here
NothingWhileConfiguring ==
    lease.step # "idle" => /\ adapter[active] = [ip |-> 0, state |-> "CONFIGURING"]
                           /\ stream.state = Idle /\ inbox = None /\ probe = None

ConfigInv ==
    /\ ConfigTypes /\ StreamIsHere /\ InboxIsHere /\ ProbeIsHere
    /\ NothingWhileConfiguring
-----------------------------------------------------------------------------
(* The stream: what is idle stays so unless it is opened *)

LEMMA RetryKeepsIdle ==
  ASSUME NEW r, stream.state = Idle, TcpRetry(r)
  PROVE  stream'.state = Idle
<1>1. ~Retrying(Line.s) /\ ~AckRetrying(Line.s)
  BY DEF Line, Retrying, AckRetrying, Live, Idle, Syn, Established
<1> QED
  BY <1>1 DEF TcpRetry, Become, tcp_retry, Line

LEMMA InputKeepsIdle ==
  ASSUME stream.state = Idle, NEW g, NEW r
  PROVE  Received(Line, g, r) = Line /\ tcp_retry(Line, r) = Line
<1>1. tcp_input(stream, g) = [s |-> stream, ack |-> FALSE]
  BY DEF tcp_input, Ignored, Live, Idle, Syn, Established
<1>2. [Line EXCEPT !.s = stream] = Line
  BY DEF Line
<1>3. Line.s = stream
  BY DEF Line
<1>4. ~Retrying(Line.s) /\ ~AckRetrying(Line.s)
  BY <1>3 DEF Retrying, AckRetrying, Live, Idle, Syn, Established
<1>5. tcp_retry(Line, r) = Line
  BY <1>4 DEF tcp_retry
<1> QED
  BY <1>1, <1>2, <1>3, <1>5 DEF Received

LEMMA SegmentKeepsIdle ==
  ASSUME stream.state = Idle, NEW g, TcpReceive(g) \/ TcpPollFrame(g)
  PROVE  stream'.state = Idle
<1>1. CASE TcpReceive(g)
  BY <1>1, InputKeepsIdle DEF TcpReceive, Become, Line
<1>2. CASE TcpPollFrame(g)
  BY <1>2, InputKeepsIdle DEF TcpPollFrame, Become, Line
<1> QED
  BY <1>1, <1>2

LEMMA DropIsIdle ==
  ASSUME DropStream
  PROVE  stream'.state = Idle
  BY DEF DropStream, Forget, NoStream, tcp

LEMMA NextReset ==
  ASSUME NEW step \in {"idle", "discover"}, reset_protocol_state(step), ConfigTypes
  PROVE  /\ stream'.state = Idle /\ inbox' = None /\ probe' = None
         /\ lease'.step = step
         /\ lease' \in [step : {"idle", "discover", "request"}, server : Addresses \cup {0}]
         /\ ports' \in [Apps -> Ports \cup {0}]
  BY DropIsIdle DEF reset_protocol_state, ConfigTypes, NoLease

\* A change of the configuration that leaves nothing under way behind.
LEMMA AfterReset ==
  ASSUME NEW step \in {"idle", "discover"}, reset_protocol_state(step),
         ConfigTypes, ConfigTypes',
         step # "idle" => adapter'[active'] = [ip |-> 0, state |-> "CONFIGURING"]
  PROVE  ConfigInv'
  BY NextReset DEF ConfigInv, StreamIsHere, InboxIsHere, ProbeIsHere, NothingWhileConfiguring

LEMMA SetUpType ==
  ASSUME ConfigTypes, NEW n \in Adapter, NEW a \in Addresses \cup {0},
         NEW x \in {"DOWN", "LINK", "CONFIGURING", "ONLINE"}, SetUp(n, a, x)
  PROVE  /\ adapter' \in [Adapter -> [ip : Addresses \cup {0},
                                state : {"DOWN", "LINK", "CONFIGURING", "ONLINE"}]]
         /\ adapter'[n] = [ip |-> a, state |-> x]
         /\ \A m \in Adapter \ {n} : adapter'[m] = adapter[m]
  BY DEF ConfigTypes, SetUp

LEMMA IpType == ConfigTypes => ip \in Addresses \cup {0}
  BY DEF ConfigTypes, ip
-----------------------------------------------------------------------------
(* Every step keeps the invariant *)

LEMMA InitConfig ==
  ASSUME Init PROVE ConfigInv
<1>1. stream.state = Idle /\ inbox = None /\ probe = None /\ lease.step = "idle"
  BY DEF Init, TcpInit, NoStream, NoLease
<1>2. ConfigTypes
  BY DEF Init, ConfigTypes, Adapter, Down, NoLease
<1> QED
  BY <1>1, <1>2 DEF ConfigInv, StreamIsHere, InboxIsHere, ProbeIsHere, NothingWhileConfiguring

\* Adapters come, go, and are configured.
LEMMA ConfigureKeeps ==
  ASSUME ConfigInv,
         \/ net_usb_attach \/ net_usb_detach \/ Dhcp \/ LinkLost
         \/ \E n \in Adapter : Select(n)
         \/ \E a \in Addresses : Static(a)
  PROVE  ConfigInv'
<1> USE DEF ConfigInv
<1>1. CASE net_usb_attach
  <2>1. active = "wired" /\ active' = "wired" /\ attached'
    BY <1>1 DEF net_usb_attach, ConfigTypes, Adapter
  <2>2. SetUp("usb", 0, "DOWN") /\ UNCHANGED <<stream, local, active, lease, ports, inbox, probe>>
    BY <1>1 DEF net_usb_attach, tcp, traffic
  <2>3. adapter'["wired"] = adapter["wired"] /\ ConfigTypes'
    BY <2>1, <2>2, SetUpType DEF ConfigTypes, Adapter
  <2> QED
    BY <2>1, <2>2, <2>3 DEF StreamIsHere, InboxIsHere, ProbeIsHere,
       NothingWhileConfiguring, Online, Here, ip
<1>2. CASE net_usb_detach
  <2>1. SetUp("usb", 0, "DOWN") /\ active' = "wired" /\ attached' = FALSE
    BY <1>2 DEF net_usb_detach
  <2>2. CASE active = "usb"
    <3>1. reset_protocol_state("idle")
      BY <1>2, <2>2 DEF net_usb_detach
    <3>2. ConfigTypes'
      BY <2>1, <3>1, SetUpType, NextReset DEF ConfigTypes, Adapter
    <3> QED
      BY <3>1, <3>2, AfterReset
  <2>3. CASE active = "wired"
    <3>1. UNCHANGED <<stream, local, active, lease, ports, inbox, probe>>
      BY <1>2, <2>1, <2>3 DEF net_usb_detach, tcp, traffic
    <3>2. adapter'["wired"] = adapter["wired"] /\ ConfigTypes'
      BY <2>1, <2>3, <3>1, SetUpType DEF ConfigTypes, Adapter
    <3> QED
      BY <2>3, <3>1, <3>2 DEF StreamIsHere, InboxIsHere, ProbeIsHere,
         NothingWhileConfiguring, Online, Here, ip
  <2> QED
    BY <2>2, <2>3 DEF ConfigTypes, Adapter
<1>3. CASE Dhcp
  <2>1. SetUp(active, 0, "CONFIGURING") /\ reset_protocol_state("discover")
        /\ UNCHANGED <<active, attached>>
    BY <1>3 DEF Dhcp
  <2>2. ConfigTypes' /\ adapter'[active'] = [ip |-> 0, state |-> "CONFIGURING"]
    BY <2>1, SetUpType, NextReset DEF ConfigTypes
  <2> QED
    BY <2>1, <2>2, AfterReset
<1>4. CASE LinkLost
  <2>1. SetUp(active, 0, "DOWN") /\ reset_protocol_state("idle")
        /\ UNCHANGED <<active, attached>>
    BY <1>4 DEF LinkLost
  <2>2. ConfigTypes'
    BY <2>1, SetUpType, NextReset DEF ConfigTypes
  <2> QED
    BY <2>1, <2>2, AfterReset
<1>5. ASSUME NEW n \in Adapter, Select(n)
      PROVE  ConfigInv'
  <2>1. reset_protocol_state("idle") /\ ConfigTypes'
    BY <1>5, NextReset DEF Select, ConfigTypes
  <2> QED
    BY <2>1, AfterReset
<1>6. ASSUME NEW a \in Addresses, Static(a)
      PROVE  ConfigInv'
  <2>1. SetUp(active, a, "ONLINE") /\ reset_protocol_state("idle")
        /\ UNCHANGED <<active, attached>>
    BY <1>6 DEF Static
  <2>2. ConfigTypes'
    BY <2>1, SetUpType, NextReset DEF ConfigTypes
  <2> QED
    BY <2>1, <2>2, AfterReset
<1> QED
  BY <1>1, <1>2, <1>3, <1>4, <1>5, <1>6

\* What is received while there is an address: nothing is being configured then,
\* and an address is given only when nothing is under way.
LEMMA FrameKeeps ==
  ASSUME ConfigInv, Frame, stream.state = Idle => stream'.state = Idle
  PROVE  ConfigInv'
<1> USE DEF ConfigInv
<1>0. UNCHANGED <<local, active, attached>>
  BY DEF Frame
<1>1. CASE \E s \in Addresses : Offer(s)
  <2>1. lease.step = "discover" /\ UNCHANGED <<adapter, ports, inbox, probe>>
    BY <1>1 DEF Offer
  <2>2. lease' \in [step : {"idle", "discover", "request"}, server : Addresses \cup {0}]
    BY <1>1 DEF Offer
  <2> QED
    BY <1>0, <2>1, <2>2 DEF ConfigTypes, StreamIsHere, InboxIsHere, ProbeIsHere,
       NothingWhileConfiguring, Online, Here, ip
<1>2. CASE LeaseAck
  <2>1. lease.step = "request" /\ lease' = NoLease /\ UNCHANGED <<ports, inbox, probe>>
        /\ SetUp(active, lease.server, "ONLINE")
    BY <1>2 DEF LeaseAck
  <2>2. stream'.state = Idle /\ inbox' = None /\ probe' = None
    BY <2>1 DEF NothingWhileConfiguring
  <2>3. lease.server \in Addresses \cup {0} /\ lease' \in [step : {"idle", "discover", "request"}, server : Addresses \cup {0}]
        /\ lease'.step = "idle"
    BY <2>1 DEF ConfigTypes, NoLease
  <2>4. ConfigTypes'
    BY <1>0, <2>1, <2>3, SetUpType DEF ConfigTypes
  <2> QED
    BY <2>2, <2>3, <2>4 DEF StreamIsHere, InboxIsHere, ProbeIsHere, NothingWhileConfiguring
<1>3. CASE LeaseNak
  <2>1. lease.step = "request" /\ UNCHANGED <<adapter, ports, inbox, probe>>
    BY <1>3 DEF LeaseNak
  <2>2. lease' \in [step : {"idle", "discover", "request"}, server : Addresses \cup {0}]
    BY <1>3 DEF LeaseNak, NoLease
  <2> QED
    BY <1>0, <2>1, <2>2 DEF ConfigTypes, StreamIsHere, InboxIsHere, ProbeIsHere,
       NothingWhileConfiguring, Online, Here, ip
<1>4. CASE \E p \in Ports : Datagram(p)
  <2>1. PICK p \in Ports, a \in Apps :
           /\ ip # 0 /\ ports[a] = p /\ inbox' = [owner |-> a, port |-> p, at |-> Here]
           /\ UNCHANGED <<adapter, lease, ports, probe>>
    BY <1>4 DEF Datagram
  <2>2. lease.step = "idle"
    BY <2>1 DEF NothingWhileConfiguring, ip
  <2>3. ConfigTypes' /\ Here' = Here /\ Online' = Online
    BY <1>0, <2>1 DEF ConfigTypes, Here, ip, Online
  <2>4. InboxIsHere'
    BY <2>1, <2>3 DEF InboxIsHere
  <2> QED
    BY <1>0, <2>1, <2>2, <2>3, <2>4 DEF StreamIsHere, ProbeIsHere, NothingWhileConfiguring
<1>5. CASE EchoReply
  <2>1. /\ ip # 0 /\ probe # None /\ probe' = [probe EXCEPT !.replied = TRUE]
        /\ UNCHANGED <<adapter, lease, ports, inbox>>
    BY <1>5 DEF EchoReply
  <2>2. lease.step = "idle"
    BY <2>1 DEF NothingWhileConfiguring, ip
  <2>3. ConfigTypes' /\ Here' = Here /\ Online' = Online
    BY <1>0, <2>1 DEF ConfigTypes, Here, ip, Online
  <2>4. probe'.at = probe.at
    BY <2>1
  <2> QED
    BY <1>0, <2>1, <2>2, <2>3, <2>4 DEF StreamIsHere, InboxIsHere, ProbeIsHere,
       NothingWhileConfiguring
<1> QED
  BY <1>1, <1>2, <1>3, <1>4, <1>5 DEF Frame

LEMMA PollKeeps ==
  ASSUME ConfigInv, net_usb_receive \/ PollAlone \/ PollOther \/ PollSegment
  PROVE  ConfigInv'
<1> USE DEF ConfigInv
\* A segment of the stream, when nothing else changes.
<1>1. ASSUME NEW g, TcpReceive(g) \/ TcpPollFrame(g), ip # 0, local = Here,
             UNCHANGED <<local, config, traffic>>
      PROVE  ConfigInv'
  <2>1. stream.state = Idle => stream'.state = Idle
    BY <1>1, SegmentKeepsIdle
  <2> QED
    BY <1>1, <2>1 DEF config, traffic, ConfigTypes, StreamIsHere, InboxIsHere, ProbeIsHere,
       NothingWhileConfiguring, Online, Here, ip
<1>2. CASE net_usb_receive
  <2>1. CASE Frame /\ UNCHANGED tcp
    BY <2>1, FrameKeeps DEF tcp
  <2> QED
    BY <1>1, <1>2, <2>1 DEF net_usb_receive
<1>3. CASE PollSegment
  BY <1>1, <1>3 DEF PollSegment
<1>4. CASE PollOther
  <2>1. stream.state = Idle => stream'.state = Idle
    BY <1>4, RetryKeepsIdle DEF PollOther
  <2> QED
    BY <1>4, <2>1, FrameKeeps DEF PollOther
<1>5. CASE PollAlone
  <2>1. stream.state = Idle => stream'.state = Idle
    BY <1>5, RetryKeepsIdle DEF PollAlone
  <2>2. PICK x \in {"DOWN", "LINK", "CONFIGURING", "ONLINE"} :
           /\ SetUp(active, ip, x)
           /\ adapter[active].state # "DOWN" => x = adapter[active].state
    BY <1>5 DEF PollAlone, ConfigTypes
  <2>3. UNCHANGED <<local, active, attached, lease, ports, inbox, probe>>
    BY <1>5 DEF PollAlone, traffic
  <2>4. ip \in Addresses \cup {0}
    BY IpType
  <2>5. adapter'[active] = [ip |-> ip, state |-> x] /\ ConfigTypes'
    <3>1. active \in Adapter
      BY DEF ConfigTypes
    <3>2. /\ adapter' \in [Adapter -> [ip : Addresses \cup {0},
                                state : {"DOWN", "LINK", "CONFIGURING", "ONLINE"}]]
          /\ adapter'[active] = [ip |-> ip, state |-> x]
      BY <2>2, <2>4, <3>1, SetUpType
    <3> QED
      BY <2>3, <3>2 DEF ConfigTypes
  <2>6. Here' = Here /\ (Online => Online')
    BY <2>2, <2>3, <2>5 DEF Here, Online, ip
  <2>7. NothingWhileConfiguring'
    BY <2>1, <2>2, <2>3, <2>5 DEF NothingWhileConfiguring, ip
  <2> QED
    BY <2>1, <2>3, <2>5, <2>6, <2>7 DEF StreamIsHere, InboxIsHere, ProbeIsHere
<1> QED
  BY <1>2, <1>3, <1>4, <1>5

\* The calls on datagrams and probes, and the end of a process.
LEMMA CallKeeps ==
  ASSUME ConfigInv, NEW a \in Apps,
         \/ \E p \in Ports : UdpSend(a, p) \/ UdpReceive(a, p)
         \/ UdpReceiveAny(a) \/ net_task_release(a)
  PROVE  ConfigInv'
<1> USE DEF ConfigInv
<1>1. ASSUME NEW p \in Ports, UdpSend(a, p) \/ UdpReceive(a, p)
      PROVE  ConfigInv'
  <2>1. ports' = [ports EXCEPT ![a] = p] /\ UNCHANGED <<stream, local, config, lease, probe>>
    BY <1>1 DEF UdpSend, UdpReceive, udp_bind, tcp
  <2>2. inbox' = None \/ (inbox' = inbox /\ (inbox.owner = a => inbox.port = p))
    BY <1>1 DEF UdpSend, UdpReceive, KeptBy
  <2>3. ConfigTypes' /\ Here' = Here /\ Online' = Online
    BY <2>1 DEF ConfigTypes, Here, Online, ip, config
  <2>4. InboxIsHere'
    BY <2>1, <2>2, <2>3 DEF InboxIsHere, ConfigTypes
  <2>5. NothingWhileConfiguring'
    BY <2>1, <2>2 DEF NothingWhileConfiguring, config
  <2> QED
    BY <2>1, <2>3, <2>4, <2>5 DEF StreamIsHere, ProbeIsHere
<1>2. CASE UdpReceiveAny(a)
  BY <1>2 DEF UdpReceiveAny, tcp, config, ConfigTypes, StreamIsHere, InboxIsHere, ProbeIsHere,
     NothingWhileConfiguring, Here, Online, ip
<1>3. CASE net_task_release(a)
  <2>1. ports' = [ports EXCEPT ![a] = 0] /\ UNCHANGED <<config, lease, probe>>
    BY <1>3 DEF net_task_release
  <2>2. inbox' = None \/ (inbox' = inbox /\ inbox.owner # a)
    BY <1>3 DEF net_task_release
  <2>3. stream'.state = Idle \/ UNCHANGED <<stream, local>>
    BY <1>3, DropIsIdle DEF net_task_release, tcp
  <2>4. ConfigTypes' /\ Here' = Here /\ Online' = Online
    BY <2>1 DEF ConfigTypes, Here, Online, ip, config
  <2>5. InboxIsHere'
    BY <2>1, <2>2, <2>4 DEF InboxIsHere, ConfigTypes
  <2>6. NothingWhileConfiguring'
    BY <2>1, <2>2, <2>3 DEF NothingWhileConfiguring, config
  <2> QED
    BY <2>1, <2>3, <2>4, <2>5, <2>6 DEF StreamIsHere, ProbeIsHere
<1> QED
  BY <1>1, <1>2, <1>3

LEMMA PingKeeps ==
  ASSUME ConfigInv, Ping
  PROVE  ConfigInv'
<1> USE DEF ConfigInv
<1>1. Online /\ probe' \in {None, [replied |-> FALSE, at |-> Here]}
        /\ UNCHANGED <<stream, local, config, lease, ports, inbox>>
  BY DEF Ping, tcp
<1>2. lease.step = "idle"
  BY <1>1 DEF NothingWhileConfiguring, Online
<1>3. ConfigTypes' /\ Here' = Here /\ Online' = Online
  BY <1>1 DEF ConfigTypes, Here, Online, ip, config
<1> QED
  BY <1>1, <1>2, <1>3 DEF StreamIsHere, InboxIsHere, ProbeIsHere, NothingWhileConfiguring

\* The calls on the stream, and time.
LEMMA StreamCallKeeps ==
  ASSUME ConfigInv,
         \/ \E a \in Apps : Open(a) \/ Send(a) \/ Recv(a) \/ Close(a) \/ Report(a)
         \/ PeerReceives \/ \E late \in BOOLEAN : Tick(late)
  PROVE  ConfigInv'
<1> USE DEF ConfigInv
<1>0. UNCHANGED <<config, traffic>>
  BY DEF Open, Send, Recv, Close, Report, PeerReceives, Tick
<1>1. ConfigTypes' /\ Here' = Here /\ Online' = Online /\ UNCHANGED <<lease, inbox, probe, ports, active, adapter>>
  BY <1>0 DEF ConfigTypes, Here, Online, ip, config, traffic
<1>2. InboxIsHere' /\ ProbeIsHere'
  BY <1>1 DEF InboxIsHere, ProbeIsHere
<1>3. (lease.step # "idle" => stream'.state = Idle) /\ StreamIsHere'
  <2>1. CASE \E a \in Apps : Open(a)
    <3>1. Online /\ local' = Here
      BY <2>1 DEF Open
    <3> QED
      BY <1>1, <3>1 DEF StreamIsHere, NothingWhileConfiguring, Online
  <2>2. CASE \E a \in Apps : Close(a) \/ Report(a)
    <3>1. stream'.state = Idle
      BY <2>2 DEF Close, Report, TcpClose, TcpReport, Forget, NoStream
    <3> QED
      BY <3>1 DEF StreamIsHere
  <2>3. CASE \/ \E a \in Apps : Send(a) \/ Recv(a)
             \/ PeerReceives \/ \E late \in BOOLEAN : Tick(late)
    <3>1. stream.state # Idle /\ local' = local
      BY <2>3 DEF Send, Recv, PeerReceives, Tick, TcpSend, TcpRecv, PeerTakes, TcpTick,
                  Idle, Live, Syn, Established
    <3> QED
      BY <1>1, <3>1 DEF StreamIsHere, NothingWhileConfiguring
  <2> QED
    BY <2>1, <2>2, <2>3
<1> QED
  BY <1>1, <1>2, <1>3 DEF NothingWhileConfiguring

LEMMA NextConfig == ConfigInv /\ [Next]_vars => ConfigInv'
<1>1. ASSUME ConfigInv, Next PROVE ConfigInv'
  BY <1>1, ConfigureKeeps, PollKeeps, CallKeeps, PingKeeps, StreamCallKeeps
     DEF Next, System, User, net_poll
<1>2. ASSUME ConfigInv, UNCHANGED vars PROVE ConfigInv'
  BY <1>2 DEF vars, tcp, config, traffic, ConfigInv, ConfigTypes, StreamIsHere, InboxIsHere,
     ProbeIsHere, NothingWhileConfiguring, Here, Online, ip
<1> QED
  BY <1>1, <1>2

\* Nothing of an interface, an address or a lease that is gone is used with the
\* next one, for any number of processes, addresses and ports.
THEOREM ConfigurationAlwaysCurrent == Spec => []CurrentConfiguration
<1>1. Init => ConfigInv
  BY InitConfig
<1>2. ConfigInv => CurrentConfiguration
  BY DEF ConfigInv, StreamIsHere, InboxIsHere, ProbeIsHere, NothingWhileConfiguring,
     CurrentConfiguration
<1> QED
  BY <1>1, <1>2, NextConfig, PTL DEF Spec

-----------------------------------------------------------------------------
(* Numbers of segments: every distance that occurs is less than half the   *)
(* sequence space, so that the order of positions is that of the numbers.  *)

LEMMA ModCases ==
  ASSUME NEW M \in Nat \ {0}, NEW x \in Int
  PROVE  /\ x % M \in 0 .. M - 1
         /\ x \in 0 .. M - 1 => x % M = x
         /\ x \in M .. 2 * M - 1 => x % M = x - M
         /\ -M <= x /\ x < 0 => x % M = x + M
<1>1. x % M \in 0 .. M - 1
  OBVIOUS
<1>2. ASSUME x \in 0 .. M - 1 PROVE x % M = x
  BY <1>2
<1>3. ASSUME x \in M .. 2 * M - 1 PROVE x % M = x - M
  BY <1>3
<1>4. ASSUME -M <= x, x < 0 PROVE x % M = x + M
  BY <1>4
<1> QED
  BY <1>1, <1>2, <1>3, <1>4

\* The positions of either side's bytes, and one beyond the last.
Farthest == DataMax + OutLen + InLen + 2
Position == 0 .. Farthest - 1

LEMMA Sizes ==
  /\ SeqSpace \in Nat /\ Farthest \in Nat /\ SeqSpace >= 2 * Farthest /\ Farthest >= 3
  /\ SeqSpace \div 2 \in Nat /\ SeqSpace = 2 * (SeqSpace \div 2) /\ SeqSpace \in Nat \ {0}
  /\ Isn \in SeqNo /\ FirstOut \in SeqNo /\ FirstIn \in SeqNo /\ FirstIn = FirstOut
  /\ FirstOut # Isn /\ FirstOut = (Isn + 1) % SeqSpace
  /\ Farthest \in Nat /\ DataMax \in Nat \ {0} /\ OutLen \in Nat /\ InLen \in Nat /\ Farthest = DataMax + OutLen + InLen + 2
<1>1. /\ SeqSpace \in Nat /\ Farthest \in Nat /\ SeqSpace >= 2 * Farthest /\ Farthest >= 3
      /\ SeqSpace % 2 = 0 /\ SeqSpace \in Nat \ {0}
      /\ Isn \in SeqNo /\ DataMax \in Nat \ {0} /\ OutLen \in Nat /\ InLen \in Nat
  BY TcpAssumption DEF Farthest, SeqNo
<1>2. SeqSpace \div 2 \in Nat /\ SeqSpace = 2 * (SeqSpace \div 2)
  BY <1>1
<1>3. Isn + 1 \in Int /\ Isn \in 0 .. SeqSpace - 1
  BY <1>1 DEF SeqNo
<1> DEFINE y == Isn + 1
<1>4. /\ y % SeqSpace \in 0 .. SeqSpace - 1
      /\ y \in 0 .. SeqSpace - 1 => y % SeqSpace = y
      /\ y \in SeqSpace .. 2 * SeqSpace - 1 => y % SeqSpace = y - SeqSpace
  <2> HIDE DEF y
  <2>1. y \in Int
    BY <1>3 DEF y
  <2> QED
    BY <1>1, <2>1, ModCases
<1>5. FirstOut = (Isn + 1) % SeqSpace /\ FirstIn = FirstOut
  BY DEF FirstOut, FirstIn, Add
<1>6. FirstOut \in SeqNo /\ FirstOut # Isn
  BY <1>1, <1>3, <1>4, <1>5 DEF SeqNo
<1> QED
  BY <1>1, <1>2, <1>5, <1>6 DEF Farthest

LEMMA AddCases ==
  ASSUME NEW a \in SeqNo, NEW n \in Nat, n <= SeqSpace
  PROVE  /\ Add(a, n) \in SeqNo
         /\ a + n < SeqSpace => Add(a, n) = a + n
         /\ a + n >= SeqSpace => Add(a, n) = a + n - SeqSpace
<1>1. a \in 0 .. SeqSpace - 1 /\ SeqSpace \in Nat \ {0} /\ a + n \in Int
  BY Sizes DEF SeqNo
<1> DEFINE y == a + n
<1>2. /\ y % SeqSpace \in 0 .. SeqSpace - 1
      /\ y \in 0 .. SeqSpace - 1 => y % SeqSpace = y
      /\ y \in SeqSpace .. 2 * SeqSpace - 1 => y % SeqSpace = y - SeqSpace
  <2> HIDE DEF y
  <2>1. y \in Int
    BY <1>1 DEF y
  <2> QED
    BY <1>1, <2>1, ModCases
<1> DEFINE x == (a + n) % SeqSpace
<1>3. Add(a, n) = x
  BY DEF Add
<1> HIDE DEF x
<1>4. x \in SeqNo
  BY <1>2 DEF SeqNo, x
<1>5. a + n < SeqSpace => x = a + n
  BY <1>1, <1>2 DEF x
<1>6. a + n >= SeqSpace => x = a + n - SeqSpace
  BY <1>1, <1>2 DEF x
<1> QED
  BY <1>3, <1>4, <1>5, <1>6

LEMMA SubCases ==
  ASSUME NEW a \in SeqNo, NEW b \in SeqNo
  PROVE  /\ Sub(a, b) \in SeqNo
         /\ a >= b => Sub(a, b) = a - b
         /\ a < b => Sub(a, b) = a - b + SeqSpace
<1>1. a \in 0 .. SeqSpace - 1 /\ b \in 0 .. SeqSpace - 1 /\ SeqSpace \in Nat \ {0} /\ a - b \in Int
  BY Sizes DEF SeqNo
<1>2. /\ (a - b) % SeqSpace \in 0 .. SeqSpace - 1
      /\ a - b \in 0 .. SeqSpace - 1 => (a - b) % SeqSpace = a - b
      /\ -SeqSpace <= a - b /\ a - b < 0 => (a - b) % SeqSpace = a - b + SeqSpace
  BY <1>1, ModCases
<1> DEFINE x == (a - b) % SeqSpace
<1>3. Sub(a, b) = x
  BY DEF Sub
<1> HIDE DEF x
<1>4. x \in SeqNo
  BY <1>2 DEF SeqNo, x
<1>5. a >= b => x = a - b
  BY <1>1, <1>2 DEF x
<1>6. a < b => x = a - b + SeqSpace
  BY <1>1, <1>2 DEF x
<1> QED
  BY <1>3, <1>4, <1>5, <1>6

\* The distance of two positions, forwards and back, and their order.
LEMMA Distance ==
  ASSUME NEW f \in SeqNo, NEW i \in Position, NEW j \in Position
  PROVE  /\ Add(f, i) \in SeqNo
         /\ j <= i => Sub(Add(f, i), Add(f, j)) = i - j /\ ~Ahead(Add(f, j), Add(f, i))
         /\ i < j => Sub(Add(f, i), Add(f, j)) = SeqSpace - (j - i)
         /\ i < j => Ahead(Add(f, j), Add(f, i)) /\ ~Ahead(Add(f, i), Add(f, j))
         /\ Add(f, i) = Add(f, j) => i = j
<1>1. /\ i \in Nat /\ j \in Nat /\ i < Farthest /\ j < Farthest /\ f \in Nat /\ f < SeqSpace
      /\ SeqSpace \in Nat /\ Farthest \in Nat /\ SeqSpace >= 2 * Farthest
  BY Sizes DEF Position, SeqNo
<1>2. /\ Add(f, i) \in SeqNo /\ Add(f, j) \in SeqNo
      /\ f + i < SeqSpace => Add(f, i) = f + i
      /\ f + i >= SeqSpace => Add(f, i) = f + i - SeqSpace
      /\ f + j < SeqSpace => Add(f, j) = f + j
      /\ f + j >= SeqSpace => Add(f, j) = f + j - SeqSpace
  BY <1>1, AddCases
<1> DEFINE a == Add(f, i)
           b == Add(f, j)
           d == Sub(a, b)
           e == Sub(b, a)
           half == SeqSpace \div 2
<1>3. /\ d \in SeqNo /\ e \in SeqNo
      /\ a >= b => d = a - b
      /\ a < b => d = a - b + SeqSpace
      /\ b >= a => e = b - a
      /\ b < a => e = b - a + SeqSpace
  BY <1>2, SubCases
<1>4. half \in Nat /\ SeqSpace = 2 * half
  BY Sizes
<1>5. (Ahead(a, b) <=> d \in 1 .. half - 1) /\ (Ahead(b, a) <=> e \in 1 .. half - 1)
  BY DEF Ahead
<1>6. a \in Nat /\ b \in Nat /\ a < SeqSpace /\ b < SeqSpace
  BY <1>1, <1>2 DEF SeqNo
<1> HIDE DEF a, b, d, e, half
<1>7. j <= i => d = i - j
  BY <1>1, <1>2, <1>3, <1>6 DEF a, b
<1>8. i < j => d = SeqSpace - (j - i) /\ e = j - i
  BY <1>1, <1>2, <1>3, <1>6 DEF a, b
<1>9. j < i => e = SeqSpace - (i - j)
  BY <1>1, <1>2, <1>3, <1>6 DEF a, b
<1>10. i = j => e = 0
  BY <1>1, <1>2, <1>3, <1>6 DEF a, b
<1>11. j <= i => ~Ahead(b, a)
  BY <1>1, <1>4, <1>5, <1>9, <1>10
<1>12. i < j => Ahead(b, a) /\ ~Ahead(a, b)
  BY <1>1, <1>4, <1>5, <1>8
<1>13. a = b => i = j
  BY <1>1, <1>2, <1>6 DEF a, b
<1> QED
  BY <1>2, <1>7, <1>8, <1>11, <1>12, <1>13 DEF a, b, d

LEMMA Further ==
  ASSUME NEW f \in SeqNo, NEW i \in Position, NEW n \in Nat, i + n \in Position
  PROVE  Add(Add(f, i), n) = Add(f, i + n)
<1>1. /\ i \in Nat /\ i + n \in Nat /\ i < Farthest /\ i + n < Farthest /\ f \in Nat /\ f < SeqSpace
      /\ SeqSpace \in Nat /\ Farthest \in Nat /\ SeqSpace >= 2 * Farthest
  BY Sizes DEF Position, SeqNo
<1>2. /\ Add(f, i) \in SeqNo
      /\ f + i < SeqSpace => Add(f, i) = f + i
      /\ f + i >= SeqSpace => Add(f, i) = f + i - SeqSpace
  BY <1>1, AddCases
<1>3. /\ f + (i + n) < SeqSpace => Add(f, i + n) = f + (i + n)
      /\ f + (i + n) >= SeqSpace => Add(f, i + n) = f + (i + n) - SeqSpace
  BY <1>1, AddCases
<1> DEFINE a == Add(f, i)
<1> HIDE DEF a
<1>4. a \in SeqNo /\ n <= SeqSpace
  BY <1>1, <1>2 DEF a
<1>5. /\ a + n < SeqSpace => Add(a, n) = a + n
      /\ a + n >= SeqSpace => Add(a, n) = a + n - SeqSpace
  BY <1>4, AddCases
<1> DEFINE b == Add(a, n)
           c == Add(f, i + n)
<1> HIDE DEF b, c
<1>6. b = c
  BY <1>1, <1>2, <1>3, <1>4, <1>5 DEF a, b, c, SeqNo
<1> QED
  BY <1>6 DEF a, b, c

-----------------------------------------------------------------------------
(* Bytes are numbered through, so a stretch of them is known by what is    *)
(* before it.                                                              *)

Run(q, base) == q \in Seq(Nat) /\ \A i \in 1 .. Len(q) : q[i] = base + i

LEMMA RunEmpty == ASSUME NEW b PROVE Run(<<>>, b) /\ Len(<<>>) = 0
BY DEF Run

LEMMA RunMade ==
  ASSUME NEW n \in Nat, NEW b \in Nat
  PROVE  Run([i \in 1 .. n |-> b + i], b) /\ Len([i \in 1 .. n |-> b + i]) = n
<1> DEFINE q == [i \in 1 .. n |-> b + i]
<1>1. q \in [1 .. n -> Nat]
  OBVIOUS
<1>2. q \in Seq(Nat) /\ Len(q) = n
  <2> HIDE DEF q
  <2> QED
    BY <1>1
<1>3. \A i \in 1 .. n : q[i] = b + i
  OBVIOUS
<1> QED
  BY <1>2, <1>3 DEF Run

LEMMA RunParts ==
  ASSUME NEW q, NEW b, Run(q, b)
  PROVE  q \in Seq(Nat) /\ Len(q) \in Nat /\ \A i \in 1 .. Len(q) : q[i] = b + i
BY LenProperties DEF Run

LEMMA RunSame ==
  ASSUME NEW p, NEW q, NEW b, Run(p, b), Run(q, b), Len(p) = Len(q) PROVE p = q
<1>1. p \in Seq(Nat) /\ q \in Seq(Nat) /\ \A i \in 1 .. Len(p) : p[i] = q[i]
  BY DEF Run
<1> QED
  BY <1>1, SeqEqual

LEMMA RunJoined ==
  ASSUME NEW p, NEW q, NEW b \in Nat, Run(p, b), NEW c, c = b + Len(p), Run(q, c)
  PROVE  Run(p \o q, b) /\ Len(p \o q) = Len(p) + Len(q)
<1>1. p \in Seq(Nat) /\ q \in Seq(Nat) /\ Len(p) \in Nat /\ Len(q) \in Nat
  BY RunParts
<1>2. /\ p \o q \in Seq(Nat) /\ Len(p \o q) = Len(p) + Len(q)
      /\ \A i \in 1 .. Len(p) + Len(q) : (p \o q)[i] = IF i <= Len(p) THEN p[i] ELSE q[i - Len(p)]
  BY <1>1, ConcatProperties
<1>3. ASSUME NEW i \in 1 .. Len(p) + Len(q) PROVE (p \o q)[i] = b + i
  <2>1. CASE i <= Len(p)
    <3>1. i \in 1 .. Len(p)
      BY <1>1, <2>1
    <3> QED
      BY <1>2, <2>1, <3>1 DEF Run
  <2>2. CASE ~(i <= Len(p))
    <3>1. i - Len(p) \in 1 .. Len(q)
      BY <1>1, <2>2
    <3>2. q[i - Len(p)] = c + (i - Len(p))
      BY <3>1 DEF Run
    <3>3. c + (i - Len(p)) = b + i
      BY <1>1
    <3> QED
      BY <1>2, <2>2, <3>2, <3>3
  <2> QED
    BY <2>1, <2>2
<1> QED
  BY <1>2, <1>3 DEF Run

LEMMA RunPart ==
  ASSUME NEW q, NEW b \in Nat, Run(q, b), NEW m \in Nat, NEW n \in Nat, m <= n, n <= Len(q)
  PROVE  Run(SubSeq(q, m + 1, n), b + m) /\ Len(SubSeq(q, m + 1, n)) = n - m
<1> DEFINE r == SubSeq(q, m + 1, n)
<1>1. q \in Seq(Nat) /\ Len(q) \in Nat /\ \A i \in 1 .. Len(q) : q[i] = b + i /\ q[i] \in Nat
  BY RunParts, ElementOfSeq
<1>2. m + 1 \in Int /\ n \in Int /\ \A i \in m + 1 .. n : q[i] \in Nat
  BY <1>1
<1>3. /\ r \in Seq(Nat) /\ Len(r) = (IF m + 1 <= n THEN n - (m + 1) + 1 ELSE 0)
      /\ \A i \in 1 .. n - (m + 1) + 1 : r[i] = q[m + 1 + i - 1]
  <2> DEFINE k == m + 1
  <2> HIDE DEF k
  <2>1. k \in Int /\ \A i \in k .. n : q[i] \in Nat
    BY <1>2 DEF k
  <2>2. /\ SubSeq(q, k, n) \in Seq(Nat) /\ Len(SubSeq(q, k, n)) = (IF k <= n THEN n - k + 1 ELSE 0)
        /\ \A i \in 1 .. n - k + 1 : SubSeq(q, k, n)[i] = q[k + i - 1]
    BY <2>1, SubSeqProperties
  <2> QED
    BY <2>2 DEF k
<1> HIDE DEF r
<1>4. (IF m + 1 <= n THEN n - (m + 1) + 1 ELSE 0) = n - m
  OBVIOUS
<1>5. ASSUME NEW i \in 1 .. n - m PROVE r[i] = b + m + i
  <2>1. i \in 1 .. n - (m + 1) + 1 /\ m + 1 + i - 1 = m + i /\ m + i \in 1 .. Len(q)
    BY <1>1
  <2>2. r[i] = q[m + i]
    BY <1>3, <2>1
  <2> QED
    BY <1>1, <2>1, <2>2
<1>6. Len(r) = n - m
  BY <1>3, <1>4
<1>7. Run(r, b + m)
  BY <1>3, <1>5, <1>6 DEF Run
<1> QED
  BY <1>6, <1>7 DEF r

LEMMA RunPrefix ==
  ASSUME NEW p, NEW q, NEW b \in Nat, Run(p, b), Run(q, b), Len(p) <= Len(q)
  PROVE  IsPrefix(p, q)
<1>1. Len(p) \in Nat /\ Len(q) \in Nat /\ 0 \in Nat
  BY RunParts
<1>2. /\ Run(SubSeq(p, 0 + 1, Len(p)), b + 0) /\ Len(SubSeq(p, 0 + 1, Len(p))) = Len(p) - 0
      /\ Run(SubSeq(q, 0 + 1, Len(p)), b + 0) /\ Len(SubSeq(q, 0 + 1, Len(p))) = Len(p) - 0
  BY <1>1, RunPart
<1>3. 0 + 1 = 1 /\ b + 0 = b /\ Len(p) - 0 = Len(p)
  BY <1>1
<1>4. SubSeq(p, 1, Len(p)) = SubSeq(q, 1, Len(p))
  BY <1>2, <1>3, RunSame
<1> QED
  BY <1>4 DEF IsPrefix

-----------------------------------------------------------------------------
(* The bytes of the peer are numbered through all connections: where those *)
(* of connection c begin                                                   *)

Base(c) == (c - 1) * InLen

LEMMA BaseType ==
  ASSUME NEW c \in 1 .. MaxConn
  PROVE  Base(c) \in Nat /\ Base(c) + InLen <= MaxConn * InLen /\ MaxConn * InLen \in Nat
<1>1. InLen \in Nat /\ MaxConn \in Nat /\ c \in Nat /\ c >= 1 /\ c <= MaxConn
  BY TcpAssumption
<1>2. \A m \in Nat, n \in Nat : m * n \in Nat
  OBVIOUS
<1>3. c - 1 \in Nat /\ MaxConn - c \in Nat
  BY <1>1
<1>4. (c - 1) * InLen \in Nat /\ (MaxConn - c) * InLen \in Nat /\ MaxConn * InLen \in Nat
  BY <1>1, <1>2, <1>3
<1>5. (c - 1) * InLen + InLen + (MaxConn - c) * InLen = MaxConn * InLen
  BY <1>1
<1> DEFINE x == (c - 1) * InLen
           y == (MaxConn - c) * InLen
           z == MaxConn * InLen
<1> HIDE DEF x, y, z
<1>6. x \in Nat /\ y \in Nat /\ z \in Nat /\ x + InLen + y = z
  BY <1>4, <1>5 DEF x, y, z
<1>7. x + InLen <= z
  BY <1>1, <1>6
<1> QED
  BY <1>6, <1>7 DEF x, z, Base

LEMMA IncomingRun ==
  ASSUME NEW c \in 1 .. MaxConn
  PROVE  Run(Incoming(c), Base(c)) /\ Len(Incoming(c)) = InLen
<1>1. Base(c) \in Nat /\ InLen \in Nat
  BY BaseType, TcpAssumption
<1>2. Incoming(c) = [i \in 1 .. InLen |-> Base(c) + i]
  BY DEF Incoming, Base
<1> QED
  BY <1>1, <1>2, RunMade

\* A stretch that ends within all the bytes there are is of the model's type.
LEMMA RunIsSome ==
  ASSUME NEW q, NEW b \in Nat, Run(q, b), NEW n \in Nat, Len(q) <= n,
         b + Len(q) <= OutLen + MaxConn * InLen
  PROVE  q \in Some(n)
<1>1. q \in Seq(Nat) /\ Len(q) \in Nat /\ \A i \in 1 .. Len(q) : q[i] = b + i
  BY RunParts
<1>2. q \in [1 .. Len(q) -> Nat]
  BY <1>1, LenProperties
<1>3. \A i \in 1 .. Len(q) : q[i] \in Byte
  <2> DEFINE z == MaxConn * InLen
  <2>1. z \in Nat
    <3>1. \A m \in Nat, k \in Nat : m * k \in Nat
      OBVIOUS
    <3> QED
      BY <3>1, TcpAssumption
  <2>2. b + Len(q) <= OutLen + z /\ OutLen \in Nat
    BY TcpAssumption
  <2> HIDE DEF z
  <2>3. \A i \in 1 .. Len(q) : b + i \in 1 .. OutLen + z
    BY <1>1, <2>1, <2>2
  <2> QED
    BY <1>1, <2>3 DEF Byte, z
<1>4. q \in [1 .. Len(q) -> Byte]
  BY <1>2, <1>3
<1>5. Len(q) \in 0 .. n
  BY <1>1
<1> QED
  BY <1>4, <1>5 DEF Some

-----------------------------------------------------------------------------
(* The stream and its peer: types first, then what they say of each other. *)

StreamT == [state : Live \cup {Failed}, owner : Apps, next_tx : SeqNo,
            acked_tx : SeqNo, next_rx : SeqNo, outgoing : Seq(Nat),
            buffer : Seq(Nat), eof : BOOLEAN, attempts : 0 .. MaxAttempts,
            ack_pending : BOOLEAN, due : BOOLEAN, fresh : BOOLEAN]
WireT == [seq : SeqNo, data : Seq(Nat)]
PeerT == [syn : BOOLEAN, ack : BOOLEAN, edge : 0 .. InLen + DataMax + 1,
          wire : SUBSET WireT, taken : Seq(Nat), acks : SUBSET SeqNo]
LineT == [s : StreamT, p : PeerT]

\* What the program has had of the peer's bytes, g, and what waits for it are
\* one stretch; next_rx is where it ends; and no more was ever invited than
\* what was read has made room for.
Heard(s, g) == Len(g) + Len(s.buffer) + (IF s.eof THEN 1 ELSE 0)
Input(s, p, c, g) ==
    /\ Run(g, Base(c)) /\ Run(s.buffer, Base(c) + Len(g))
    /\ Len(s.buffer) <= DataMax /\ Len(g) + Len(s.buffer) <= InLen
    /\ s.eof => Len(g) + Len(s.buffer) = InLen
    /\ ~s.eof => p.edge <= Len(g) + DataMax
    /\ s.state = Established => s.next_rx = Add(FirstIn, Heard(s, g))
    /\ s.state = Syn => g = <<>> /\ s.buffer = <<>> /\ ~s.eof

\* What the program has written, w bytes, what the peer has of them, and what
\* is kept until it is acknowledged.
OnWire(h, w) ==
    \E k \in 0 .. w : /\ h.seq = Add(FirstOut, k) /\ Run(h.data, k)
                      /\ k + Len(h.data) <= w /\ Len(h.data) <= DataMax
Output(s, p, w) ==
    /\ w \in 0 .. OutLen
    /\ Run(p.taken, 0) /\ Len(p.taken) <= w
    /\ Len(s.outgoing) <= DataMax /\ Len(s.outgoing) <= w
    /\ Run(s.outgoing, w - Len(s.outgoing))
    /\ \A h \in p.wire : OnWire(h, w)
    /\ \A a \in p.acks : \E k \in 0 .. Len(p.taken) : a = Add(FirstOut, k)
    /\ s.state = Established =>
          /\ s.next_tx = Add(FirstOut, w) /\ s.acked_tx = Add(FirstOut, w - Len(s.outgoing))
          /\ w - Len(s.outgoing) <= Len(p.taken)
    /\ s.state = Syn => w = 0 /\ s.outgoing = <<>> /\ s.next_tx = FirstOut

Fits(l, c, w, g) == l \in LineT /\ Input(l.s, l.p, c, g) /\ Output(l.s, l.p, w)

\* What a step may do to the bytes on either side.
Grew(l, m) ==
    /\ Len(l.p.taken) <= Len(m.p.taken) /\ Len(l.s.buffer) <= Len(m.s.buffer)
    /\ l.s.eof => m.s.eof

LEMMA LineParts ==
  ASSUME NEW l, l \in LineT
  PROVE  /\ l.s \in StreamT /\ l.p \in PeerT
         /\ l = [s |-> l.s, p |-> l.p]
         /\ Len(l.p.taken) \in Nat /\ Len(l.s.buffer) \in Nat /\ Len(l.s.outgoing) \in Nat
         /\ Grew(l, l)
<1>1. l.s \in StreamT /\ l.p \in PeerT /\ l = [s |-> l.s, p |-> l.p]
  BY DEF LineT
<1>2. l.p.taken \in Seq(Nat) /\ l.s.buffer \in Seq(Nat) /\ l.s.outgoing \in Seq(Nat)
  BY <1>1 DEF StreamT, PeerT
<1>3. Len(l.p.taken) \in Nat /\ Len(l.s.buffer) \in Nat /\ Len(l.s.outgoing) \in Nat
  BY <1>2, LenProperties
<1> QED
  BY <1>1, <1>3 DEF Grew

\* What matters of the stream is the same, or it has failed.
Alike(s, t) ==
    /\ t.next_tx = s.next_tx /\ t.acked_tx = s.acked_tx /\ t.next_rx = s.next_rx
    /\ t.outgoing = s.outgoing /\ t.buffer = s.buffer /\ t.eof = s.eof
    /\ t.state = s.state \/ t.state = Failed

LEMMA States ==
  /\ Idle # Syn /\ Idle # Established /\ Idle # Failed /\ Syn # Established
  /\ Syn # Failed /\ Established # Failed /\ Live = {Syn, Established}
BY DEF Idle, Syn, Established, Failed, Live

LEMMA AlikeFits ==
  ASSUME NEW s, NEW t, NEW p, NEW q, NEW c, NEW g, NEW w, Alike(s, t)
  PROVE  /\ Input(s, p, c, g) /\ q.edge = p.edge => Input(t, q, c, g)
         /\ Output(s, p, w) /\ q.taken = p.taken /\ q.wire = p.wire /\ q.acks = p.acks
               => Output(t, q, w)
<1>1. ASSUME Input(s, p, c, g), q.edge = p.edge PROVE Input(t, q, c, g)
  BY <1>1, States DEF Input, Alike, Heard
<1>2. ASSUME Output(s, p, w), q.taken = p.taken, q.wire = p.wire, q.acks = p.acks
      PROVE  Output(t, q, w)
  BY <1>2, States DEF Output, Alike
<1> QED
  BY <1>1, <1>2

LEMMA OffsetIs ==
  ASSUME NEW s \in StreamT, NEW p \in PeerT, NEW c, NEW g, Input(s, p, c, g),
         s.state = Established
  PROVE  /\ Offset(s) = Heard(s, g) /\ Heard(s, g) \in Position
         /\ Len(g) \in Nat /\ Len(s.buffer) \in Nat
         /\ Window(s) \in 0 .. DataMax
         /\ ~s.eof => Window(s) = DataMax - Len(s.buffer)
         /\ s.eof => Window(s) = 0
         /\ ~s.eof => Offset(s) + Window(s) = Len(g) + DataMax
         /\ Offset(s) + Window(s) \in 0 .. InLen + DataMax + 1
<1>1. Len(g) \in Nat /\ Len(s.buffer) \in Nat
  BY RunParts DEF Input
<1>2. Len(s.buffer) <= DataMax /\ Len(g) + Len(s.buffer) <= InLen
      /\ s.next_rx = Add(FirstIn, Heard(s, g))
  BY DEF Input
<1>3. Heard(s, g) \in Position /\ 0 \in Position /\ s.eof \in BOOLEAN
  BY <1>1, <1>2, Sizes, SMTT(30) DEF Heard, Position, StreamT
<1>4. FirstIn \in SeqNo /\ Add(FirstIn, 0) = FirstIn
  BY Sizes, AddCases DEF SeqNo
<1>5. Sub(Add(FirstIn, Heard(s, g)), Add(FirstIn, 0)) = Heard(s, g) - 0
  <2> DEFINE h == Heard(s, g)
  <2>1. h \in Position /\ 0 <= h
    BY <1>3 DEF Position
  <2> HIDE DEF h
  <2>2. Sub(Add(FirstIn, h), Add(FirstIn, 0)) = h - 0
    BY <1>3, <1>4, <2>1, Distance
  <2> QED
    BY <2>2 DEF h
<1>6. Offset(s) = Heard(s, g)
  BY <1>2, <1>3, <1>4, <1>5 DEF Offset, Position
<1> DEFINE h == Heard(s, g)
           v == Window(s)
           n == Len(s.buffer)
           k == Len(g)
<1>7. /\ n \in Nat /\ k \in Nat /\ n <= DataMax /\ k + n <= InLen
      /\ h = k + n + (IF s.eof THEN 1 ELSE 0)
      /\ v = IF s.eof THEN 0 ELSE DataMax - n
  BY <1>1, <1>2 DEF Heard, Window
<1>8. DataMax \in Nat /\ InLen \in Nat
  BY Sizes
<1> HIDE DEF h, v, n, k
<1>9. /\ v \in 0 .. DataMax
      /\ ~s.eof => v = DataMax - n
      /\ s.eof => v = 0
      /\ ~s.eof => h + v = k + DataMax
      /\ s.eof => h + v = k + n + 1
  BY <1>3, <1>7, <1>8
<1>10. h + v \in 0 .. InLen + DataMax + 1
  BY <1>3, <1>7, <1>8, <1>9
<1> QED
  BY <1>1, <1>3, <1>6, <1>9, <1>10 DEF h, v, n, k

\* A segment with an ACK leaves the stream as it was, and tells the peer only
\* the end of the window and the bytes it carries.
LEMMA AcknowledgingIs ==
  ASSUME NEW l, l \in LineT, NEW data \in Seq(Nat), NEW seq \in SeqNo, NEW r,
         Offset(l.s) + Window(l.s) \in 0 .. InLen + DataMax + 1
  PROVE  LET m == Acknowledging(l, data, seq, r)
         IN  /\ m \in LineT /\ Alike(l.s, m.s) /\ m.s.state = l.s.state
             /\ m.s.attempts = l.s.attempts
             /\ m.p.taken = l.p.taken /\ m.p.acks = l.p.acks
             /\ m.p.edge \in {l.p.edge, Offset(l.s) + Window(l.s)}
             /\ m.p.wire \subseteq l.p.wire \cup {[seq |-> seq, data |-> data]}
<1> DEFINE m == Acknowledging(l, data, seq, r)
           e == Offset(l.s) + Window(l.s)
<1>0. l.s \in StreamT /\ l.p \in PeerT
  BY DEF LineT
<1>1. CASE r # "sent"
  <2>1. m = l
    BY <1>1 DEF Acknowledging
  <2> QED
    BY <2>1 DEF Alike
<1>2. CASE r = "sent"
  <2> DEFINE s == [l.s EXCEPT !.ack_pending = FALSE]
             edge == IF e > l.p.edge THEN e ELSE l.p.edge
             wire == IF data = <<>> THEN l.p.wire
                     ELSE l.p.wire \cup {[seq |-> seq, data |-> data]}
             p == [l.p EXCEPT !.ack = TRUE, !.edge = edge, !.wire = wire]
  <2>1. m = [s |-> s, p |-> p]
    BY <1>2 DEF Acknowledging
  <2>2. s \in StreamT /\ Alike(l.s, s) /\ s.state = l.s.state /\ s.attempts = l.s.attempts
    BY <1>0 DEF StreamT, Alike
  <2>3. edge \in {l.p.edge, e} /\ edge \in 0 .. InLen + DataMax + 1
    BY <1>0 DEF PeerT
  <2>4. wire \subseteq l.p.wire \cup {[seq |-> seq, data |-> data]} /\ wire \in SUBSET WireT
    <3>1. l.p.wire \in SUBSET WireT /\ [seq |-> seq, data |-> data] \in WireT
      BY <1>0 DEF PeerT, WireT
    <3> QED
      BY <3>1
  <2> HIDE DEF s, edge, wire
  <2>5. p \in PeerT /\ p.taken = l.p.taken /\ p.acks = l.p.acks /\ p.edge = edge /\ p.wire = wire
    BY <1>0, <2>3, <2>4 DEF PeerT
  <2> HIDE DEF p
  <2>6. m.s = s /\ m.p = p /\ m \in LineT
    BY <2>1, <2>2, <2>5 DEF LineT
  <2> QED
    BY <2>2, <2>3, <2>4, <2>5, <2>6
<1> QED
  BY <1>1, <1>2

LEMMA AcknowledgingFits ==
  ASSUME NEW l, NEW c, NEW w, NEW g, Fits(l, c, w, g), l.s.state = Established,
         NEW data \in Seq(Nat), NEW seq \in SeqNo, NEW r, data = <<>> \/ OnWire([seq |-> seq, data |-> data], w)
  PROVE  LET m == Acknowledging(l, data, seq, r)
         IN  /\ Fits(m, c, w, g) /\ Grew(l, m) /\ m.s.state = Established
             /\ m.s.attempts = l.s.attempts
<1> DEFINE m == Acknowledging(l, data, seq, r)
<1>1. l \in LineT /\ l.s \in StreamT /\ l.p \in PeerT /\ Input(l.s, l.p, c, g) /\ Output(l.s, l.p, w)
  BY LineParts DEF Fits
<1>2. /\ Offset(l.s) + Window(l.s) \in 0 .. InLen + DataMax + 1
      /\ ~l.s.eof => Offset(l.s) + Window(l.s) = Len(g) + DataMax
      /\ Len(g) \in Nat
  BY <1>1, OffsetIs
<1>3. /\ m \in LineT /\ Alike(l.s, m.s) /\ m.s.state = l.s.state /\ m.s.attempts = l.s.attempts
      /\ m.p.taken = l.p.taken /\ m.p.acks = l.p.acks
      /\ m.p.edge \in {l.p.edge, Offset(l.s) + Window(l.s)}
      /\ m.p.wire \subseteq l.p.wire \cup {[seq |-> seq, data |-> data]}
  BY <1>1, <1>2, AcknowledgingIs
<1>4. data = <<>> => m.p.wire \subseteq l.p.wire
  BY DEF Acknowledging
<1> HIDE DEF m
<1>5. Input(m.s, l.p, c, g) /\ Output(m.s, l.p, w)
  BY <1>1, <1>3, AlikeFits
<1>6. \A h \in m.p.wire : OnWire(h, w)
  BY <1>1, <1>3, <1>4 DEF Output
<1>7. Output(m.s, m.p, w)
  BY <1>3, <1>5, <1>6 DEF Output
<1>8. ~m.s.eof => m.p.edge <= Len(g) + DataMax
  BY <1>1, <1>2, <1>3, Sizes, SMTT(30) DEF Alike, Input
<1>9. Input(m.s, m.p, c, g)
  BY <1>5, <1>8 DEF Input
<1>10. Grew(l, m)
  BY <1>1, <1>3, LineParts DEF Grew, Alike
<1> QED
  BY <1>1, <1>3, <1>7, <1>9, <1>10 DEF Fits, m

LEMMA Changed ==
  ASSUME NEW l, NEW c, NEW w, NEW g, Fits(l, c, w, g),
         NEW t \in StreamT, Alike(l.s, t), NEW q \in PeerT, q.edge = l.p.edge,
         q.taken = l.p.taken, q.wire = l.p.wire, q.acks = l.p.acks
  PROVE  Fits([s |-> t, p |-> q], c, w, g) /\ Grew(l, [s |-> t, p |-> q])
<1> DEFINE m == [s |-> t, p |-> q]
<1>1. m \in LineT /\ m.s = t /\ m.p = q
  BY DEF LineT
<1>2. Input(t, q, c, g) /\ Output(t, q, w)
  BY AlikeFits DEF Fits
<1>3. Grew(l, m)
  BY <1>1, LineParts DEF Fits, Grew, Alike
<1> QED
  BY <1>1, <1>2, <1>3 DEF Fits

LEMMA GrewFurther ==
  ASSUME NEW l, NEW m, NEW n, l \in LineT, m \in LineT, n \in LineT, Grew(l, m), Grew(m, n)
  PROVE  Grew(l, n)
<1>1. /\ Len(l.p.taken) \in Nat /\ Len(m.p.taken) \in Nat /\ Len(n.p.taken) \in Nat
      /\ Len(l.s.buffer) \in Nat /\ Len(m.s.buffer) \in Nat /\ Len(n.s.buffer) \in Nat
  BY LineParts
<1>2. \A i \in Nat, j \in Nat, k \in Nat : i <= j /\ j <= k => i <= k
  OBVIOUS
<1>3. /\ Len(l.p.taken) <= Len(m.p.taken) /\ Len(l.s.buffer) <= Len(m.s.buffer)
      /\ Len(m.p.taken) <= Len(n.p.taken) /\ Len(m.s.buffer) <= Len(n.s.buffer)
  BY DEF Grew
<1>4. Len(l.p.taken) <= Len(n.p.taken) /\ Len(l.s.buffer) <= Len(n.s.buffer)
  BY <1>1, <1>2, <1>3, Zenon
<1>5. l.s.eof => n.s.eof
  BY Zenon DEF Grew
<1> QED
  BY <1>4, <1>5 DEF Grew

LEMMA FailFits ==
  ASSUME NEW l, NEW c, NEW w, NEW g, Fits(l, c, w, g)
  PROVE  Fits(Fail(l), c, w, g) /\ Grew(l, Fail(l))
<1> DEFINE t == [l.s EXCEPT !.state = Failed, !.ack_pending = FALSE]
<1>1. l.s \in StreamT /\ l.p \in PeerT /\ l = [s |-> l.s, p |-> l.p]
  BY LineParts DEF Fits
<1>2. t \in StreamT /\ Alike(l.s, t)
  BY <1>1 DEF StreamT, Alike
<1>3. Fail(l) = [l EXCEPT !.s.state = Failed, !.s.ack_pending = FALSE]
  BY DEF Fail
<1>4. Fail(l) = [s |-> t, p |-> l.p]
  BY <1>1, <1>3
<1> HIDE DEF t
<1> QED
  BY <1>1, <1>2, <1>4, Changed

LEMMA NoBytes == <<>> \in Seq(Nat) /\ Len(<<>>) = 0
BY RunEmpty DEF Run

LEMMA tcp_ackFits ==
  ASSUME NEW l, NEW c, NEW w, NEW g, Fits(l, c, w, g), l.s.state = Established, NEW r
  PROVE  Fits(tcp_ack(l, r), c, w, g) /\ Grew(l, tcp_ack(l, r))
<1> DEFINE m == Acknowledging(l, <<>>, l.s.next_tx, r)
           t == [m.s EXCEPT !.fresh = TRUE, !.ack_pending = (r = "again")]
<1>1. l \in LineT /\ l.s \in StreamT /\ l.s.next_tx \in SeqNo
  BY LineParts DEF Fits, StreamT
<1>2. Fits(m, c, w, g) /\ Grew(l, m)
  BY <1>1, NoBytes, AcknowledgingFits
<1>3. tcp_ack(l, r) = [m EXCEPT !.s.fresh = TRUE, !.s.ack_pending = (r = "again")]
  BY DEF tcp_ack
<1> HIDE DEF m
<1>4. m \in LineT /\ m.s \in StreamT /\ m.p \in PeerT /\ m = [s |-> m.s, p |-> m.p]
  BY <1>2, LineParts DEF Fits
<1>5. t \in StreamT /\ Alike(m.s, t)
  BY <1>4 DEF StreamT, Alike
<1>6. tcp_ack(l, r) = [s |-> t, p |-> m.p]
  BY <1>3, <1>4
<1> HIDE DEF t
<1>7. Fits(tcp_ack(l, r), c, w, g) /\ Grew(m, tcp_ack(l, r)) /\ tcp_ack(l, r) \in LineT
  BY <1>2, <1>4, <1>5, <1>6, Changed DEF Fits
<1> QED
  BY <1>1, <1>2, <1>4, <1>7, GrewFurther

LEMMA SynTold ==
  ASSUME NEW l, l = [s |-> l.s, p |-> l.p], NEW v \in BOOLEAN
  PROVE  [l EXCEPT !.p.syn = v] = [s |-> l.s, p |-> [l.p EXCEPT !.syn = v]]
OBVIOUS

LEMMA RetransmitFits ==
  ASSUME NEW l, NEW c, NEW w, NEW g, Fits(l, c, w, g), l.s.state \in Live,
         l.s.attempts < MaxAttempts, NEW r \in Outcome
  PROVE  Fits(Retransmit(l, r), c, w, g) /\ Grew(l, Retransmit(l, r))
<1> DEFINE t1 == IF l.s.state = Established THEN [l.s EXCEPT !.fresh = TRUE] ELSE l.s
           l1 == [s |-> t1, p |-> l.p]
           l2 == IF l.s.state = Established
                 THEN Acknowledging(l1, l.s.outgoing, l.s.acked_tx, r)
                 ELSE [s |-> t1, p |-> [l.p EXCEPT !.syn = @ \/ r = "sent"]]
<1>0. l \in LineT /\ l.s \in StreamT /\ l.p \in PeerT /\ l = [s |-> l.s, p |-> l.p]
  BY LineParts DEF Fits
<1>1. t1 \in StreamT /\ Alike(l.s, t1) /\ t1.attempts = l.s.attempts /\ t1.state = l.s.state
  BY <1>0 DEF StreamT, Alike
<1>2. (IF l.s.state = Established THEN [l EXCEPT !.s.fresh = TRUE] ELSE l) = l1
  BY <1>0
<1>3. [l1 EXCEPT !.p.syn = @ \/ r = "sent"] = [s |-> t1, p |-> [l.p EXCEPT !.syn = @ \/ r = "sent"]]
  <2>1. l1 = [s |-> l1.s, p |-> l1.p] /\ l1.s = t1 /\ l1.p = l.p
    OBVIOUS
  <2> DEFINE v == l.p.syn \/ r = "sent"
  <2>5. v \in BOOLEAN
    BY <1>0 DEF PeerT
  <2> HIDE DEF v, l1
  <2>2. [l1 EXCEPT !.p.syn = v] = [s |-> l1.s, p |-> [l1.p EXCEPT !.syn = v]]
    BY <2>1, <2>5, SynTold
  <2>3. [l1 EXCEPT !.p.syn = v] = [s |-> t1, p |-> [l.p EXCEPT !.syn = v]]
    BY <2>1, <2>2
  <2>4. [l1 EXCEPT !.p.syn = @ \/ r = "sent"] = [l1 EXCEPT !.p.syn = v]
    BY <2>1, Zenon DEF v
  <2> QED
    BY <2>3, <2>4, Zenon DEF v
<1>4. Retransmit(l, r) = CASE r = "again" -> [l1 EXCEPT !.s.due = FALSE]
                           [] r = "nodev" -> Fail(l1)
                           [] r = "sent" -> [l2 EXCEPT !.s.attempts = @ + 1, !.s.due = FALSE]
  BY <1>2, <1>3 DEF Retransmit
<1> HIDE DEF t1
<1>5. Fits(l1, c, w, g) /\ Grew(l, l1) /\ l1 \in LineT /\ l1.s = t1 /\ l1.p = l.p
  BY <1>0, <1>1, Changed DEF Fits
<1>6. CASE r = "again"
  <2> DEFINE t == [t1 EXCEPT !.due = FALSE]
  <2>1. Retransmit(l, r) = [s |-> t, p |-> l.p]
    BY <1>4, <1>6
  <2>2. t \in StreamT /\ Alike(t1, t)
    BY <1>1 DEF StreamT, Alike
  <2> HIDE DEF t
  <2>3. Alike(l.s, t)
    BY <1>1, <2>2 DEF Alike
  <2> QED
    BY <1>0, <2>1, <2>2, <2>3, Changed
<1>7. CASE r = "nodev"
  <2>1. Retransmit(l, r) = Fail(l1)
    BY <1>4, <1>7
  <2> HIDE DEF l1
  <2>2. Fits(Fail(l1), c, w, g) /\ Grew(l1, Fail(l1)) /\ Fail(l1) \in LineT
    BY <1>5, FailFits DEF Fits
  <2> QED
    BY <1>0, <1>5, <2>1, <2>2, GrewFurther
<1>8. CASE r = "sent"
  <2>1. Fits(l2, c, w, g) /\ Grew(l, l2) /\ l2.s.attempts = l.s.attempts
    <3>1. CASE l.s.state = Established
      <4>1. l2 = Acknowledging(l1, l.s.outgoing, l.s.acked_tx, r)
        BY <3>1
      <4>2. l.s.outgoing \in Seq(Nat) /\ l.s.acked_tx \in SeqNo /\ l1.s.state = Established
        BY <1>0, <1>1, <1>5, <3>1 DEF StreamT
      <4>3. OnWire([seq |-> l.s.acked_tx, data |-> l.s.outgoing], w)
        <5> DEFINE n == Len(l.s.outgoing)
                   k == w - n
        <5>1. Run(l.s.outgoing, k) /\ n <= DataMax /\ n <= w /\ w \in Nat /\ n \in Nat
              /\ l.s.acked_tx = Add(FirstOut, k)
          <6>1. Output(l.s, l.p, w) /\ n \in Nat
            BY <1>0, LineParts DEF Fits
          <6>2. w \in Nat
            BY <6>1, Sizes DEF Output
          <6> QED
            BY <3>1, <6>1, <6>2 DEF Output
        <5> HIDE DEF n
        <5>2. k \in 0 .. w /\ k + n <= w
          BY <5>1
        <5> QED
          BY <5>1, <5>2 DEF OnWire, n
      <4> DEFINE out == l.s.outgoing
                 seq == l.s.acked_tx
      <4> HIDE DEF l1, l2
      <4>5. LET m == Acknowledging(l1, out, seq, r)
            IN  /\ Fits(m, c, w, g) /\ Grew(l1, m) /\ m.s.state = Established
                /\ m.s.attempts = l1.s.attempts
        <5>1. out \in Seq(Nat) /\ seq \in SeqNo /\ OnWire([seq |-> seq, data |-> out], w)
          BY <4>2, <4>3
        <5> HIDE DEF out, seq
        <5> QED
          BY <1>5, <4>2, <5>1, AcknowledgingFits
      <4>4. Fits(l2, c, w, g) /\ Grew(l1, l2) /\ l2.s.attempts = l1.s.attempts /\ l2 \in LineT
        BY <4>1, <4>5 DEF Fits
      <4> QED
        BY <1>0, <1>1, <1>5, <4>4, GrewFurther
    <3>2. CASE l.s.state # Established
      <4> DEFINE q == [l.p EXCEPT !.syn = @ \/ r = "sent"]
      <4>1. l2 = [s |-> t1, p |-> q]
        BY <3>2
      <4>2. q \in PeerT /\ q.edge = l.p.edge /\ q.taken = l.p.taken /\ q.wire = l.p.wire
            /\ q.acks = l.p.acks
        BY <1>0 DEF PeerT
      <4> HIDE DEF q
      <4> QED
        BY <1>0, <1>1, <4>1, <4>2, Changed
    <3> QED
      BY <3>1, <3>2
  <2>2. Retransmit(l, r) = [l2 EXCEPT !.s.attempts = @ + 1, !.s.due = FALSE]
    BY <1>4, <1>8
  <2> HIDE DEF l2
  <2> DEFINE t == [l2.s EXCEPT !.attempts = @ + 1, !.due = FALSE]
  <2>3. l2 \in LineT /\ l2.s \in StreamT /\ l2.p \in PeerT /\ l2 = [s |-> l2.s, p |-> l2.p]
    BY <2>1, LineParts DEF Fits
  <2>4. l2.s.attempts + 1 \in 0 .. MaxAttempts
    <3>1. l.s.attempts \in 0 .. MaxAttempts /\ MaxAttempts \in Nat
      BY <1>0, TcpAssumption DEF StreamT
    <3> QED
      BY <2>1, <3>1
  <2>5. t \in StreamT /\ Alike(l2.s, t)
    BY <2>3, <2>4 DEF StreamT, Alike
  <2>6. Retransmit(l, r) = [s |-> t, p |-> l2.p]
    BY <2>2, <2>3
  <2> HIDE DEF t
  <2>7. Fits(Retransmit(l, r), c, w, g) /\ Grew(l2, Retransmit(l, r)) /\ Retransmit(l, r) \in LineT
    BY <2>1, <2>3, <2>5, <2>6, Changed DEF Fits
  <2> QED
    BY <1>0, <2>1, <2>3, <2>7, GrewFurther
<1> QED
  BY <1>6, <1>7, <1>8 DEF Outcome

LEMMA tcp_retryFits ==
  ASSUME NEW l, NEW c, NEW w, NEW g, Fits(l, c, w, g), NEW r \in Outcome
  PROVE  Fits(tcp_retry(l, r), c, w, g) /\ Grew(l, tcp_retry(l, r))
<1>0. l \in LineT /\ l.s.attempts \in 0 .. MaxAttempts /\ Grew(l, l)
  BY LineParts DEF Fits, StreamT
<1>1. CASE Retrying(l.s) /\ l.s.attempts >= MaxAttempts
  BY <1>1, FailFits DEF tcp_retry
<1>2. CASE Retrying(l.s) /\ ~(l.s.attempts >= MaxAttempts)
  <2>1. l.s.attempts < MaxAttempts /\ l.s.state \in Live /\ tcp_retry(l, r) = Retransmit(l, r)
    BY <1>0, <1>2, TcpAssumption DEF tcp_retry, Retrying
  <2> QED
    BY <2>1, RetransmitFits
<1>3. CASE ~Retrying(l.s) /\ AckRetrying(l.s)
  BY <1>3, tcp_ackFits DEF tcp_retry, AckRetrying
<1>4. CASE ~Retrying(l.s) /\ ~AckRetrying(l.s)
  BY <1>0, <1>4 DEF tcp_retry
<1> QED
  BY <1>1, <1>2, <1>3, <1>4

-----------------------------------------------------------------------------
(* Segments of the peer                                                    *)

Sane(h, p, c) ==
    /\ \E k \in 0 .. Len(p.taken) : h.ack = Add(FirstOut, k)
    /\ h.kind \in {"syn", "rst", "data", "fin"}
    /\ h.kind = "syn" => h.seq = Isn
    /\ h.kind \in {"data", "fin"} =>
          \E a \in 0 .. InLen + 1 :
             /\ h.seq = Add(FirstIn, a) /\ Run(h.data, Base(c) + a)
             /\ h.data = <<>> \/ a + Len(h.data) <= InLen
             /\ h.kind = "fin" => a + Len(h.data) = InLen

LEMMA LeastIs == \A a \in Nat, b \in Nat : Least(a, b) \in Nat /\ Least(a, b) <= a /\ Least(a, b) <= b
BY DEF Least

LEMMA PieceIs ==
  ASSUME NEW c \in 1 .. MaxConn, NEW a \in Nat, NEW b \in Nat, a <= b, b <= InLen
  PROVE  Run(SubSeq(Incoming(c), a + 1, b), Base(c) + a) /\ Len(SubSeq(Incoming(c), a + 1, b)) = b - a
BY BaseType, IncomingRun, RunPart

LEMMA DataSegmentIs ==
  ASSUME NEW c \in 1 .. MaxConn, NEW edge \in Nat, NEW acks, NEW h \in DataSegments(c, edge, acks)
  PROVE  /\ h.port = c /\ h.ack \in acks /\ h.kind \in {"data", "fin"}
         /\ \E a \in 0 .. InLen + 1 :
               /\ h.seq = Add(FirstIn, a) /\ Run(h.data, Base(c) + a)
               /\ h.data = <<>> \/ a + Len(h.data) <= InLen
               /\ h.kind = "fin" => a + Len(h.data) = InLen
<1>0. InLen \in Nat /\ Base(c) \in Nat
  BY BaseType, Sizes
<1> DEFINE Ordinary == \E a \in 0 .. Least(edge, InLen), k \in acks :
              \E b \in {x \in a .. InLen : x <= edge + 1 /\ x - a <= DataMax} :
                h = Segment(c, Add(FirstIn, a), k, "data", SubSeq(Incoming(c), a + 1, b))
           Ending == \E a \in {x \in 0 .. InLen : InLen < edge /\ InLen - x <= DataMax}, k \in acks :
                h = Segment(c, Add(FirstIn, a), k, "fin", SubSeq(Incoming(c), a + 1, InLen))
           Beyond == \E k \in acks : h = Segment(c, Add(FirstIn, InLen + 1), k, "data", <<>>)
<1>1. CASE Ordinary
  <2>1. PICK a \in 0 .. Least(edge, InLen), k \in acks : \E b \in a .. InLen :
                h = Segment(c, Add(FirstIn, a), k, "data", SubSeq(Incoming(c), a + 1, b))
    BY <1>1
  <2>2. PICK b \in a .. InLen :
                h = Segment(c, Add(FirstIn, a), k, "data", SubSeq(Incoming(c), a + 1, b))
    BY <2>1
  <2>3. a \in Nat /\ b \in Nat /\ a <= b /\ b <= InLen /\ a \in 0 .. InLen + 1
    BY <1>0, LeastIs
  <2> DEFINE q == SubSeq(Incoming(c), a + 1, b)
  <2>4. Run(q, Base(c) + a) /\ Len(q) = b - a
    BY <2>3, PieceIs
  <2>5. h = Segment(c, Add(FirstIn, a), k, "data", q)
    BY <2>2
  <2> HIDE DEF q
  <2>6. a + Len(q) <= InLen
    BY <1>0, <2>3, <2>4
  <2> QED
    BY <2>3, <2>4, <2>5, <2>6 DEF Segment
<1>2. CASE Ending
  <2>1. PICK a \in 0 .. InLen, k \in acks :
             h = Segment(c, Add(FirstIn, a), k, "fin", SubSeq(Incoming(c), a + 1, InLen))
    BY <1>2
  <2>3. a \in Nat /\ a <= InLen /\ a \in 0 .. InLen + 1
    BY <1>0
  <2> DEFINE q == SubSeq(Incoming(c), a + 1, InLen)
  <2>4. Run(q, Base(c) + a) /\ Len(q) = InLen - a
    BY <1>0, <2>3, PieceIs
  <2>5. h = Segment(c, Add(FirstIn, a), k, "fin", q)
    BY <2>1
  <2> HIDE DEF q
  <2>6. a + Len(q) = InLen
    BY <1>0, <2>3, <2>4
  <2> QED
    BY <1>0, <2>3, <2>4, <2>5, <2>6 DEF Segment
<1>3. CASE Beyond
  <2>1. InLen + 1 \in 0 .. InLen + 1 /\ Run(<<>>, Base(c) + (InLen + 1))
    BY <1>0, RunEmpty
  <2> DEFINE n == InLen + 1
             f == Add(FirstIn, n)
  <2>2. PICK k \in acks : h = Segment(c, f, k, "data", <<>>)
    BY <1>3
  <2> HIDE DEF f
  <2>3. h.port = c /\ h.ack = k /\ h.kind = "data" /\ h.seq = f /\ h.data = <<>>
    BY <2>2 DEF Segment
  <2> QED
    BY <2>1, <2>3 DEF f
<1> QED
  <2> DEFINE A == UNION {{Segment(c, Add(FirstIn, a), k, "data", SubSeq(Incoming(c), a + 1, b)) :
                             b \in {x \in a .. InLen : x <= edge + 1 /\ x - a <= DataMax}} :
                            a \in 0 .. Least(edge, InLen), k \in acks}
             B == {Segment(c, Add(FirstIn, a), k, "fin", SubSeq(Incoming(c), a + 1, InLen)) :
                     a \in {x \in 0 .. InLen : InLen < edge /\ InLen - x <= DataMax}, k \in acks}
             C == {Segment(c, Add(FirstIn, InLen + 1), k, "data", <<>>) :
                     k \in IF InLen < edge THEN acks ELSE {}}
  <2>1. h \in A \/ h \in B \/ h \in C
    BY DEF DataSegments
  <2>2. h \in A => Ordinary
    OBVIOUS
  <2>3. h \in B => Ending
    OBVIOUS
  <2>4. h \in C => Beyond
    OBVIOUS
  <2> HIDE DEF A, B, C, Ordinary, Ending, Beyond
  <2> QED
    BY <1>1, <1>2, <1>3, <2>1, <2>2, <2>3, <2>4

LEMMA SegmentIs ==
  ASSUME NEW w, NEW g, Fits(Line, conn, w, g), conn \in 1 .. MaxConn, NEW h \in Current \cup Past
  PROVE  h.port # conn \/ Sane(h, peer, conn)
<1>0. Line.p = peer /\ peer \in PeerT /\ Len(peer.taken) \in Nat /\ peer.edge \in Nat
  <2>1. Line.p = peer
    BY DEF Line
  <2>2. Line.p \in PeerT /\ Len(Line.p.taken) \in Nat
    BY LineParts DEF Fits
  <2> QED
    BY <2>1, <2>2, Sizes DEF PeerT
<1>1. \A k \in peer.acks : \E n \in 0 .. Len(peer.taken) : k = Add(FirstOut, n)
  BY <1>0 DEF Fits, Output
<1>2. FirstOut = Add(FirstOut, 0) /\ 0 \in 0 .. Len(peer.taken)
  BY <1>0, Sizes, AddCases DEF SeqNo
<1>3. ASSUME h \in Past PROVE h.port # conn
  <2>1. PICK c \in 1 .. conn - 1 : h \in DataSegments(c, InLen + 1, {FirstOut})
    BY <1>3 DEF Past
  <2>2. c \in 1 .. MaxConn /\ c # conn /\ InLen + 1 \in Nat
    BY TcpAssumption
  <2>3. h.port = c
    BY <2>1, <2>2, DataSegmentIs
  <2> QED
    BY <2>2, <2>3
<1>4. ASSUME h \in DataSegments(conn, peer.edge, peer.acks) PROVE Sane(h, peer, conn)
  BY <1>0, <1>1, <1>4, DataSegmentIs DEF Sane
<1>5. ASSUME h = Segment(conn, Isn, FirstOut, "syn", <<>>) PROVE Sane(h, peer, conn)
  BY <1>2, <1>5 DEF Sane, Segment
<1>6. ASSUME NEW f, h = Segment(conn, f, FirstOut, "rst", <<>>) PROVE Sane(h, peer, conn)
  BY <1>2, <1>6 DEF Sane, Segment
<1>7. ASSUME h \in Current PROVE Sane(h, peer, conn)
  BY <1>4, <1>5, <1>6, <1>7, Zenon DEF Current
<1> QED
  BY <1>3, <1>7

\* An acknowledgement of what the peer has takes that much, and no more, from
\* what is kept.
LEMMA AckedFits ==
  ASSUME NEW s \in StreamT, NEW p, NEW w, Output(s, p, w), s.state = Established,
         NEW ack, NEW k \in 0 .. Len(p.taken), ack = Add(FirstOut, k)
  PROVE  LET t == Acked(s, ack)
         IN  /\ t \in StreamT /\ Output(t, p, w) /\ t.state = Established
             /\ t.next_rx = s.next_rx /\ t.buffer = s.buffer /\ t.eof = s.eof
             /\ t.next_tx = s.next_tx
<1> DEFINE n == Len(s.outgoing)
           a == w - n
           had == Len(p.taken)
           progress == Sub(ack, s.acked_tx)
           rest == Rest(s, progress)
           t == Acked(s, ack)
<1>0. /\ s.outgoing \in Seq(Nat) /\ n \in Nat /\ w \in Nat /\ w <= OutLen /\ n <= DataMax /\ n <= w
      /\ Run(s.outgoing, a) /\ a \in Nat /\ had \in Nat /\ k \in Nat /\ k <= had /\ had <= w
      /\ a <= had /\ OutLen \in Nat
  <2>1. s.outgoing \in Seq(Nat) /\ n \in Nat /\ had \in Nat
    BY RunParts DEF Output
  <2>3. k \in 0 .. had
    OBVIOUS
  <2>2. w \in 0 .. OutLen /\ n <= DataMax /\ n <= w /\ Run(s.outgoing, a) /\ had <= w /\ a <= had
    BY DEF Output
  <2> HIDE DEF n, had
  <2> QED
    BY <2>1, <2>2, <2>3, Sizes
<1>1. /\ s.acked_tx = Add(FirstOut, a) /\ s.next_tx = Add(FirstOut, w)
  BY DEF Output
<1> HIDE DEF n, a, had
<1>2. a \in Position /\ w \in Position /\ k \in Position
  BY <1>0, Sizes DEF Position
<1>3. /\ ack \in SeqNo
      /\ a <= k => progress = k - a
      /\ k < a => Ahead(s.acked_tx, ack)
      /\ ~Ahead(ack, s.next_tx)
  <2>1. k < a => Ahead(s.acked_tx, ack)
    BY <1>1, <1>2, Sizes, Distance
  <2>2. k <= w
    BY <1>0
  <2>3. ~Ahead(ack, s.next_tx)
    BY <1>1, <1>2, <2>2, Sizes, Distance
  <2>4. a <= k => progress = k - a
    BY <1>1, <1>2, Sizes, Distance
  <2> QED
    BY <1>2, <2>1, <2>3, <2>4, Sizes, Distance
<1>4. CASE Ahead(s.acked_tx, ack)
  <2>1. t = s
    BY <1>4 DEF Acked
  <2> QED
    BY <2>1
<1>5. CASE ~Ahead(s.acked_tx, ack)
  <2>1. a <= k /\ progress = k - a /\ progress \in Nat
    BY <1>0, <1>3, <1>5
  <2>2. CASE progress \in 1 .. n
    <3> DEFINE tries == IF rest = <<>> THEN 0 ELSE 1
               u == [s EXCEPT !.acked_tx = ack, !.outgoing = rest, !.due = FALSE,
                              !.attempts = tries]
    <3>1. t = u
      BY <1>3, <1>5, <2>2 DEF Acked, n
    <3>2. progress <= n /\ n <= Len(s.outgoing) /\ a + progress = k
      BY <1>0, <2>1, <2>2 DEF n
    <3>3. Run(rest, a + progress) /\ Len(rest) = n - progress
      <4> HIDE DEF progress
      <4> DEFINE out == s.outgoing
      <4>2. Run(out, a) /\ n \in Nat /\ a \in Nat /\ progress \in Nat /\ progress <= n /\ n <= Len(out)
        BY <1>0, <2>1, <3>2
      <4> HIDE DEF out
      <4>3. Run(SubSeq(out, progress + 1, n), a + progress)
            /\ Len(SubSeq(out, progress + 1, n)) = n - progress
        BY <4>2, RunPart
      <4>1. Run(SubSeq(s.outgoing, progress + 1, n), a + progress)
            /\ Len(SubSeq(s.outgoing, progress + 1, n)) = n - progress
        BY <4>3 DEF out
      <4> QED
        BY <4>1 DEF Rest, n
    <3>4. rest \in Seq(Nat) /\ tries \in 0 .. MaxAttempts
      BY <3>3, RunParts, TcpAssumption
    <3> HIDE DEF rest, tries
    <3>5. /\ u \in StreamT /\ u.state = s.state /\ u.next_rx = s.next_rx /\ u.buffer = s.buffer
          /\ u.eof = s.eof /\ u.next_tx = s.next_tx /\ u.acked_tx = ack /\ u.outgoing = rest
      BY <1>3, <3>4 DEF StreamT
    <3> HIDE DEF u
    <3>6. Len(u.outgoing) <= DataMax /\ Len(u.outgoing) <= w /\ w - Len(u.outgoing) = k
      <4> DEFINE r == Len(rest)
      <4>1. r = n - progress /\ w - n = a
        BY <3>3 DEF a
      <4> HIDE DEF r, progress
      <4>2. r <= DataMax /\ r <= w /\ w - r = k
        BY <1>0, <2>1, <3>2, <4>1, Sizes
      <4> QED
        BY <3>5, <4>2 DEF r
    <3>7. Run(u.outgoing, w - Len(u.outgoing))
      BY <3>2, <3>3, <3>5, <3>6
    <3>8. /\ u.next_tx = Add(FirstOut, w) /\ u.acked_tx = Add(FirstOut, w - Len(u.outgoing))
          /\ w - Len(u.outgoing) <= Len(p.taken)
      BY <1>0, <1>1, <3>5, <3>6 DEF had
    <3>9. Output(u, p, w)
      BY <3>5, <3>6, <3>7, <3>8, States DEF Output
    <3> QED
      BY <3>1, <3>5, <3>9
  <2>3. CASE progress \notin 1 .. n
    <3> DEFINE u == [s EXCEPT !.acked_tx = ack]
    <3>1. t = u
      BY <1>3, <1>5, <2>3 DEF Acked, n
    <3>2. progress = 0 /\ k = a
      <4> HIDE DEF progress
      <4>1. w - n = a
        BY DEF a
      <4> QED
        BY <1>0, <2>1, <2>3, <4>1
    <3>3. ack = s.acked_tx
      BY <1>1, <3>2
    <3>4. u = s
      BY <3>3 DEF StreamT
    <3> QED
      BY <3>1, <3>4
  <2> QED
    BY <2>2, <2>3
<1> QED
  BY <1>4, <1>5 DEF t

LEMMA RunNothing ==
  ASSUME NEW q, NEW b, Run(q, b), Len(q) = 0, NEW d PROVE Run(q, d)
<1>1. q \in Seq(Nat) /\ \A i \in 1 .. Len(q) : q[i] = d + i
  BY DEF Run
<1> QED
  BY <1>1 DEF Run

New(s, h) == SubSeq(h.data, Skip(s, h) + 1, Skip(s, h) + Accepted(s, h))
Ends(s, h) ==
    h.kind = "fin" /\ Skip(s, h) + Accepted(s, h) = Len(h.data) /\ Accepted(s, h) < Window(s)

\* What is taken of a segment continues what was received, it fits into the
\* buffer, and the end is seen only after the last byte.
LEMMA TakeFits ==
  ASSUME NEW s \in StreamT, NEW p \in PeerT, NEW c \in 1 .. MaxConn, NEW g, Input(s, p, c, g),
         s.state = Established,
         NEW h, NEW a \in 0 .. InLen + 1, h.seq = Add(FirstIn, a), Run(h.data, Base(c) + a),
         h.data = <<>> \/ a + Len(h.data) <= InLen, h.kind = "fin" => a + Len(h.data) = InLen,
         Add(h.seq, Skip(s, h)) = s.next_rx
  PROVE  LET q == s.buffer \o New(s, h)
             eof == s.eof \/ Ends(s, h)
             rx == Add(s.next_rx, Accepted(s, h))
         IN  /\ Run(q, Base(c) + Len(g)) /\ Len(s.buffer) <= Len(q) /\ Len(q) <= DataMax
             /\ Len(g) + Len(q) <= InLen /\ (eof => Len(g) + Len(q) = InLen)
             /\ rx \in SeqNo /\ Add(rx, 1) \in SeqNo
             /\ ~Ends(s, h) => rx = Add(FirstIn, Len(g) + Len(q) + (IF s.eof THEN 1 ELSE 0))
             /\ Ends(s, h) => Add(rx, 1) = Add(FirstIn, Len(g) + Len(q) + 1) /\ ~s.eof
<1> DEFINE b == Len(s.buffer)
           k == Len(g)
           N == Heard(s, g)
           L == Len(h.data)
           v == Window(s)
           skip == Skip(s, h)
           x == Accepted(s, h)
           B == Base(c)
           data == h.data
           new == SubSeq(data, skip + 1, skip + x)
           q == s.buffer \o new
           rx == Add(s.next_rx, x)
<1>0. /\ B \in Nat /\ InLen \in Nat /\ DataMax \in Nat /\ FirstIn \in SeqNo
      /\ a \in Nat /\ a <= InLen + 1 /\ a \in Position
  <2>1. B \in Nat
    BY BaseType
  <2>2. InLen \in Nat /\ DataMax \in Nat /\ FirstIn \in SeqNo
    BY Sizes
  <2>3. a \in Nat /\ a <= InLen + 1
    BY <2>2
  <2>4. a \in Position
    <3>1. Farthest = DataMax + OutLen + InLen + 2 /\ OutLen \in Nat
      BY Sizes
    <3>2. a <= Farthest - 1
      BY <2>2, <2>3, <3>1
    <3> QED
      BY <2>3, <3>1, <3>2 DEF Position
  <2> QED
    BY <2>1, <2>2, <2>3, <2>4
<1>1. /\ N \in Position /\ k \in Nat /\ b \in Nat /\ v \in Nat
      /\ b <= DataMax /\ k + b <= InLen
      /\ ~s.eof => v = DataMax - b /\ N = k + b
      /\ s.eof => v = 0 /\ N = k + b + 1 /\ k + b = InLen
      /\ s.next_rx = Add(FirstIn, N) /\ s.next_rx \in SeqNo
      /\ Run(s.buffer, B + k)
  <2>1. /\ N \in Position /\ k \in Nat /\ b \in Nat /\ v \in 0 .. DataMax
        /\ ~s.eof => v = DataMax - b
        /\ s.eof => v = 0
    BY OffsetIs
  <2>2. /\ b <= DataMax /\ k + b <= InLen
        /\ s.eof => k + b = InLen
        /\ s.next_rx = Add(FirstIn, N) /\ s.next_rx \in SeqNo
        /\ Run(s.buffer, B + k)
    BY DEF Input, StreamT
  <2>3. N = k + b + (IF s.eof THEN 1 ELSE 0)
    BY DEF Heard
  <2> HIDE DEF N, k, b, v
  <2> QED
    BY <2>1, <2>2, <2>3
<1>2. L \in Nat /\ Run(data, B + a)
  BY RunParts
<1>3. skip \in Nat /\ skip <= L
  <2>1. h.seq \in SeqNo /\ SeqNo \subseteq Nat
    BY <1>0, Sizes, Distance DEF SeqNo
  <2>2. Sub(s.next_rx, h.seq) \in Nat
    BY <1>1, <2>1, SubCases
  <2>3. 0 \in Nat /\ 0 <= L
    BY <1>2
  <2> QED
    BY <1>2, <2>2, <2>3, LeastIs DEF Skip
<1>4. x \in Nat /\ x <= L - skip /\ x <= v
  <2>1. L - skip \in Nat
    BY <1>2, <1>3
  <2> QED
    BY <1>1, <2>1, LeastIs DEF Accepted
<1>5. data = <<>> => L = 0
  BY NoBytes
<1>6. (data = <<>> \/ a + L <= InLen) /\ (h.kind = "fin" => a + L = InLen) /\ Add(h.seq, skip) = s.next_rx
  OBVIOUS
<1> HIDE DEF b, k, N, L, v, skip, x, B, data
<1>7. a + skip = N
  <2>5. L = 0 \/ a + L <= InLen
    BY <1>5, <1>6
  <2>6. a + skip <= InLen + 1
    BY <1>0, <1>2, <1>3, <2>5
  <2> DEFINE i == a + skip
  <2>7. i \in Nat /\ i <= InLen + 1
    BY <1>0, <1>3, <2>6
  <2>8. i \in Position
    <3> HIDE DEF i
    <3> QED
      BY <2>7, Sizes DEF Position
  <2>1. a + skip \in Position /\ a \in Position
    BY <1>0, <2>8
  <2>2. Add(Add(FirstIn, a), skip) = Add(FirstIn, a + skip)
    BY <1>0, <1>3, <2>1, Further
  <2>3. Add(FirstIn, i) = Add(FirstIn, N) /\ i \in Position
    BY <1>1, <1>6, <2>1, <2>2
  <2> HIDE DEF i
  <2>4. i = N
    BY <1>0, <1>1, <2>3, Distance
  <2> QED
    BY <2>4 DEF i
<1>8. Run(new, B + N) /\ Len(new) = x
  <2> DEFINE d == B + a
             n == skip + x
  <2>1. d \in Nat /\ n \in Nat /\ skip <= n /\ n <= Len(data) /\ Run(data, d)
    BY <1>0, <1>2, <1>3, <1>4 DEF L, data
  <2>2. n - skip = x /\ d + skip = B + N
    BY <1>0, <1>2, <1>3, <1>4, <1>7
  <2> HIDE DEF d, n
  <2>3. Run(SubSeq(data, skip + 1, n), d + skip) /\ Len(SubSeq(data, skip + 1, n)) = n - skip
    BY <1>3, <2>1, RunPart
  <2> QED
    BY <2>2, <2>3 DEF n
<1>9. x > 0 => ~s.eof /\ N = k + b /\ b + x <= DataMax /\ k + b + x <= InLen
  BY <1>0, <1>1, <1>2, <1>3, <1>4, <1>5, <1>6, <1>7
<1>10. Run(new, B + k + b)
  <2>1. CASE x > 0
    <3>1. B + k + b = B + N
      BY <1>0, <1>1, <1>9, <2>1
    <3> QED
      BY <1>8, <3>1
  <2>2. CASE x = 0
    BY <1>8, <2>2, RunNothing
  <2> QED
    BY <1>4, <2>1, <2>2
<1> HIDE DEF new
<1>11. Run(q, B + k) /\ Len(q) = b + x
  <2> DEFINE d == B + k
             e == B + k + b
  <2>3. d \in Nat /\ e = d + b
    BY <1>0, <1>1
  <2>1. d \in Nat /\ e = d + Len(s.buffer) /\ Run(s.buffer, d) /\ Run(new, e)
    BY <1>1, <1>10, <2>3 DEF b
  <2> HIDE DEF d, e
  <2>2. Run(s.buffer \o new, d) /\ Len(s.buffer \o new) = Len(s.buffer) + Len(new)
    BY <2>1, RunJoined
  <2> QED
    BY <1>8, <2>2 DEF d, b
<1>12. b <= b + x /\ b + x <= DataMax /\ k + (b + x) <= InLen /\ (s.eof => k + (b + x) = InLen)
  BY <1>0, <1>1, <1>4, <1>9
<1>13. rx = Add(FirstIn, N + x) /\ N + x \in Position
  <2>1. N + x \in Position
    BY <1>0, <1>1, <1>4, <1>12, Sizes DEF Position
  <2>2. Add(Add(FirstIn, N), x) = Add(FirstIn, N + x)
    BY <1>0, <1>1, <1>4, <2>1, Further
  <2> QED
    BY <1>1, <2>1, <2>2
<1>14. ASSUME h.kind = "fin", skip + x = L, x < v
       PROVE  ~s.eof /\ N = k + b /\ k + (b + x) = InLen /\ N + x = InLen /\ Add(rx, 1) = Add(FirstIn, InLen + 1)
  <2>1. ~s.eof /\ N = k + b
    BY <1>1, <1>4, <1>14
  <2>2. N + x = InLen /\ k + (b + x) = InLen
    BY <1>0, <1>1, <1>2, <1>3, <1>4, <1>6, <1>7, <1>14, <2>1
  <2>3. InLen \in Position /\ InLen + 1 \in Position
    BY <1>0, Sizes DEF Position
  <2>4. Add(Add(FirstIn, InLen), 1) = Add(FirstIn, InLen + 1)
    BY <1>0, <2>3, Further
  <2> QED
    BY <1>13, <2>1, <2>2, <2>4
<1>15. rx \in SeqNo /\ Add(rx, 1) \in SeqNo
  <2>1. rx \in SeqNo
    <3> DEFINE i == N + x
    <3> HIDE DEF i
    <3>1. i \in Position /\ rx = Add(FirstIn, i)
      BY <1>13 DEF i
    <3> QED
      BY <1>0, <3>1, Distance
  <2> HIDE DEF rx
  <2>2. 1 \in Nat /\ 1 <= SeqSpace
    BY Sizes
  <2> QED
    BY <2>1, <2>2, AddCases
<1>16. ~s.eof => N + x = k + (b + x)
  BY <1>1, <1>4
<1>17. s.eof => N + x = k + (b + x) + 1
  BY <1>1, <1>4
<1>18. s.eof \in BOOLEAN
  BY DEF StreamT
<1> DEFINE y == b + x
<1> HIDE DEF q, rx
<1>19. Ends(s, h) => h.kind = "fin" /\ skip + x = L /\ x < v
  BY DEF Ends, skip, x, L, v
<1>20. y = Len(q)
  BY <1>11
<1>21. /\ Run(q, B + k) /\ b <= y /\ y <= DataMax
       /\ k + y <= InLen /\ (s.eof \/ Ends(s, h) => k + y = InLen)
       /\ ~Ends(s, h) => rx = Add(FirstIn, k + y + (IF s.eof THEN 1 ELSE 0))
       /\ Ends(s, h) => Add(rx, 1) = Add(FirstIn, k + y + 1) /\ ~s.eof
  <2>1. s.eof \/ Ends(s, h) => k + y = InLen
    BY <1>12, <1>14, <1>19
  <2>2. s.eof => rx = Add(FirstIn, k + y + 1)
    BY <1>13, <1>17
  <2>3. ~s.eof => rx = Add(FirstIn, k + y + 0)
    <3>1. ~s.eof => N + x = k + y + 0
      BY <1>0, <1>1, <1>4, <1>16
    <3> QED
      BY <1>13, <3>1
  <2>4. Ends(s, h) => Add(rx, 1) = Add(FirstIn, k + y + 1) /\ ~s.eof
    BY <1>14, <1>19
  <2> QED
    BY <1>11, <1>12, <1>18, <2>1, <2>2, <2>3, <2>4
<1> HIDE DEF y
<1>22. /\ Run(q, B + k) /\ b <= Len(q) /\ Len(q) <= DataMax
       /\ k + Len(q) <= InLen /\ (s.eof \/ Ends(s, h) => k + Len(q) = InLen)
       /\ ~Ends(s, h) => rx = Add(FirstIn, k + Len(q) + (IF s.eof THEN 1 ELSE 0))
       /\ Ends(s, h) => Add(rx, 1) = Add(FirstIn, k + Len(q) + 1) /\ ~s.eof
  BY <1>20, <1>21
<1> QED
  BY <1>15, <1>22 DEF q, rx, new, New, data, skip, x, k, b, B

\* What a segment makes of the stream, for one that the peer may have sent.
Taken(s, h, p, c, w, g, i) ==
    /\ i.s \in StreamT /\ Input(i.s, p, c, g) /\ Output(i.s, p, w)
    /\ Len(s.buffer) <= Len(i.s.buffer) /\ (s.eof => i.s.eof)
    /\ i.ack => i.s.state = Established

LEMMA LeftAlone ==
  ASSUME NEW s \in StreamT, NEW p \in PeerT, NEW c, NEW w, NEW g, NEW h,
         Input(s, p, c, g), Output(s, p, w)
  PROVE  /\ Taken(s, h, p, c, w, g, Ignored(s))
         /\ Taken(s, h, p, c, w, g, Refused(s))
         /\ s.state = Established => Taken(s, h, p, c, w, g, Rejected(s))
<1>0. s.buffer \in Seq(Nat) /\ Len(s.buffer) \in Nat /\ Len(s.buffer) <= Len(s.buffer)
  <2>1. s.buffer \in Seq(Nat)
    BY DEF StreamT
  <2>2. Len(s.buffer) \in Nat
    BY <2>1, LenProperties
  <2> QED
    BY <2>1, <2>2
<1>1. Taken(s, h, p, c, w, g, Ignored(s))
  BY <1>0 DEF Taken, Ignored
<1>2. Taken(s, h, p, c, w, g, Refused(s))
  <2> DEFINE t == [s EXCEPT !.state = Failed, !.ack_pending = FALSE]
  <2>1. t \in StreamT /\ Alike(s, t) /\ t.buffer = s.buffer /\ t.eof = s.eof
    BY DEF StreamT, Alike
  <2>2. Refused(s) = [s |-> t, ack |-> FALSE]
    BY DEF Refused, Ignored
  <2> HIDE DEF t
  <2>3. Input(t, p, c, g) /\ Output(t, p, w)
    BY <2>1, AlikeFits
  <2> QED
    BY <1>0, <2>1, <2>2, <2>3 DEF Taken
<1>3. s.state = Established => Taken(s, h, p, c, w, g, Rejected(s))
  BY <1>0 DEF Taken, Rejected
<1> QED
  BY <1>1, <1>2, <1>3

LEMMA InEstablishedFits ==
  ASSUME NEW s \in StreamT, NEW p \in PeerT, NEW c \in 1 .. MaxConn, NEW w, NEW g, NEW h,
         Input(s, p, c, g), Output(s, p, w), s.state = Established, Sane(h, p, c)
  PROVE  Taken(s, h, p, c, w, g, InEstablished(s, h))
<1> DEFINE s1 == Acked(s, h.ack)
           s2 == [s1 EXCEPT !.buffer = @ \o New(s, h), !.next_rx = Add(@, Accepted(s, h))]
           s3 == IF Ends(s, h) THEN [s2 EXCEPT !.next_rx = Add(@, 1), !.eof = TRUE] ELSE s2
           i == InEstablished(s, h)
           answer == Len(h.data) > 0 \/ h.kind = "fin"
<1>1. /\ s1 \in StreamT /\ Output(s1, p, w) /\ s1.state = Established
      /\ s1.next_rx = s.next_rx /\ s1.buffer = s.buffer /\ s1.eof = s.eof
  <2>1. PICK k \in 0 .. Len(p.taken) : h.ack = Add(FirstOut, k)
    BY DEF Sane
  <2> DEFINE x == h.ack
  <2>2. x = Add(FirstOut, k)
    BY <2>1
  <2> HIDE DEF x
  <2>3. LET t == Acked(s, x)
        IN  /\ t \in StreamT /\ Output(t, p, w) /\ t.state = Established
            /\ t.next_rx = s.next_rx /\ t.buffer = s.buffer /\ t.eof = s.eof
            /\ t.next_tx = s.next_tx
    BY <2>2, AckedFits
  <2> QED
    BY <2>3 DEF x
<1>2. Input(s1, p, c, g)
  BY <1>1 DEF Input, Heard
<1>3. h.kind \in {"rst", "syn", "data", "fin"}
  BY DEF Sane
<1>4. CASE h.kind = "rst"
  <2>1. i = Ignored(s) \/ i = Refused(s)
    BY <1>4 DEF InEstablished
  <2> QED
    BY <2>1, LeftAlone
<1>5. CASE h.kind = "syn"
  <2>1. i = Rejected(s)
    BY <1>5 DEF InEstablished
  <2> QED
    BY <2>1, LeftAlone
<1>6. CASE h.kind \in {"data", "fin"}
  <2>1. i = IF ~Acceptable(s, h) \/ Ahead(h.ack, s.next_tx) THEN Rejected(s)
            ELSE IF Add(h.seq, Skip(s, h)) # s.next_rx THEN Rejected(s1)
            ELSE [s |-> s3, ack |-> answer]
    <3>1. h.kind # "rst" /\ h.kind # "syn"
      BY <1>6
    <3> QED
      BY <3>1 DEF InEstablished, New, Ends
  <2>2. CASE i = Rejected(s)
    BY <2>2, LeftAlone
  <2>3. CASE i = Rejected(s1)
    <3>1. Taken(s1, h, p, c, w, g, Rejected(s1))
      BY <1>1, <1>2, LeftAlone
    <3> HIDE DEF s1
    <3> QED
      BY <1>1, <2>3, <3>1 DEF Taken, Rejected
  <2>4. CASE Add(h.seq, Skip(s, h)) = s.next_rx /\ i = [s |-> s3, ack |-> answer]
    <3>1. PICK a \in 0 .. InLen + 1 :
             /\ h.seq = Add(FirstIn, a) /\ Run(h.data, Base(c) + a)
             /\ h.data = <<>> \/ a + Len(h.data) <= InLen
             /\ h.kind = "fin" => a + Len(h.data) = InLen
      BY <1>6 DEF Sane
    <3> DEFINE q == s.buffer \o New(s, h)
               rx == Add(s.next_rx, Accepted(s, h))
    <3>2. /\ Run(q, Base(c) + Len(g)) /\ Len(s.buffer) <= Len(q) /\ Len(q) <= DataMax
          /\ Len(g) + Len(q) <= InLen /\ (s.eof \/ Ends(s, h) => Len(g) + Len(q) = InLen)
          /\ rx \in SeqNo /\ Add(rx, 1) \in SeqNo
          /\ ~Ends(s, h) => rx = Add(FirstIn, Len(g) + Len(q) + (IF s.eof THEN 1 ELSE 0))
          /\ Ends(s, h) => Add(rx, 1) = Add(FirstIn, Len(g) + Len(q) + 1) /\ ~s.eof
      BY <2>4, <3>1, TakeFits
    <3>3. q \in Seq(Nat)
      BY <3>2, RunParts
    <3>4. s2 = [s1 EXCEPT !.buffer = q, !.next_rx = rx]
      BY <1>1
    <3> HIDE DEF q, rx, s1
    <3>5. /\ s2 \in StreamT /\ s2.state = Established /\ s2.buffer = q /\ s2.next_rx = rx
          /\ s2.eof = s.eof /\ s2.outgoing = s1.outgoing /\ s2.next_tx = s1.next_tx
          /\ s2.acked_tx = s1.acked_tx
      BY <1>1, <3>2, <3>3, <3>4 DEF StreamT
    <3> HIDE DEF s2
    <3> DEFINE r3 == IF Ends(s, h) THEN Add(rx, 1) ELSE rx
               e3 == IF Ends(s, h) THEN TRUE ELSE s.eof
    <3>6. /\ s3 \in StreamT /\ s3.state = Established /\ s3.buffer = q
          /\ s3.next_rx = r3
          /\ s3.eof = e3 /\ s3.outgoing = s1.outgoing /\ s3.next_tx = s1.next_tx
          /\ s3.acked_tx = s1.acked_tx
      <4>1. CASE Ends(s, h)
        <5>1. s3 = [s2 EXCEPT !.next_rx = Add(rx, 1), !.eof = TRUE]
          BY <3>5, <4>1
        <5>2. e3 = TRUE /\ r3 = Add(rx, 1)
          BY <4>1
        <5> QED
          BY <3>2, <3>5, <5>1, <5>2 DEF StreamT
      <4>2. CASE ~Ends(s, h)
        <5>1. s3 = s2 /\ r3 = rx /\ e3 = s.eof
          BY <4>2
        <5> HIDE DEF r3, e3, s3
        <5> QED
          BY <3>5, <5>1
      <4> QED
        BY <4>1, <4>2
    <3> HIDE DEF s3
    <3>7. s3.next_rx = Add(FirstIn, Len(g) + Len(q) + (IF s3.eof THEN 1 ELSE 0))
      <4>1. CASE Ends(s, h)
        BY <3>2, <3>6, <4>1
      <4>2. CASE ~Ends(s, h)
        BY <3>2, <3>6, <4>2
      <4> QED
        BY <4>1, <4>2
    <3>8. Input(s3, p, c, g)
      <4>1. s3.eof => Len(g) + Len(q) = InLen
        BY <3>2, <3>6
      <4>2. ~s3.eof => p.edge <= Len(g) + DataMax
        BY <3>6 DEF Input
      <4>3. s3.next_rx = Add(FirstIn, Heard(s3, g))
        BY <3>6, <3>7 DEF Heard
      <4>4. Run(g, Base(c))
        BY DEF Input
      <4> QED
        BY <3>2, <3>6, <4>1, <4>2, <4>3, <4>4, States DEF Input
    <3>9. Output(s3, p, w)
      BY <1>1, <3>6, States DEF Output
    <3> HIDE DEF answer
    <3>10. i.s = s3 /\ (s.eof => s3.eof)
      <4>1. i.s = s3
        BY <2>4
      <4>2. s.eof => s3.eof
        BY <3>2, <3>6
      <4> QED
        BY <4>1, <4>2
    <3> QED
      BY <3>2, <3>6, <3>8, <3>9, <3>10 DEF Taken
  <2> HIDE DEF i, s3, s1, answer
  <2> QED
    BY <2>1, <2>2, <2>3, <2>4
<1> QED
  BY <1>3, <1>4, <1>5, <1>6

LEMMA InSynSentFits ==
  ASSUME NEW s \in StreamT, NEW p \in PeerT, NEW c \in 1 .. MaxConn, NEW w, NEW g, NEW h,
         Input(s, p, c, g), Output(s, p, w), s.state = Syn, Sane(h, p, c)
  PROVE  Taken(s, h, p, c, w, g, InSynSent(s, h))
<1> DEFINE t == [s EXCEPT !.next_rx = Add(h.seq, 1), !.acked_tx = h.ack, !.state = Established]
           i == InSynSent(s, h)
<1>1. \/ i = Ignored(s) \/ i = Refused(s)
      \/ (h.ack = s.next_tx /\ h.kind = "syn" /\ i = Rejected(t))
  BY DEF InSynSent
<1>2. CASE i = Ignored(s) \/ i = Refused(s)
  BY <1>2, LeftAlone
<1>3. CASE h.ack = s.next_tx /\ h.kind = "syn" /\ i = Rejected(t)
  <2>1. /\ w = 0 /\ s.outgoing = <<>> /\ s.next_tx = FirstOut
        /\ g = <<>> /\ s.buffer = <<>> /\ ~s.eof
    BY DEF Input, Output
  <2>2. h.seq = Isn /\ Add(Isn, 1) = FirstIn /\ h.ack = FirstOut
    BY <1>3, <2>1 DEF Sane, FirstIn
  <2>3. /\ t \in StreamT /\ t.state = Established /\ t.next_rx = FirstIn /\ t.acked_tx = FirstOut
        /\ t.next_tx = FirstOut /\ t.outgoing = <<>> /\ t.buffer = <<>> /\ t.eof = s.eof
    BY <2>1, <2>2, Sizes, States DEF StreamT
  <2> HIDE DEF t
  <2>4. FirstIn = Add(FirstIn, 0) /\ FirstOut = Add(FirstOut, 0)
    BY Sizes, AddCases DEF SeqNo
  <2>5. Heard(t, g) = 0
    BY <2>1, <2>3, NoBytes DEF Heard
  <2>6. Input(t, p, c, g)
    BY <2>1, <2>3, <2>4, <2>5, States DEF Input
  <2>7. w - Len(t.outgoing) = 0 /\ 0 <= Len(p.taken)
    <3>1. Len(p.taken) \in Nat
      BY RunParts DEF Output
    <3>2. Len(t.outgoing) = 0
      BY <2>3, NoBytes
    <3> QED
      BY <2>1, <3>1, <3>2
  <2>8. Output(t, p, w)
    BY <2>1, <2>3, <2>4, <2>7, States DEF Output
  <2>9. Taken(t, h, p, c, w, g, Rejected(t))
    BY <2>3, <2>6, <2>8, LeftAlone
  <2> QED
    BY <1>3, <2>1, <2>3, <2>9 DEF Taken
<1> QED
  BY <1>1, <1>2, <1>3

LEMMA tcp_inputFits ==
  ASSUME NEW s \in StreamT, NEW p \in PeerT, conn \in 1 .. MaxConn, NEW w, NEW g, NEW h,
         Input(s, p, conn, g), Output(s, p, w), h.port # conn \/ Sane(h, p, conn)
  PROVE  Taken(s, h, p, conn, w, g, tcp_input(s, h))
<1>1. CASE s.state \notin Live \/ h.port # conn
  BY <1>1, LeftAlone, States DEF tcp_input
<1>2. CASE s.state = Syn /\ h.port = conn
  BY <1>2, InSynSentFits, States DEF tcp_input
<1>3. CASE s.state = Established /\ h.port = conn
  BY <1>3, InEstablishedFits, States DEF tcp_input
<1> QED
  BY <1>1, <1>2, <1>3, States

LEMMA ReceivedFits ==
  ASSUME NEW w, NEW g, NEW h, NEW r, Fits(Line, conn, w, g), conn \in 1 .. MaxConn,
         h.port # conn \/ Sane(h, peer, conn)
  PROVE  Fits(Received(Line, h, r), conn, w, g) /\ Grew(Line, Received(Line, h, r))
<1> DEFINE l == Line
           i == tcp_input(l.s, h)
           m == [s |-> i.s, p |-> l.p]
<1>1. l \in LineT /\ l.s \in StreamT /\ l.p \in PeerT /\ l = [s |-> l.s, p |-> l.p] /\ l.p = peer
      /\ Input(l.s, l.p, conn, g) /\ Output(l.s, l.p, w)
  BY LineParts DEF Fits, Line
<1>2. Len(l.p.taken) \in Nat
  BY <1>1, LineParts
<1> HIDE DEF l
<1>3. Taken(l.s, h, l.p, conn, w, g, i)
  BY <1>1, tcp_inputFits
<1>4. Received(l, h, r) = IF i.ack THEN tcp_ack(m, r) ELSE m
  <2>1. [l EXCEPT !.s = i.s] = m
    BY <1>1
  <2> QED
    BY <2>1 DEF Received
<1> HIDE DEF i
<1>5. Fits(m, conn, w, g) /\ Grew(l, m) /\ m \in LineT /\ m.s = i.s
  BY <1>1, <1>2, <1>3 DEF Taken, Fits, Grew, LineT
<1>6. CASE i.ack
  <2>1. m.s.state = Established
    BY <1>3, <1>5, <1>6 DEF Taken
  <2> HIDE DEF m
  <2>2. Fits(tcp_ack(m, r), conn, w, g) /\ Grew(m, tcp_ack(m, r)) /\ tcp_ack(m, r) \in LineT
    BY <1>5, <2>1, tcp_ackFits DEF Fits
  <2>3. Grew(l, tcp_ack(m, r))
    BY <1>1, <1>5, <2>2, GrewFurther
  <2> QED
    BY <1>4, <1>6, <2>2, <2>3 DEF l
<1>7. CASE ~i.ack
  BY <1>4, <1>5, <1>7 DEF l
<1> QED
  BY <1>6, <1>7

-----------------------------------------------------------------------------
(* The invariant of the stream, and the kinds of steps it makes            *)

StreamInv ==
    /\ conn \in 0 .. MaxConn /\ goodbye \in {"none", "fin", "lost"}
    /\ stream.state = Idle => stream = NoStream /\ peer = NoPeer /\ wrote = 0 /\ got = <<>>
    /\ stream.state # Idle => conn \in 1 .. MaxConn /\ Fits(Line, conn, wrote, got)

Kept == UNCHANGED tcp
Moved ==
    /\ stream.state # Idle /\ UNCHANGED <<conn, goodbye>>
    /\ Fits(Line', conn, wrote', got') /\ wrote <= wrote'
    /\ Len(peer.taken) <= Len(peer'.taken) /\ (stream.eof => stream'.eof)
    /\ Len(got) + Len(stream.buffer) <= Len(got') + Len(stream'.buffer)
Opened ==
    /\ stream.state = Idle /\ conn < MaxConn /\ conn' = conn + 1
    /\ UNCHANGED <<goodbye, wrote, got>>
    /\ Fits(Line', conn', 0, <<>>) /\ stream'.buffer = <<>> /\ ~stream'.eof
Dropped ==
    /\ stream.state # Idle
    /\ \/ Forget("lost")
       \/ Forget("fin") /\ stream.state = Established /\ stream.acked_tx = stream.next_tx

StreamStep == Kept \/ Moved \/ Opened \/ Dropped

LEMMA LineIs ==
  /\ Line.s = stream /\ Line.p = peer /\ Line'.s = stream' /\ Line'.p = peer'
  /\ Line' = [s |-> stream', p |-> peer']
BY DEF Line

\* A step that only adds to what was received and arrived.
LEMMA GrewMoved ==
  ASSUME StreamInv, stream.state # Idle, NEW m, Become(m), Fits(m, conn, wrote, got), Grew(Line, m),
         UNCHANGED <<conn, wrote, got, goodbye>>
  PROVE  Moved
<1>1. stream' = m.s /\ peer' = m.p /\ m \in LineT /\ Line \in LineT
  BY DEF Become, Fits, StreamInv
<1>2. m = Line'
  BY <1>1, LineIs, LineParts
<1>3. Len(stream.buffer) \in Nat /\ Len(stream'.buffer) \in Nat /\ Len(got) \in Nat /\ wrote \in Nat
  <2>1. Len(Line.s.buffer) \in Nat /\ Len(m.s.buffer) \in Nat
    BY <1>1, LineParts
  <2>2. Len(got) \in Nat /\ wrote \in 0 .. OutLen
    BY RunParts DEF Fits, Input, Output
  <2> QED
    BY <1>1, <2>1, <2>2, LineIs, Sizes
<1>4. /\ Len(peer.taken) <= Len(peer'.taken) /\ (stream.eof => stream'.eof)
      /\ Len(stream.buffer) <= Len(stream'.buffer)
  BY <1>1, LineIs DEF Grew
<1>5. Len(got) + Len(stream.buffer) <= Len(got') + Len(stream'.buffer) /\ wrote <= wrote'
  BY <1>3, <1>4
<1>6. Fits(Line', conn, wrote', got')
  BY <1>2
<1> QED
  BY <1>4, <1>5, <1>6 DEF Moved

LEMMA RetryStep ==
  ASSUME StreamInv, NEW r \in Outcome, TcpRetry(r)
  PROVE  StreamStep
<1>1. CASE stream.state = Idle
  <2>1. tcp_retry(Line, r) = Line
    BY <1>1, InputKeepsIdle
  <2> QED
    BY <2>1, LineIs DEF TcpRetry, Become, StreamStep, Kept, tcp
<1>2. CASE stream.state # Idle
  <2>1. Fits(tcp_retry(Line, r), conn, wrote, got) /\ Grew(Line, tcp_retry(Line, r))
    BY <1>2, tcp_retryFits DEF StreamInv
  <2>2. Become(tcp_retry(Line, r)) /\ UNCHANGED <<conn, wrote, got, goodbye>>
    BY DEF TcpRetry
  <2> QED
    BY <1>2, <2>1, <2>2, GrewMoved DEF StreamStep
<1> QED
  BY <1>1, <1>2

LEMMA FrameStep ==
  ASSUME StreamInv, NEW h \in Current \cup Past, TcpReceive(h) \/ TcpPollFrame(h)
  PROVE  StreamStep
<1>0. {"sent"} \subseteq Outcome /\ UNCHANGED <<conn, wrote, got, goodbye>>
  BY DEF Outcome, TcpReceive, TcpPollFrame
<1>1. PICK r1 \in Outcome, r2 \in Outcome :
         \/ Become(Received(Line, h, r1))
         \/ Become(tcp_retry(Received(Line, h, r1), r2))
  <2>1. CASE TcpReceive(h)
    BY <1>0, <2>1 DEF TcpReceive
  <2>2. CASE TcpPollFrame(h)
    BY <1>0, <2>2 DEF TcpPollFrame
  <2> QED
    BY <2>1, <2>2
<1>2. CASE stream.state = Idle
  <2>1. Received(Line, h, r1) = Line /\ tcp_retry(Line, r2) = Line
    BY <1>2, InputKeepsIdle
  <2> QED
    BY <1>0, <1>1, <2>1, LineIs DEF Become, StreamStep, Kept, tcp
<1>3. CASE stream.state # Idle
  <2> DEFINE m == Received(Line, h, r1)
             n == tcp_retry(m, r2)
  <2>1. conn \in 1 .. MaxConn /\ Fits(Line, conn, wrote, got)
    BY <1>3 DEF StreamInv
  <2>2. h.port # conn \/ Sane(h, peer, conn)
    BY <2>1, SegmentIs
  <2>3. Fits(m, conn, wrote, got) /\ Grew(Line, m)
    BY <2>1, <2>2, ReceivedFits
  <2> HIDE DEF m
  <2>4. Fits(n, conn, wrote, got) /\ Grew(m, n)
    BY <2>3, tcp_retryFits
  <2> HIDE DEF n
  <2>5. Grew(Line, n)
    BY <2>1, <2>3, <2>4, GrewFurther DEF Fits
  <2>6. Become(m) \/ Become(n)
    BY <1>1 DEF m, n
  <2> QED
    BY <1>0, <1>3, <2>3, <2>4, <2>5, <2>6, GrewMoved DEF StreamStep
<1> QED
  BY <1>2, <1>3

LEMMA TickStep ==
  ASSUME StreamInv, NEW late \in BOOLEAN, TcpTick(late)
  PROVE  StreamStep
<1> DEFINE due == stream.due \/ late
           t == [stream EXCEPT !.fresh = FALSE, !.due = due]
           m == [s |-> t, p |-> peer]
<1>1. stream.state # Idle /\ stream' = t /\ UNCHANGED <<conn, peer, wrote, got, goodbye>>
  BY States DEF TcpTick
<1>2. stream \in StreamT /\ peer \in PeerT /\ Fits(Line, conn, wrote, got)
  BY <1>1, LineParts, LineIs DEF StreamInv, Fits
<1>3. due \in BOOLEAN
  BY <1>2 DEF StreamT
<1> HIDE DEF due
<1>4. t \in StreamT /\ Alike(stream, t)
  BY <1>2, <1>3 DEF StreamT, Alike
<1> HIDE DEF t
<1>5. Fits(m, conn, wrote, got) /\ Grew(Line, m)
  BY <1>2, <1>4, LineIs, Changed
<1>6. Become(m)
  BY <1>1 DEF Become
<1> QED
  BY <1>1, <1>5, <1>6, GrewMoved DEF StreamStep

LEMMA ForgetStep ==
  ASSUME stream.state # Idle, Forget("lost")
  PROVE  StreamStep
BY DEF StreamStep, Dropped

LEMMA CloseStep ==
  ASSUME NEW a \in Apps, TcpClose(a) \/ TcpReport(a)
  PROVE  StreamStep
BY States DEF TcpClose, TcpReport, StreamStep, Dropped

LEMMA DropStep ==
  ASSUME DropStream PROVE StreamStep
BY DEF DropStream, StreamStep, Dropped, Kept

LEMMA OnWireStill ==
  ASSUME NEW h, NEW w \in Nat, NEW v \in Nat, w <= v, OnWire(h, w) PROVE OnWire(h, v)
<1>1. PICK k \in 0 .. w : /\ h.seq = Add(FirstOut, k) /\ Run(h.data, k)
                          /\ k + Len(h.data) <= w /\ Len(h.data) <= DataMax
  BY DEF OnWire
<1>2. Len(h.data) \in Nat /\ k \in 0 .. v
  BY <1>1, RunParts
<1>3. k + Len(h.data) <= v
  BY <1>1, <1>2
<1> QED
  BY <1>1, <1>2, <1>3 DEF OnWire

Sent(l, o, x, d) ==
    [l EXCEPT !.s.outgoing = o, !.s.next_tx = x, !.s.attempts = 1, !.s.due = d]
SentBytes(s, o, x, d) ==
    [s EXCEPT !.outgoing = o, !.next_tx = x, !.attempts = 1, !.due = d]

LEMMA SentLine ==
  ASSUME NEW l, l = [s |-> l.s, p |-> l.p], NEW o, NEW x, NEW d
  PROVE  Sent(l, o, x, d) = [s |-> SentBytes(l.s, o, x, d), p |-> l.p]
<1> DEFINE s1 == [l.s EXCEPT !.outgoing = o]
           s2 == [s1 EXCEPT !.next_tx = x]
           s3 == [s2 EXCEPT !.attempts = 1]
           s4 == [s3 EXCEPT !.due = d]
           l1 == [l EXCEPT !.s.outgoing = o]
           l2 == [l1 EXCEPT !.s.next_tx = x]
           l3 == [l2 EXCEPT !.s.attempts = 1]
           l4 == [l3 EXCEPT !.s.due = d]
<1>1. l1 = [s |-> s1, p |-> l.p]
  OBVIOUS
<1> HIDE DEF l1, s1
<1>2. l2 = [s |-> s2, p |-> l.p]
  BY <1>1
<1> HIDE DEF l2, s2
<1>3. l3 = [s |-> s3, p |-> l.p]
  BY <1>2
<1> HIDE DEF l3, s3
<1>4. l4 = [s |-> s4, p |-> l.p]
  BY <1>3
<1>5. Sent(l, o, x, d) = l4
  BY Zenon DEF l4, l3, l2, l1, Sent
<1>6. SentBytes(l.s, o, x, d) = s4
  BY Zenon DEF s4, s3, s2, s1, SentBytes
<1> QED
  BY <1>4, <1>5, <1>6

\* When everything is acknowledged, everything has arrived.
LEMMA AllArrived ==
  ASSUME NEW s \in StreamT, NEW p, NEW w, Output(s, p, w), s.state = Established,
         s.acked_tx = s.next_tx
  PROVE  Len(p.taken) = w
<1> DEFINE n == Len(s.outgoing)
           k == w - n
           T == Len(p.taken)
<1>1. /\ s.acked_tx = Add(FirstOut, k) /\ s.next_tx = Add(FirstOut, w) /\ k <= T
      /\ n \in Nat /\ n <= w /\ T \in Nat /\ T <= w /\ w \in 0 .. OutLen
  BY RunParts DEF Output
<1> HIDE DEF n, T
<1>2. k \in Nat /\ k <= w /\ w \in Nat /\ w <= OutLen
  BY <1>1, Sizes
<1> HIDE DEF k
<1>3. k \in Position /\ w \in Position
  BY <1>2, Sizes DEF Position
<1>4. k = w
  BY <1>1, <1>3, Sizes, Distance
<1>5. T = w
  BY <1>1, <1>2, <1>4
<1> QED
  BY <1>5 DEF T

LEMMA SendStep ==
  ASSUME StreamInv, NEW a \in Apps, TcpSend(a)
  PROVE  StreamStep
<1>1. /\ stream.state = Established /\ stream.state # Idle /\ stream.acked_tx = stream.next_tx
      /\ UNCHANGED <<conn, got, goodbye>>
  BY States DEF TcpSend
<1>2. /\ Line \in LineT /\ stream \in StreamT /\ peer \in PeerT /\ conn \in 1 .. MaxConn
      /\ Input(stream, peer, conn, got) /\ Output(stream, peer, wrote)
  BY <1>1, LineParts, LineIs DEF StreamInv, Fits
<1> DEFINE data(n) == [i \in 1 .. n |-> wrote + i]
           m(n) == Acknowledging(Line, data(n), stream.next_tx, "sent")
           e(n) == [m(n) EXCEPT !.s.outgoing = data(n), !.s.next_tx = Add(@, n),
                                !.s.attempts = 1, !.s.due = FALSE]
<1>3. PICK n \in 1 .. DataMax : wrote + n <= OutLen /\ Become(e(n)) /\ wrote' = wrote + n
  BY DEF TcpSend
<1> DEFINE out == data(n)
           seq == stream.next_tx
           l == Acknowledging(Line, out, seq, "sent")
           x == Add(seq, n)
           t == SentBytes(l.s, out, x, FALSE)
           w == wrote + n
<1>4. /\ wrote \in Nat /\ n \in Nat /\ w \in Nat /\ w <= OutLen /\ n <= DataMax /\ wrote <= w
      /\ Len(peer.taken) \in Nat /\ Len(peer.taken) <= wrote
      /\ wrote \in Position /\ w \in Position
  <2>1. wrote \in 0 .. OutLen /\ Len(peer.taken) \in Nat /\ Len(peer.taken) <= wrote
    BY <1>2, RunParts DEF Output
  <2>2. OutLen \in Nat /\ DataMax \in Nat
    BY Sizes
  <2>3. /\ wrote \in Nat /\ n \in Nat /\ w \in Nat /\ w <= OutLen /\ n <= DataMax /\ wrote <= w
    BY <1>3, <2>1, <2>2
  <2> HIDE DEF w
  <2> QED
    BY <2>1, <2>2, <2>3, Sizes DEF Position
<1>5. Run(out, wrote) /\ Len(out) = n /\ out \in Seq(Nat)
  BY <1>4, RunMade, RunParts
<1>6. seq \in SeqNo /\ seq = Add(FirstOut, wrote) /\ Add(seq, n) = Add(FirstOut, w) /\ Add(seq, n) \in SeqNo
  <2>1. seq \in SeqNo /\ seq = Add(FirstOut, wrote)
    BY <1>1, <1>2 DEF Output, StreamT
  <2> HIDE DEF seq
  <2>2. Add(Add(FirstOut, wrote), n) = Add(FirstOut, w)
    BY <1>4, Sizes, Further
  <2>3. Add(FirstOut, w) \in SeqNo
    <3> HIDE DEF w
    <3> QED
      BY <1>4, Sizes, Distance
  <2> QED
    BY <2>1, <2>2, <2>3
\* Everything before has arrived.
<1>7. wrote <= Len(peer.taken)
  BY <1>1, <1>2, <1>4, AllArrived
<1>8. /\ Offset(stream) + Window(stream) \in 0 .. InLen + DataMax + 1
      /\ ~stream.eof => Offset(stream) + Window(stream) = Len(got) + DataMax
  BY <1>1, <1>2, OffsetIs
<1> DEFINE o == Offset(stream) + Window(stream)
<1> HIDE DEF out, seq, w
<1>9. /\ l \in LineT /\ Alike(stream, l.s) /\ l.s.state = stream.state
      /\ l.p.taken = peer.taken /\ l.p.acks = peer.acks
      /\ l.p.edge \in {peer.edge, o}
      /\ l.p.wire \subseteq peer.wire \cup {[seq |-> seq, data |-> out]}
  BY <1>2, <1>5, <1>6, <1>8, LineIs, AcknowledgingIs, SMTT(30)
<1>10. Become([l EXCEPT !.s.outgoing = out, !.s.next_tx = Add(@, n), !.s.attempts = 1, !.s.due = FALSE])
  BY <1>3 DEF out, seq
<1> HIDE DEF l
<1>11. l.s \in StreamT /\ l.p \in PeerT /\ l = [s |-> l.s, p |-> l.p]
  BY <1>9, LineParts
<1>12. l.s.next_tx = seq /\ l.s.acked_tx = stream.acked_tx /\ l.s.next_rx = stream.next_rx
       /\ l.s.buffer = stream.buffer /\ l.s.eof = stream.eof
  BY <1>9 DEF Alike, seq
<1>13. stream' = t /\ peer' = l.p
  <2>1. [l EXCEPT !.s.outgoing = out, !.s.next_tx = Add(@, n), !.s.attempts = 1, !.s.due = FALSE]
          = [l EXCEPT !.s.outgoing = out, !.s.next_tx = x, !.s.attempts = 1, !.s.due = FALSE]
    <3>1. Add(l.s.next_tx, n) = x
      BY <1>12
    <3> HIDE DEF x
    <3> QED
      BY <3>1, Zenon
  <2>2. [l EXCEPT !.s.outgoing = out, !.s.next_tx = x, !.s.attempts = 1, !.s.due = FALSE]
          = [s |-> t, p |-> l.p]
    <3> DEFINE d == FALSE
    <3> HIDE DEF x, d
    <3>1. Sent(l, out, x, d) = [s |-> SentBytes(l.s, out, x, d), p |-> l.p]
      BY <1>11, SentLine
    <3> QED
      BY <3>1, Zenon DEF Sent, d
  <2> HIDE DEF t
  <2> QED
    BY <1>10, <2>1, <2>2, ZenonT(40) DEF Become
<1> HIDE DEF x
<1>20. 1 \in 0 .. MaxAttempts /\ x \in SeqNo
  BY <1>6, TcpAssumption DEF x
<1>14. /\ t \in StreamT /\ t.state = Established /\ t.next_tx = x /\ t.outgoing = out
       /\ t.acked_tx = stream.acked_tx /\ t.next_rx = stream.next_rx
       /\ t.buffer = stream.buffer /\ t.eof = stream.eof
  BY <1>1, <1>5, <1>9, <1>11, <1>12, <1>20 DEF StreamT, SentBytes
<1> HIDE DEF t
<1>15. Output(t, l.p, w)
  <2>1. \A h \in l.p.wire : OnWire(h, w)
    <3>1. OnWire([seq |-> seq, data |-> out], w)
      <4>1. wrote \in 0 .. w /\ wrote + Len(out) <= w /\ Len(out) <= DataMax
        BY <1>4, <1>5 DEF w
      <4> QED
        BY <1>5, <1>6, <4>1 DEF OnWire
    <3>2. \A h \in peer.wire : OnWire(h, w)
      BY <1>2, <1>4, OnWireStill DEF Output
    <3> QED
      BY <1>9, <3>1, <3>2
  <2>2. w - Len(t.outgoing) = wrote /\ Len(t.outgoing) <= w /\ Len(t.outgoing) <= DataMax
        /\ w \in 0 .. OutLen /\ Len(peer.taken) <= w
    <3>1. Len(t.outgoing) = n
      BY <1>5, <1>14
    <3> QED
      BY <1>4, <3>1, Sizes DEF w
  <2>3. Run(peer.taken, 0) /\ \A b \in peer.acks : \E k \in 0 .. Len(peer.taken) : b = Add(FirstOut, k)
    BY <1>2 DEF Output
  <2>4. t.next_tx = Add(FirstOut, w) /\ t.acked_tx = Add(FirstOut, wrote)
    BY <1>1, <1>6, <1>14 DEF x, seq
  <2>5. Run(t.outgoing, w - Len(t.outgoing))
    BY <1>5, <1>14, <2>2
  <2>6. t.acked_tx = Add(FirstOut, w - Len(t.outgoing)) /\ w - Len(t.outgoing) <= Len(l.p.taken)
    BY <1>7, <1>9, <2>2, <2>4
  <2>7. t.state # Syn
    BY <1>14, States
  <2> QED
    BY <1>9, <2>1, <2>2, <2>3, <2>4, <2>5, <2>6, <2>7 DEF Output
<1>16. Input(t, l.p, conn, got)
  <2>1. ~t.eof => l.p.edge <= Len(got) + DataMax
    <3>1. ~stream.eof => peer.edge <= Len(got) + DataMax
      BY <1>2 DEF Input
    <3>2. ~stream.eof => o <= Len(got) + DataMax
      <4>1. Len(got) \in Nat
        BY <1>2, RunParts DEF Input
      <4> QED
        BY <1>8, <4>1, Sizes
    <3> HIDE DEF o
    <3> QED
      BY <1>9, <1>14, <3>1, <3>2
  <2> QED
    BY <1>1, <1>2, <1>14, <2>1, States DEF Input, Heard
<1>17. Fits(Line', conn', wrote', got')
  <2>1. [s |-> t, p |-> l.p] \in LineT
    BY <1>11, <1>14 DEF LineT
  <2>2. Line' = [s |-> t, p |-> l.p] /\ wrote' = w
    BY <1>3, <1>13, LineIs DEF w
  <2>3. Line'.s = t /\ Line'.p = l.p
    BY <2>2
  <2>4. conn' = conn /\ got' = got
    BY <1>1
  <2> QED
    BY <1>15, <1>16, <2>1, <2>2, <2>3, <2>4 DEF Fits
<1>18. Len(got) \in Nat /\ Len(stream.buffer) \in Nat
  BY <1>2, RunParts DEF Input
<1>19. Moved
  <2>1. Len(peer.taken) <= Len(peer'.taken)
    BY <1>4, <1>9, <1>13
  <2>2. Len(got) + Len(stream.buffer) <= Len(got') + Len(stream'.buffer)
    BY <1>1, <1>13, <1>14, <1>18
  <2>3. wrote <= wrote' /\ (stream.eof => stream'.eof)
    BY <1>3, <1>4, <1>13, <1>14 DEF w
  <2> QED
    BY <1>1, <1>17, <2>1, <2>2, <2>3 DEF Moved
<1> QED
  BY <1>19 DEF StreamStep

LEMMA RecvStep ==
  ASSUME StreamInv, NEW a \in Apps, TcpRecv(a)
  PROVE  StreamStep
<1>1. stream.state = Established /\ stream.state # Idle /\ UNCHANGED <<conn, wrote, goodbye>>
  BY States DEF TcpRecv
<1>2. /\ Line \in LineT /\ stream \in StreamT /\ peer \in PeerT /\ conn \in 1 .. MaxConn
      /\ Input(stream, peer, conn, got) /\ Output(stream, peer, wrote)
      /\ Line = [s |-> stream, p |-> peer]
  BY <1>1, LineParts, LineIs DEF StreamInv, Fits, Line
<1>3. PICK n \in 1 .. Len(stream.buffer), r \in Outcome :
         /\ got' = got \o SubSeq(stream.buffer, 1, n)
         /\ Become(tcp_ack([Line EXCEPT !.s.buffer = SubSeq(@, n + 1, Len(@))], r))
  BY DEF TcpRecv
<1> DEFINE b == Len(stream.buffer)
           k == Len(got)
           B == Base(conn)
           head == SubSeq(stream.buffer, 1, n)
           tail == SubSeq(stream.buffer, n + 1, b)
           g == got \o head
           t == [stream EXCEPT !.buffer = tail]
           m == [s |-> t, p |-> peer]
           l == tcp_ack(m, r)
<1>4. /\ b \in Nat /\ k \in Nat /\ B \in Nat /\ n \in Nat /\ 1 <= n /\ n <= b
      /\ Run(got, B) /\ Run(stream.buffer, B + k) /\ b <= DataMax /\ k + b <= InLen
  <2>1. b \in Nat /\ k \in Nat /\ B \in Nat
    BY <1>2, RunParts, BaseType DEF Input
  <2>2. Run(got, B) /\ Run(stream.buffer, B + k) /\ b <= DataMax /\ k + b <= InLen
    BY <1>2 DEF Input
  <2> QED
    BY <2>1, <2>2
<1>5. /\ Run(head, B + k) /\ Len(head) = n
      /\ Run(tail, B + k + n) /\ Len(tail) = b - n
  <2> DEFINE d == B + k
             q == stream.buffer
  <2>1. d \in Nat /\ 0 \in Nat /\ Run(q, d) /\ b = Len(q)
    BY <1>4
  <2> DEFINE z == 0
  <2>5. z \in Nat /\ z + 1 = 1 /\ d + z = d /\ n - z = n /\ z <= n
    BY <1>4, <2>1
  <2> HIDE DEF d, q, b, z
  <2>2. /\ Run(SubSeq(q, z + 1, n), d + z) /\ Len(SubSeq(q, z + 1, n)) = n - z
    BY <1>4, <2>1, <2>5, RunPart, SMTT(30)
  <2>3. /\ Run(SubSeq(q, n + 1, b), d + n) /\ Len(SubSeq(q, n + 1, b)) = b - n
    BY <1>4, <2>1, RunPart
  <2> QED
    BY <2>2, <2>3, <2>5 DEF d, q
<1> HIDE DEF head, tail
<1>6. Run(g, B) /\ Len(g) = k + n
  <2> DEFINE c == B + k
  <2>1. c = B + Len(got)
    BY <1>4
  <2> HIDE DEF c
  <2>2. Run(head, c)
    BY <1>5 DEF c
  <2> HIDE DEF B, k
  <2>3. Run(got \o head, B) /\ Len(got \o head) = Len(got) + Len(head)
    BY <1>4, <2>1, <2>2, RunJoined
  <2> QED
    BY <1>5, <2>3 DEF k
<1>7. tail \in Seq(Nat)
  BY <1>5, RunParts
<1>8. /\ t \in StreamT /\ t.buffer = tail /\ t.state = stream.state /\ t.next_tx = stream.next_tx
      /\ t.acked_tx = stream.acked_tx /\ t.next_rx = stream.next_rx
      /\ t.outgoing = stream.outgoing /\ t.eof = stream.eof
  BY <1>2, <1>7 DEF StreamT
<1> HIDE DEF t, g
<1>9. Input(t, peer, conn, g)
  <2> DEFINE y == Len(t.buffer)
             z == Len(g)
  <2>1. y = b - n /\ z = k + n
    BY <1>5, <1>6, <1>8
  <2>2. Run(t.buffer, B + z)
    <3>1. B + z = B + k + n
      BY <1>4, <2>1
    <3> QED
      BY <1>5, <1>8, <3>1
  <2> HIDE DEF y, z, b, k
  <2>3. y <= DataMax /\ z + y = k + b /\ k <= z
    BY <1>4, <2>1, Sizes
  <2>4. z + y <= InLen
    BY <1>4, <2>3
  <2>5. Heard(t, g) = Heard(stream, got)
    BY <1>8, <2>3 DEF Heard, y, z, k, b
  <2>6. ~t.eof => peer.edge <= z + DataMax
    <3>1. ~stream.eof => peer.edge <= k + DataMax
      BY <1>2 DEF Input, k
    <3>2. peer.edge \in Nat /\ DataMax \in Nat /\ z \in Nat
      BY <1>2, <1>4, <2>1, Sizes DEF PeerT
    <3>3. k + DataMax <= z + DataMax
      BY <1>4, <2>3, <3>2
    <3> QED
      BY <1>4, <1>8, <3>1, <3>2, <3>3
  <2>7. t.eof => z + y = InLen
    <3>1. stream.eof => k + b = InLen
      BY <1>2 DEF Input, k, b
    <3> QED
      BY <1>8, <2>3, <3>1
  <2>8. t.next_rx = Add(FirstIn, Heard(t, g))
    BY <1>1, <1>2, <1>8, <2>5 DEF Input
  <2>9. t.state = Established
    BY <1>1, <1>8
  <2> QED
    BY <1>6, <2>2, <2>3, <2>4, <2>6, <2>7, <2>8, <2>9, States DEF Input, y, z
<1>10. Output(t, peer, wrote)
  BY <1>2, <1>8 DEF Output
<1>11. Fits(m, conn, wrote, g) /\ m.s = t /\ m.p = peer /\ m \in LineT
  BY <1>2, <1>8, <1>9, <1>10 DEF Fits, LineT
<1>12. [Line EXCEPT !.s.buffer = SubSeq(@, n + 1, Len(@))] = m
  <2>1. [Line EXCEPT !.s.buffer = SubSeq(@, n + 1, Len(@))] = [Line EXCEPT !.s.buffer = tail]
    BY LineIs DEF tail
  <2>2. [Line EXCEPT !.s.buffer = tail] = m
    BY <1>2, LineIs DEF t
  <2> QED
    BY <2>1, <2>2
<1> HIDE DEF m
<1>13. Fits(l, conn, wrote, g) /\ Grew(m, l) /\ l \in LineT
  BY <1>1, <1>8, <1>11, tcp_ackFits DEF Fits
<1>14. Become(l) /\ got' = g
  BY <1>3, <1>12 DEF g, head
<1> HIDE DEF l
<1>15. stream' = l.s /\ peer' = l.p /\ Line' = l
  BY <1>13, <1>14, LineIs, LineParts DEF Become
<1>16. Fits(Line', conn', wrote', got')
  BY <1>1, <1>13, <1>14, <1>15
<1>17. /\ Len(peer.taken) <= Len(peer'.taken) /\ (stream.eof => stream'.eof)
       /\ Len(tail) <= Len(stream'.buffer)
  BY <1>8, <1>11, <1>13, <1>15 DEF Grew
<1>18. Len(got) + Len(stream.buffer) <= Len(got') + Len(stream'.buffer)
  <2> DEFINE y == Len(stream'.buffer)
  <2>1. y \in Nat /\ b - n <= y /\ Len(got') = k + n
    BY <1>5, <1>6, <1>13, <1>14, <1>15, <1>17, LineParts
  <2> HIDE DEF y, b, k
  <2>2. k + b <= (k + n) + y
    BY <1>4, <2>1
  <2> QED
    BY <2>1, <2>2 DEF y, b, k
<1>19. wrote <= wrote'
  BY <1>1, <1>2, Sizes DEF Output
<1> QED
  BY <1>1, <1>16, <1>17, <1>18, <1>19 DEF Moved, StreamStep

\* The first transmission of a SYN touches no bytes.
LEMMA RetransmitSyn ==
  ASSUME NEW l, l \in LineT, l.s.state = Syn, NEW r \in Outcome
  PROVE  Retransmit(l, r).s.buffer = l.s.buffer /\ Retransmit(l, r).s.eof = l.s.eof
<1>1. l.s \in StreamT /\ l.p \in PeerT /\ l = [s |-> l.s, p |-> l.p] /\ l.s.state # Established
  BY LineParts, States
<1> DEFINE l2 == [l EXCEPT !.p.syn = @ \/ r = "sent"]
<1>2. Retransmit(l, r) = CASE r = "again" -> [l EXCEPT !.s.due = FALSE]
                           [] r = "nodev" -> Fail(l)
                           [] r = "sent" -> [l2 EXCEPT !.s.attempts = @ + 1, !.s.due = FALSE]
  BY <1>1 DEF Retransmit
<1>3. CASE r = "again"
  <2>1. Retransmit(l, r) = [l EXCEPT !.s.due = FALSE]
    BY <1>2, <1>3
  <2> QED
    BY <1>1, <2>1 DEF StreamT
<1>4. CASE r = "nodev"
  <2> DEFINE f == [l.s EXCEPT !.state = Failed, !.ack_pending = FALSE]
  <2>1. Retransmit(l, r) = [l EXCEPT !.s.state = Failed, !.s.ack_pending = FALSE]
    BY <1>2, <1>4 DEF Fail
  <2>2. Retransmit(l, r) = [s |-> f, p |-> l.p]
    BY <1>1, <2>1
  <2>3. f.buffer = l.s.buffer /\ f.eof = l.s.eof
    BY <1>1 DEF StreamT
  <2> HIDE DEF f
  <2> QED
    BY <2>2, <2>3
<1>5. CASE r = "sent"
  <2>1. Retransmit(l, r) = [l2 EXCEPT !.s.attempts = @ + 1, !.s.due = FALSE]
    BY <1>2, <1>5
  <2>2. l2.s = l.s /\ l2 = [s |-> l.s, p |-> l2.p]
    <3> DEFINE v == l.p.syn \/ r = "sent"
    <3>1. v \in BOOLEAN
      BY <1>1 DEF PeerT
    <3>2. l2 = [l EXCEPT !.p.syn = v]
      BY Zenon
    <3> HIDE DEF v, l2
    <3>3. l2 = [s |-> l.s, p |-> [l.p EXCEPT !.syn = v]]
      BY <1>1, <3>1, <3>2, SynTold
    <3> QED
      BY <3>3
  <2> HIDE DEF l2
  <2> DEFINE t == [l2.s EXCEPT !.attempts = @ + 1, !.due = FALSE]
  <2>3. l2 = [s |-> l2.s, p |-> l2.p]
    BY <2>2
  <2>4. Retransmit(l, r) = [s |-> t, p |-> l2.p]
    BY <2>1, <2>3
  <2>5. t.buffer = l.s.buffer /\ t.eof = l.s.eof
    BY <1>1, <2>2 DEF StreamT
  <2> HIDE DEF t
  <2> QED
    BY <2>4, <2>5
<1> QED
  BY <1>3, <1>4, <1>5 DEF Outcome

LEMMA OpenStep ==
  ASSUME StreamInv, NEW a \in Apps, TcpOpen(a)
  PROVE  StreamStep
<1> DEFINE s == [state |-> Syn, owner |-> a, next_tx |-> FirstOut,
                 acked_tx |-> Isn, next_rx |-> 0, outgoing |-> <<>>,
                 buffer |-> <<>>, eof |-> FALSE, attempts |-> 0,
                 ack_pending |-> FALSE, due |-> TRUE, fresh |-> FALSE]
           l == [s |-> s, p |-> NoPeer]
<1>1. PICK r \in Outcome : Become(tcp_retry(l, r))
  BY DEF TcpOpen
<1>2. stream.state = Idle /\ conn < MaxConn /\ conn' = conn + 1 /\ UNCHANGED <<wrote, got, goodbye>>
  BY DEF TcpOpen
<1>3. wrote = 0 /\ got = <<>> /\ conn' \in 1 .. MaxConn
  BY <1>2, TcpAssumption DEF StreamInv
<1>4. /\ s \in StreamT /\ s.state = Syn /\ s.next_tx = FirstOut /\ s.outgoing = <<>>
      /\ s.buffer = <<>> /\ s.eof = FALSE /\ s.attempts = 0 /\ s.due = TRUE
  <2>1. 0 \in SeqNo /\ 0 \in 0 .. MaxAttempts
    BY Sizes, TcpAssumption DEF SeqNo
  <2> QED
    BY <2>1, NoBytes, Sizes, States DEF StreamT
<1>5. /\ NoPeer \in PeerT /\ NoPeer.edge = 0 /\ NoPeer.wire = {} /\ NoPeer.taken = <<>>
      /\ NoPeer.acks = {}
  BY NoBytes, Sizes DEF NoPeer, PeerT
<1> HIDE DEF s
<1>6. l \in LineT /\ l.s = s /\ l.p = NoPeer
  BY <1>4, <1>5 DEF LineT
<1>7. Input(s, NoPeer, conn', <<>>)
  <2>1. Len(<<>>) = 0 /\ 0 + 0 <= InLen /\ 0 <= DataMax /\ 0 <= 0 + DataMax
    BY NoBytes, Sizes
  <2>2. Run(<<>>, Base(conn')) /\ Run(<<>>, Base(conn') + Len(<<>>))
    BY RunEmpty
  <2> QED
    BY <1>4, <1>5, <2>1, <2>2, States DEF Input
<1>8. Output(s, NoPeer, 0)
  <2>1. Len(<<>>) = 0 /\ 0 \in 0 .. OutLen /\ 0 <= DataMax
    BY NoBytes, Sizes
  <2>2. Run(<<>>, 0) /\ Run(<<>>, 0 - Len(<<>>))
    BY RunEmpty
  <2> QED
    BY <1>4, <1>5, <2>1, <2>2, States DEF Output
<1> DEFINE c == conn'
           m == tcp_retry(l, r)
<1>9. Fits(l, c, 0, <<>>)
  BY <1>6, <1>7, <1>8 DEF Fits
<1>10. m = Retransmit(l, r)
  <2>1. Retrying(l.s) /\ ~(l.s.attempts >= MaxAttempts)
    BY <1>4, <1>6, States, TcpAssumption DEF Retrying, Unacknowledged
  <2> HIDE DEF l
  <2> QED
    BY <2>1 DEF tcp_retry
<1> HIDE DEF l
<1>11. m.s.buffer = <<>> /\ ~m.s.eof
  BY <1>4, <1>6, <1>10, RetransmitSyn
<1> HIDE DEF c
<1>12. Fits(m, c, 0, <<>>)
  BY <1>9, tcp_retryFits
<1> HIDE DEF m
<1>13. stream' = m.s /\ peer' = m.p /\ m \in LineT
  BY <1>1, <1>12 DEF Become, Fits, m
<1>14. Line' = m
  BY <1>13, LineIs, LineParts
<1> QED
  BY <1>2, <1>11, <1>12, <1>13, <1>14 DEF Opened, StreamStep, c

LEMMA PeerStep ==
  ASSUME StreamInv, PeerTakes
  PROVE  StreamStep
<1>1. stream.state = Established /\ stream.state # Idle /\ UNCHANGED <<stream, conn, wrote, got, goodbye>>
  BY States DEF PeerTakes
<1>2. /\ Line \in LineT /\ stream \in StreamT /\ peer \in PeerT /\ conn \in 1 .. MaxConn
      /\ Input(stream, peer, conn, got) /\ Output(stream, peer, wrote)
  BY <1>1, LineParts, LineIs DEF StreamInv, Fits
<1> DEFINE T == Len(peer.taken)
           next == Add(FirstOut, T)
           skip(h) == Sub(next, h.seq)
           new(h) == SubSeq(h.data, skip(h) + 1, Len(h.data))
           all(h, n) == peer.taken \o SubSeq(new(h), 1, n)
           acks(h, n) == peer.acks \cup {Add(FirstOut, Len(all(h, n)))}
           wire(h, n) == {x \in peer.wire : Ahead(Add(x.seq, Len(x.data)), Add(FirstOut, Len(all(h, n))))}
<1>3. PICK h \in peer.wire, n \in 1 .. DataMax :
         /\ ~Ahead(h.seq, next) /\ n <= Len(new(h))
         /\ peer' = [peer EXCEPT !.taken = all(h, n), !.acks = acks(h, n), !.wire = wire(h, n)]
  BY <1>1 DEF PeerTakes
<1>4. PICK k \in 0 .. wrote : /\ h.seq = Add(FirstOut, k) /\ Run(h.data, k)
                              /\ k + Len(h.data) <= wrote /\ Len(h.data) <= DataMax
  BY <1>2 DEF Output, OnWire
<1> DEFINE L == Len(h.data)
           d == skip(h)
           fresh == new(h)
           q == all(h, n)
           A == acks(h, n)
           W == wire(h, n)
<1>5. /\ T \in Nat /\ T <= wrote /\ k \in Nat /\ k <= wrote /\ L \in Nat /\ k + L <= wrote
      /\ wrote \in Nat /\ wrote <= OutLen /\ n \in Nat /\ n >= 1
      /\ Run(peer.taken, 0)
  <2>1. T \in Nat /\ T <= wrote /\ wrote \in 0 .. OutLen /\ L \in Nat /\ Run(peer.taken, 0)
    BY <1>2, <1>4, RunParts DEF Output
  <2>2. k \in 0 .. wrote /\ k + L <= wrote
    BY <1>4
  <2>3. n \in 1 .. DataMax /\ OutLen \in Nat /\ DataMax \in Nat
    BY Sizes
  <2> HIDE DEF T, L
  <2> QED
    BY <2>1, <2>2, <2>3
<1>6. T \in Position /\ k \in Position
  <2> HIDE DEF T
  <2> QED
    BY <1>5, Sizes DEF Position
<1>7. k <= T /\ d = T - k /\ d \in Nat
  <2>1. ~Ahead(Add(FirstOut, k), Add(FirstOut, T)) /\ d = Sub(Add(FirstOut, T), Add(FirstOut, k))
    BY <1>3, <1>4
  <2> HIDE DEF T, d
  <2>2. ~(T < k)
    BY <1>6, <2>1, Sizes, Distance
  <2>3. k <= T
    BY <1>5, <2>2
  <2>4. d = T - k
    BY <1>6, <2>1, <2>3, Sizes, Distance
  <2> QED
    BY <1>5, <2>3, <2>4
<1>8. n <= Len(fresh)
  BY <1>3
<1>9. d <= L
  <2>1. ASSUME d > L PROVE Len(fresh) = 0
    <3> DEFINE e == d + 1
               z == h.data
    <3>1. z \in Seq(Nat) /\ e \in Int /\ L \in Int /\ e > L
      BY <1>4, <1>5, <1>7, <2>1, RunParts
    <3>2. \A i \in e .. L : z[i] \in Nat
      BY <1>5, <3>1
    <3> HIDE DEF e, L, z
    <3>3. Len(SubSeq(z, e, L)) = (IF e <= L THEN L - e + 1 ELSE 0)
      BY <3>1, <3>2, SubSeqProperties
    <3>4. ~(e <= L)
      BY <3>1
    <3> QED
      BY <3>3, <3>4 DEF e, L, z
  <2> HIDE DEF d, L, fresh
  <2> QED
    BY <1>5, <1>7, <1>8, <2>1
<1>10. Run(fresh, T) /\ Len(fresh) = L - d
  <2> DEFINE z == h.data
  <2>1. Run(z, k) /\ L <= Len(z) /\ k + d = T /\ k \in Nat
    BY <1>4, <1>5, <1>7
  <2> HIDE DEF d, L, z, T
  <2>2. Run(SubSeq(z, d + 1, L), k + d) /\ Len(SubSeq(z, d + 1, L)) = L - d
    BY <1>5, <1>7, <1>9, <2>1, RunPart
  <2> QED
    BY <2>1, <2>2 DEF z, L, d
<1> HIDE DEF fresh
<1>11. Run(SubSeq(fresh, 1, n), T) /\ Len(SubSeq(fresh, 1, n)) = n
  <2> DEFINE z == 0
  <2>1. z \in Nat /\ z + 1 = 1 /\ T + z = T /\ n - z = n /\ z <= n
    BY <1>5
  <2> HIDE DEF z, T
  <2>2. Run(SubSeq(fresh, z + 1, n), T + z) /\ Len(SubSeq(fresh, z + 1, n)) = n - z
    BY <1>5, <1>8, <1>10, <2>1, RunPart
  <2> QED
    BY <2>1, <2>2
<1>12. Run(q, 0) /\ Len(q) = T + n
  <2> DEFINE z == SubSeq(fresh, 1, n)
             o == 0
  <2>1. o \in Nat /\ T = o + Len(peer.taken) /\ q = peer.taken \o z /\ Run(peer.taken, o)
    BY <1>5 DEF fresh
  <2>2. Run(z, T) /\ Len(z) = n
    BY <1>11
  <2> HIDE DEF z, o, T, q
  <2>3. Run(peer.taken \o z, o) /\ Len(peer.taken \o z) = Len(peer.taken) + Len(z)
    BY <2>1, <2>2, RunJoined
  <2> QED
    BY <2>1, <2>2, <2>3 DEF o, T
<1>13. T + n <= wrote /\ T + n \in Nat /\ T <= T + n /\ T + n \in Position
  <2> HIDE DEF T, L, d
  <2>1. T + n <= wrote /\ T + n \in Nat /\ T <= T + n
    BY <1>5, <1>7, <1>8, <1>9, <1>10
  <2> DEFINE i == T + n
  <2> HIDE DEF i
  <2>2. i \in Position
    BY <1>5, <2>1, Sizes DEF Position, i
  <2> QED
    BY <2>1, <2>2 DEF i
<1>14. /\ \A b \in A : \E i \in 0 .. Len(q) : b = Add(FirstOut, i)
       /\ A \in SUBSET SeqNo
  <2>1. A = peer.acks \cup {Add(FirstOut, Len(q))}
    OBVIOUS
  <2>2. \A b \in peer.acks : \E i \in 0 .. T : b = Add(FirstOut, i)
    BY <1>2 DEF Output
  <2> HIDE DEF q, T, A
  <2>3. 0 .. T \subseteq 0 .. Len(q) /\ Len(q) \in 0 .. Len(q)
    BY <1>5, <1>12, <1>13
  <2>4. Add(FirstOut, Len(q)) \in SeqNo
    BY <1>12, <1>13, Sizes, Distance
  <2>5. peer.acks \in SUBSET SeqNo
    BY <1>2 DEF PeerT
  <2> QED
    BY <2>1, <2>2, <2>3, <2>4, <2>5
<1>15. W \subseteq peer.wire
  OBVIOUS
<1>16. q \in Seq(Nat)
  BY <1>12, RunParts
<1>17. peer' = [peer EXCEPT !.taken = q, !.acks = A, !.wire = W]
  BY <1>3
<1> HIDE DEF q, A, W
<1>18. /\ peer' \in PeerT /\ peer'.taken = q /\ peer'.acks = A /\ peer'.wire = W
       /\ peer'.edge = peer.edge
  BY <1>2, <1>14, <1>15, <1>16, <1>17 DEF PeerT
<1>19. Input(stream, peer', conn, got)
  BY <1>2, <1>18 DEF Input
<1>20. Output(stream, peer', wrote)
  <2>1. Len(peer'.taken) <= wrote /\ T <= Len(peer'.taken)
    BY <1>12, <1>13, <1>18
  <2>2. wrote - Len(stream.outgoing) <= Len(peer'.taken)
    <3>1. wrote - Len(stream.outgoing) <= T
      BY <1>1, <1>2 DEF Output
    <3>2. Len(stream.outgoing) \in Nat /\ Len(peer'.taken) \in Nat
      BY <1>2, <1>12, <1>13, <1>18, RunParts DEF Output
    <3> DEFINE o == Len(stream.outgoing)
               z == Len(peer'.taken)
    <3>3. o \in Nat /\ z \in Nat /\ wrote - o <= T /\ T <= z
      BY <2>1, <3>1, <3>2
    <3> HIDE DEF T, o, z
    <3>4. wrote - o <= z
      BY <1>5, <3>3
    <3> QED
      BY <3>4 DEF o, z
  <2>3. \A x \in peer'.wire : OnWire(x, wrote)
    BY <1>2, <1>15, <1>18 DEF Output
  <2>4. stream.state # Syn
    BY <1>1, States
  <2> QED
    BY <1>2, <1>12, <1>14, <1>18, <2>1, <2>2, <2>3, <2>4 DEF Output
<1>21. Fits(Line', conn', wrote', got')
  <2>1. [s |-> stream, p |-> peer'] \in LineT
    BY <1>2, <1>18 DEF LineT
  <2>2. Line'.s = stream /\ Line'.p = peer' /\ Line' = [s |-> stream, p |-> peer']
    BY <1>1, LineIs
  <2>3. conn' = conn /\ wrote' = wrote /\ got' = got
    BY <1>1
  <2> QED
    BY <1>19, <1>20, <2>1, <2>2, <2>3 DEF Fits
<1>22. Moved
  <2>1. Len(peer.taken) <= Len(peer'.taken)
    BY <1>12, <1>13, <1>18
  <2>2. Len(got) \in Nat /\ Len(stream.buffer) \in Nat
    BY <1>2, RunParts DEF Input
  <2>3. Len(got) + Len(stream.buffer) <= Len(got') + Len(stream'.buffer) /\ wrote <= wrote'
    BY <1>1, <1>5, <2>2
  <2> QED
    BY <1>1, <1>21, <2>1, <2>3 DEF Moved
<1> QED
  BY <1>22 DEF StreamStep

LEMMA FitsOpen ==
  ASSUME NEW l, NEW c, NEW w, NEW g, Fits(l, c, w, g) PROVE l.s.state # Idle
BY States DEF Fits, LineT, StreamT

LEMMA StepKeeps ==
  ASSUME StreamInv, StreamStep PROVE StreamInv'
<1>1. CASE Kept
  BY <1>1, LineIs DEF Kept, tcp, StreamInv, Line
<1>2. CASE Moved
  <2>1. stream'.state # Idle
    BY <1>2, FitsOpen, LineIs DEF Moved
  <2> QED
    BY <1>2, <2>1 DEF Moved, StreamInv
<1>3. CASE Opened
  <2>1. stream'.state # Idle
    BY <1>3, FitsOpen, LineIs DEF Opened
  <2>2. wrote' = 0 /\ got' = <<>> /\ conn' \in 1 .. MaxConn /\ conn' \in 0 .. MaxConn
    BY <1>3, TcpAssumption DEF Opened, StreamInv
  <2> QED
    BY <1>3, <2>1, <2>2 DEF Opened, StreamInv
<1>4. CASE Dropped
  <2>1. /\ stream' = NoStream /\ peer' = NoPeer /\ wrote' = 0 /\ got' = <<>>
        /\ goodbye' \in {"fin", "lost"} /\ conn' = conn
    BY <1>4 DEF Dropped, Forget
  <2>2. stream'.state = Idle
    BY <2>1 DEF NoStream
  <2> QED
    BY <2>1, <2>2 DEF StreamInv
<1> QED
  BY <1>1, <1>2, <1>3, <1>4 DEF StreamStep

-----------------------------------------------------------------------------
(* The promise of ByteStream                                               *)

Whole(n) == [i \in 1 .. n |-> i]

LEMMA WholeIs ==
  ASSUME NEW n \in Nat PROVE Run(Whole(n), 0) /\ Len(Whole(n)) = n
<1> DEFINE z == 0
<1>1. \A i \in Nat : z + i = i
  OBVIOUS
<1>2. z \in Nat
  OBVIOUS
<1> HIDE DEF z
<1>3. [i \in 1 .. n |-> z + i] = [i \in 1 .. n |-> i]
  BY <1>1
<1>4. Run([i \in 1 .. n |-> z + i], z) /\ Len([i \in 1 .. n |-> z + i]) = n
  BY <1>2, RunMade
<1> QED
  BY <1>3, <1>4 DEF Whole, z

LEMMA Precedes ==
  ASSUME NEW p, NEW q, NEW b \in Nat, Run(p, b), Run(q, b), Len(p) <= Len(q)
  PROVE  Bytes!IsPrefix(p, q)
BY RunPrefix DEF IsPrefix, Bytes!IsPrefix

\* What a line that fits shows of the bytes on either side.
Shows(l, c, w, g) ==
    /\ Base(c) \in Nat /\ w \in Nat
    /\ Run(Whole(w), 0) /\ Len(Whole(w)) = w
    /\ Run(l.p.taken, 0) /\ Len(l.p.taken) \in Nat /\ Len(l.p.taken) <= w
    /\ Run(g \o l.s.buffer, Base(c)) /\ Len(g \o l.s.buffer) = Len(g) + Len(l.s.buffer)
    /\ Len(g) + Len(l.s.buffer) \in Nat
    /\ Len(g) + Len(l.s.buffer) <= InLen
    /\ l.s.eof => Len(g) + Len(l.s.buffer) = InLen

LEMMA Shown ==
  ASSUME NEW l, NEW c \in 1 .. MaxConn, NEW w, NEW g, Fits(l, c, w, g)
  PROVE  Shows(l, c, w, g)
<1>1. Base(c) \in Nat /\ w \in Nat
  BY BaseType, Sizes DEF Fits, Output
<1>2. Run(l.p.taken, 0) /\ Len(l.p.taken) \in Nat /\ Len(l.p.taken) <= w
  BY RunParts DEF Fits, Output
<1>3. /\ Run(g, Base(c)) /\ Run(l.s.buffer, Base(c) + Len(g)) /\ Len(g) + Len(l.s.buffer) <= InLen
      /\ l.s.eof => Len(g) + Len(l.s.buffer) = InLen
  BY DEF Fits, Input
<1>4. Len(g) \in Nat /\ Len(l.s.buffer) \in Nat
  BY <1>3, RunParts
<1>5. Run(g \o l.s.buffer, Base(c)) /\ Len(g \o l.s.buffer) = Len(g) + Len(l.s.buffer)
  <2> DEFINE b == Base(c)
             d == b + Len(g)
             q == l.s.buffer
  <2>1. b \in Nat /\ d = b + Len(g) /\ Run(g, b) /\ Run(q, d)
    BY <1>1, <1>3
  <2> HIDE DEF b, d, q
  <2>2. Run(g \o q, b) /\ Len(g \o q) = Len(g) + Len(q)
    BY <2>1, RunJoined
  <2> QED
    BY <2>2 DEF b, q
<1> QED
  BY <1>1, <1>2, <1>3, <1>4, <1>5, WholeIs DEF Shows

LEMMA MovedExchanges ==
  ASSUME StreamInv, Moved PROVE Bytes!Exchange
<1>1. /\ stream.state # Idle /\ stream'.state # Idle /\ conn' = conn /\ goodbye' = goodbye
      /\ conn \in 1 .. MaxConn
      /\ Fits(Line, conn, wrote, got) /\ Fits(Line', conn, wrote', got')
      /\ stream \in StreamT /\ stream' \in StreamT
  <2>1. Fits(Line, conn, wrote, got) /\ Fits(Line', conn, wrote', got') /\ conn \in 1 .. MaxConn
        /\ stream.state # Idle /\ conn' = conn /\ goodbye' = goodbye
    BY DEF Moved, StreamInv
  <2>2. Line.s \in StreamT /\ Line'.s \in StreamT /\ Line'.s.state # Idle
    BY <2>1, LineParts, FitsOpen DEF Fits
  <2> QED
    BY <2>1, <2>2, LineIs
<1> DEFINE b == Base(conn)
           R == got \o stream.buffer
           S == got' \o stream'.buffer
           m == Line'
<1>2. /\ b \in Nat /\ wrote \in Nat
      /\ Run(Whole(wrote), 0) /\ Len(Whole(wrote)) = wrote
      /\ Run(peer.taken, 0) /\ Len(peer.taken) <= wrote
      /\ Run(R, b) /\ Len(R) = Len(got) + Len(stream.buffer)
  BY <1>1, Shown, LineIs DEF Shows
<1>3. m.s = stream' /\ m.p = peer'
  BY LineIs
<1>4. /\ wrote' \in Nat
      /\ Run(Whole(wrote'), 0) /\ Len(Whole(wrote')) = wrote'
      /\ Run(peer'.taken, 0) /\ Len(peer'.taken) <= wrote'
      /\ Run(S, b) /\ Len(S) = Len(got') + Len(stream'.buffer)
      /\ Len(S) <= InLen
      /\ stream'.eof => Len(S) = InLen
  <2> DEFINE w == wrote'
             g == got'
  <2>1. Fits(m, conn, w, g) /\ conn \in 1 .. MaxConn
    BY <1>1
  <2> HIDE DEF m, w, g, R, S
  <2>2. Shows(m, conn, w, g)
    BY <2>1, Shown
  <2> QED
    BY <1>3, <2>2 DEF w, g, S, Shows
<1>5. /\ wrote <= wrote' /\ Len(peer.taken) <= Len(peer'.taken) /\ (stream.eof => stream'.eof)
      /\ Len(got) + Len(stream.buffer) <= Len(got') + Len(stream'.buffer)
  BY DEF Moved
<1>6. Run(Incoming(conn), b) /\ Len(Incoming(conn)) = InLen
  BY <1>1, IncomingRun
<1>7. 0 \in Nat
  OBVIOUS
<1> HIDE DEF R, S, b, m
<1>8. /\ Bytes!IsPrefix(Whole(wrote), Whole(wrote'))
      /\ Bytes!IsPrefix(peer.taken, peer'.taken) /\ Bytes!IsPrefix(peer'.taken, Whole(wrote'))
      /\ Bytes!IsPrefix(R, S) /\ Bytes!IsPrefix(S, Incoming(conn))
  <2>1. Bytes!IsPrefix(Whole(wrote), Whole(wrote'))
    BY <1>2, <1>4, <1>5, <1>7, Precedes
  <2>2. Bytes!IsPrefix(peer.taken, peer'.taken)
    BY <1>2, <1>4, <1>5, <1>7, Precedes
  <2>3. Bytes!IsPrefix(peer'.taken, Whole(wrote'))
    BY <1>4, <1>7, Precedes
  <2>4. Bytes!IsPrefix(R, S)
    BY <1>2, <1>4, <1>5, Precedes
  <2>5. Bytes!IsPrefix(S, Incoming(conn))
    BY <1>2, <1>4, <1>6, Precedes
  <2> QED
    BY <2>1, <2>2, <2>3, <2>4, <2>5
<1>9. stream'.eof => S = Incoming(conn)
  BY <1>4, <1>6, RunSame
<1>10. /\ (IF stream.state = Idle THEN <<>> ELSE got \o stream.buffer) = R
       /\ (IF stream'.state = Idle THEN <<>> ELSE got' \o stream'.buffer) = S
       /\ [i \in 1 .. wrote |-> i] = Whole(wrote) /\ [i \in 1 .. wrote' |-> i] = Whole(wrote')
  BY <1>1 DEF R, S, Whole
<1> QED
  BY <1>1, <1>5, <1>8, <1>9, <1>10 DEF Bytes!Exchange

LEMMA NothingIs == ASSUME NEW q, NEW b, Run(q, b), Len(q) = 0 PROVE q = <<>>
<1>1. Run(<<>>, b) /\ Len(<<>>) = 0
  BY RunEmpty
<1> QED
  BY <1>1, RunSame

LEMMA NoneWritten == [i \in 1 .. 0 |-> i] = <<>>
<1>1. Run(Whole(0), 0) /\ Len(Whole(0)) = 0
  BY WholeIs
<1>2. Whole(0) = <<>>
  BY <1>1, NothingIs
<1> QED
  BY <1>2 DEF Whole

LEMMA OpenedOpens ==
  ASSUME StreamInv, Opened PROVE Bytes!Open
<1> DEFINE m == Line'
           c == conn'
<1>1. m.s = stream' /\ m.p = peer'
  BY LineIs
<1>2. /\ stream.state = Idle /\ conn' = conn + 1 /\ goodbye' = goodbye
      /\ wrote' = 0 /\ got' = <<>> /\ stream'.buffer = <<>> /\ ~stream'.eof
      /\ Fits(m, c, 0, <<>>)
  BY DEF Opened, StreamInv
<1>3. c \in 1 .. MaxConn
  BY TcpAssumption DEF Opened, StreamInv
<1> HIDE DEF m, c
<1>4. m.s.state # Idle
  BY <1>2, FitsOpen
<1>5. Run(m.p.taken, 0) /\ Len(m.p.taken) \in Nat /\ Len(m.p.taken) <= 0
  BY <1>2, <1>3, Shown DEF Shows
<1>6. peer'.taken = <<>>
  <2>1. Len(m.p.taken) = 0
    BY <1>5
  <2> QED
    BY <1>1, <1>5, <2>1, NothingIs
<1>7. [i \in 1 .. wrote' |-> i] = <<>>
  BY <1>2, NoneWritten
<1>8. <<>> \o <<>> = <<>>
  OBVIOUS
<1>9. (IF stream'.state = Idle THEN <<>> ELSE got' \o stream'.buffer) = <<>>
  BY <1>2, <1>8
<1> QED
  BY <1>1, <1>2, <1>4, <1>6, <1>7, <1>9 DEF Bytes!Open, Bytes!Clear

LEMMA DroppedEnds ==
  ASSUME StreamInv, Dropped PROVE Bytes!Finish \/ Bytes!Abort
<1>1. /\ stream.state # Idle /\ stream' = NoStream /\ peer' = NoPeer /\ wrote' = 0 /\ conn' = conn
  BY DEF Dropped, Forget
<1>2. stream'.state = Idle /\ peer'.taken = <<>> /\ [i \in 1 .. wrote' |-> i] = <<>>
  BY <1>1, NoneWritten DEF NoStream, NoPeer
<1>3. Bytes!Clear
  BY <1>2 DEF Bytes!Clear
<1>4. CASE goodbye' = "lost"
  BY <1>1, <1>2, <1>3, <1>4 DEF Bytes!Abort
<1>5. CASE goodbye' = "fin" /\ stream.state = Established /\ stream.acked_tx = stream.next_tx
  <2>1. /\ Line.s \in StreamT /\ Output(Line.s, Line.p, wrote) /\ Fits(Line, conn, wrote, got)
        /\ conn \in 1 .. MaxConn
    BY <1>1, LineParts DEF StreamInv, Fits
  <2>2. Len(peer.taken) = wrote
    BY <1>5, <2>1, LineIs, AllArrived
  <2>3. Run(peer.taken, 0) /\ Run(Whole(wrote), 0) /\ Len(Whole(wrote)) = wrote
    BY <2>1, LineIs, Shown DEF Shows
  <2>4. peer.taken = Whole(wrote)
    BY <2>2, <2>3, RunSame
  <2> QED
    BY <1>1, <1>2, <1>3, <1>5, <2>4 DEF Bytes!Finish, Whole
<1> QED
  BY <1>4, <1>5 DEF Dropped, Forget

LEMMA StepPromised ==
  ASSUME StreamInv, StreamStep PROVE [Bytes!Next]_(Bytes!vars)
<1>1. CASE Kept
  <2>1. stream' = stream /\ conn' = conn /\ peer' = peer /\ wrote' = wrote /\ got' = got
        /\ goodbye' = goodbye
    BY <1>1 DEF Kept, tcp
  <2>2. UNCHANGED Bytes!vars
    BY <2>1 DEF Bytes!vars
  <2> QED
    BY <2>2
<1>2. CASE Moved
  BY <1>2, MovedExchanges DEF Bytes!Next
<1>3. CASE Opened
  BY <1>3, OpenedOpens DEF Bytes!Next
<1>4. CASE Dropped
  BY <1>4, DroppedEnds DEF Bytes!Next
<1> QED
  BY <1>1, <1>2, <1>3, <1>4 DEF StreamStep

-----------------------------------------------------------------------------
(* Every step of Net does to the stream one of these                       *)

LEMMA ResetStep ==
  ASSUME NEW step, reset_protocol_state(step) PROVE StreamStep
BY DropStep DEF reset_protocol_state

LEMMA NextStep ==
  ASSUME StreamInv, [Next]_vars PROVE StreamStep
<1>0. ASSUME UNCHANGED tcp PROVE StreamStep
  BY <1>0 DEF StreamStep, Kept
<1>1. CASE UNCHANGED vars
  BY <1>0, <1>1 DEF vars
<1>2. CASE net_usb_receive
  BY <1>0, <1>2, FrameStep DEF net_usb_receive
<1>3. CASE net_poll
  <2>1. CASE PollAlone \/ PollOther
    <3>1. PICK r \in Outcome : TcpRetry(r)
      BY <2>1 DEF PollAlone, PollOther, Outcome
    <3> QED
      BY <3>1, RetryStep
  <2>2. CASE PollSegment
    BY <2>2, FrameStep DEF PollSegment
  <2>3. CASE LinkLost
    BY <2>3, ResetStep DEF LinkLost
  <2> QED
    BY <1>3, <2>1, <2>2, <2>3 DEF net_poll
<1>4. CASE PeerReceives
  BY <1>4, PeerStep DEF PeerReceives
<1>5. CASE \E late \in BOOLEAN : Tick(late)
  BY <1>5, TickStep DEF Tick
<1>6. CASE net_usb_attach
  BY <1>0, <1>6 DEF net_usb_attach
<1>7. CASE net_usb_detach
  BY <1>0, <1>7, ResetStep DEF net_usb_detach
<1>8. CASE Dhcp
  BY <1>8, ResetStep DEF Dhcp
<1>9. CASE Ping
  BY <1>0, <1>9 DEF Ping
<1>10. CASE \E n \in Adapter : Select(n)
  BY <1>10, ResetStep DEF Select
<1>11. CASE \E s \in Addresses : Static(s)
  BY <1>11, ResetStep DEF Static
<1>12. ASSUME NEW a \in Apps,
              \/ Open(a) \/ Send(a) \/ Recv(a) \/ Close(a) \/ Report(a)
              \/ net_task_release(a) \/ UdpReceiveAny(a)
              \/ \E p \in Ports : UdpSend(a, p) \/ UdpReceive(a, p)
       PROVE  StreamStep
  <2>1. CASE Open(a)
    BY <2>1, OpenStep DEF Open
  <2>2. CASE Send(a)
    BY <2>2, SendStep DEF Send
  <2>3. CASE Recv(a)
    BY <2>3, RecvStep DEF Recv
  <2>4. CASE Close(a) \/ Report(a)
    BY <2>4, CloseStep DEF Close, Report
  <2>5. CASE net_task_release(a)
    BY <1>0, <2>5, DropStep DEF net_task_release
  <2>6. CASE UdpReceiveAny(a)
    BY <1>0, <2>6 DEF UdpReceiveAny
  <2>7. CASE \E p \in Ports : UdpSend(a, p) \/ UdpReceive(a, p)
    BY <1>0, <2>7 DEF UdpSend, UdpReceive
  <2> QED
    BY <1>12, <2>1, <2>2, <2>3, <2>4, <2>5, <2>6, <2>7
<1> QED
  BY <1>1, <1>2, <1>3, <1>4, <1>5, <1>6, <1>7, <1>8, <1>9, <1>10, <1>11, <1>12
     DEF Next, System, User

LEMMA InitStream == Init => StreamInv /\ Bytes!Init
<1> SUFFICES ASSUME Init PROVE StreamInv /\ Bytes!Init
  OBVIOUS
<1>1. /\ stream = NoStream /\ stream.state = Idle /\ wrote = 0 /\ peer = NoPeer /\ peer.taken = <<>>
      /\ conn = 0 /\ goodbye = "none" /\ got = <<>>
  BY DEF Init, TcpInit, NoStream, NoPeer
<1>2. StreamInv
  BY <1>1, TcpAssumption DEF StreamInv
<1>3. Bytes!Init
  BY <1>1, NoneWritten DEF Bytes!Init
<1> QED
  BY <1>2, <1>3

LEMMA NextStream == StreamInv /\ [Next]_vars => StreamInv' /\ [Bytes!Next]_(Bytes!vars)
BY NextStep, StepKeeps, StepPromised

\* The stream of kernel/net.c, its segments lost, repeated and reordered, and a
\* peer that keeps to the windows it is told, do only what ByteStream allows:
\* for buffers, connections and a sequence space of any size, as long as twice
\* the bytes of one connection fit into the sequence space (TcpAssumption).
THEOREM StreamIsByteStream == Spec => StreamPromise
<1>1. Spec => Bytes!Init /\ [][Bytes!Next]_(Bytes!vars)
  <2>1. Init => StreamInv /\ Bytes!Init
    BY InitStream
  <2>2. StreamInv /\ [Next]_vars => StreamInv' /\ [Bytes!Next]_(Bytes!vars)
    BY NextStream
  <2> QED
    BY <2>1, <2>2, PTL DEF Spec
<1> QED
  BY <1>1 DEF StreamPromise, Bytes!Spec

-----------------------------------------------------------------------------
(* The types of what else is under way, with what they rest on: an address *)
(* before anything is online, and a server before its lease is asked for.  *)

Bound == {a \in Apps : ports[a] # 0}
TrafficTypes ==
    /\ local \in Place \cup {None}
    /\ IsFiniteSet(Bound) /\ Cardinality(Bound) <= UdpSlots
    /\ inbox \in {None} \cup [owner : Apps, port : Ports, at : Place]
    /\ probe \in {None} \cup [replied : BOOLEAN, at : Place]
    /\ \A n \in Adapter : adapter[n].state = "ONLINE" => adapter[n].ip # 0
    /\ lease.step = "request" => lease.server \in Addresses

LEMMA HereType == ASSUME ConfigTypes, ip # 0 PROVE Here \in Place
BY IpType DEF Here, Place, ConfigTypes

LEMMA NoneBound ==
  ASSUME ports' = [a \in Apps |-> 0]
  PROVE  IsFiniteSet(Bound') /\ Cardinality(Bound') <= UdpSlots
<1>1. Bound' = {}
  BY DEF Bound
<1> QED
  BY <1>1, FS_EmptySet, NetAssumption

LEMMA SubBound ==
  ASSUME TrafficTypes, Bound' \subseteq Bound
  PROVE  IsFiniteSet(Bound') /\ Cardinality(Bound') <= UdpSlots
<1>1. IsFiniteSet(Bound) /\ Cardinality(Bound) <= UdpSlots /\ UdpSlots \in Nat
  BY NetAssumption DEF TrafficTypes
<1>2. IsFiniteSet(Bound') /\ Cardinality(Bound') <= Cardinality(Bound)
  BY <1>1, FS_Subset
<1>3. Cardinality(Bound') \in Nat /\ Cardinality(Bound) \in Nat
  BY <1>1, <1>2, FS_CardinalityType
<1> QED
  BY <1>1, <1>2, <1>3

LEMMA BindKeeps ==
  ASSUME TrafficTypes, ConfigTypes, NEW a \in Apps, NEW p \in Ports, udp_bind(a, p)
  PROVE  IsFiniteSet(Bound') /\ Cardinality(Bound') <= UdpSlots
<1>1. IsFiniteSet(Bound) /\ Cardinality(Bound) <= UdpSlots /\ UdpSlots \in Nat
  BY NetAssumption DEF TrafficTypes
<1>2. Bound' \subseteq Bound \cup {a}
  BY DEF udp_bind, Bound, ConfigTypes
<1>3. CASE ports[a] # 0
  <2>1. Bound' \subseteq Bound
    BY <1>2, <1>3 DEF Bound
  <2> QED
    BY <2>1, SubBound
<1>4. CASE ports[a] = 0
  <2>1. Cardinality(Bound) < UdpSlots /\ a \notin Bound
    BY <1>4 DEF udp_bind, CanBind, Bound
  <2>2. IsFiniteSet(Bound \cup {a}) /\ Cardinality(Bound \cup {a}) = Cardinality(Bound) + 1
    BY <1>1, <2>1, FS_AddElement
  <2>3. IsFiniteSet(Bound') /\ Cardinality(Bound') <= Cardinality(Bound \cup {a})
    BY <1>2, <2>2, FS_Subset
  <2>4. Cardinality(Bound') \in Nat /\ Cardinality(Bound) \in Nat
    BY <1>1, <2>3, FS_CardinalityType
  <2> QED
    BY <1>1, <2>1, <2>2, <2>3, <2>4
<1> QED
  BY <1>3, <1>4

LEMMA InitTraffic == ASSUME Init PROVE TrafficTypes
<1>1. Bound = {}
  BY DEF Init, Bound
<1>2. IsFiniteSet(Bound) /\ Cardinality(Bound) <= UdpSlots
  BY <1>1, FS_EmptySet, NetAssumption
<1> QED
  BY <1>2 DEF Init, TrafficTypes, Down, NoLease

LEMMA ResetTypes ==
  ASSUME TrafficTypes, ConfigTypes, NEW step \in {"idle", "discover"}, reset_protocol_state(step),
         \A n \in Adapter : adapter'[n].state = "ONLINE" => adapter'[n].ip # 0
  PROVE  TrafficTypes'
<1>1. /\ inbox' = None /\ probe' = None /\ local' = None /\ ports' = [a \in Apps |-> 0]
      /\ lease'.step = step
  BY DEF reset_protocol_state, NoLease
<1>2. IsFiniteSet(Bound') /\ Cardinality(Bound') <= UdpSlots
  BY <1>1, NoneBound
<1> QED
  BY <1>1, <1>2 DEF TrafficTypes

LEMMA OnlineKept ==
  ASSUME TrafficTypes, ConfigTypes, NEW n \in Adapter, NEW a \in Addresses \cup {0},
         NEW x \in {"DOWN", "LINK", "CONFIGURING", "ONLINE"}, SetUp(n, a, x),
         x = "ONLINE" => a # 0
  PROVE  \A m \in Adapter : adapter'[m].state = "ONLINE" => adapter'[m].ip # 0
<1>1. adapter'[n] = [ip |-> a, state |-> x] /\ \A m \in Adapter \ {n} : adapter'[m] = adapter[m]
  BY SetUpType
<1> QED
  BY <1>1 DEF TrafficTypes

\* All of it is left alone.
LEMMA SameTypes ==
  ASSUME TrafficTypes, UNCHANGED <<adapter, lease, ports, inbox, probe>>,
         local' \in {local, None}
  PROVE  TrafficTypes'
BY DEF TrafficTypes, Bound

LEMMA NextTraffic ==
  ASSUME ConfigInv, TrafficTypes, [Next]_vars PROVE TrafficTypes'
<1>0. ConfigTypes /\ active \in Adapter /\ ip \in Addresses \cup {0}
  BY IpType DEF ConfigInv, ConfigTypes
<1>a. Online => ip # 0
  BY <1>0 DEF Online, ip, TrafficTypes
<1>b. \A n \in Addresses : n # 0
  BY NetAssumption
<1>1. CASE UNCHANGED vars
  BY <1>1, SameTypes DEF vars, config, traffic
<1>2. ASSUME Frame PROVE TrafficTypes'
  <2>0. UNCHANGED local
    BY <1>2 DEF Frame
  <2>1. CASE \E s \in Addresses : Offer(s)
    <3>1. UNCHANGED <<adapter, ports, inbox, probe>> /\ lease'.server \in Addresses
      BY <2>1 DEF Offer
    <3> QED
      BY <2>0, <3>1 DEF TrafficTypes, Bound
  <2>2. CASE LeaseAck
    <3>1. lease.server \in Addresses /\ SetUp(active, lease.server, "ONLINE") /\ lease'.step = "idle"
          /\ UNCHANGED <<ports, inbox, probe>>
      BY <2>2 DEF LeaseAck, TrafficTypes, NoLease
    <3>2. \A m \in Adapter : adapter'[m].state = "ONLINE" => adapter'[m].ip # 0
      BY <1>0, <1>b, <3>1, OnlineKept
    <3> QED
      BY <2>0, <3>1, <3>2 DEF TrafficTypes, Bound
  <2>3. CASE LeaseNak
    <3>1. UNCHANGED <<adapter, ports, inbox, probe>> /\ lease'.step = "discover"
      BY <2>3 DEF LeaseNak, NoLease
    <3> QED
      BY <2>0, <3>1 DEF TrafficTypes, Bound
  <2>4. CASE \E p \in Ports : Datagram(p)
    <3>1. PICK p \in Ports, a \in Apps :
             /\ ip # 0 /\ inbox' = [owner |-> a, port |-> p, at |-> Here]
             /\ UNCHANGED <<adapter, lease, ports, probe>>
      BY <2>4 DEF Datagram
    <3>2. inbox' \in [owner : Apps, port : Ports, at : Place]
      BY <1>0, <3>1, HereType
    <3> QED
      BY <2>0, <3>1, <3>2 DEF TrafficTypes, Bound
  <2>5. CASE EchoReply
    <3>1. /\ probe # None /\ probe' = [probe EXCEPT !.replied = TRUE]
          /\ UNCHANGED <<adapter, lease, ports, inbox>>
      BY <2>5 DEF EchoReply
    <3>2. probe \in [replied : BOOLEAN, at : Place]
      BY <3>1 DEF TrafficTypes
    <3>3. probe' \in [replied : BOOLEAN, at : Place]
      BY <3>1, <3>2
    <3> QED
      BY <2>0, <3>1, <3>3 DEF TrafficTypes, Bound
  <2> QED
    BY <1>2, <2>1, <2>2, <2>3, <2>4, <2>5 DEF Frame
<1>3. CASE net_usb_receive
  BY <1>2, <1>3, SameTypes DEF net_usb_receive, config, traffic
<1>4. CASE net_poll
  <2>1. CASE PollAlone
    <3>1. PICK x \in {"DOWN", "LINK", "CONFIGURING", "ONLINE"} :
             SetUp(active, ip, x) /\ (x = "ONLINE" => Online)
      BY <2>1, <1>0 DEF PollAlone, ConfigTypes, Online
    <3>2. \A m \in Adapter : adapter'[m].state = "ONLINE" => adapter'[m].ip # 0
      BY <1>0, <1>a, <3>1, OnlineKept
    <3>3. UNCHANGED <<local, lease, ports, inbox, probe>>
      BY <2>1 DEF PollAlone, traffic
    <3> QED
      BY <3>2, <3>3 DEF TrafficTypes, Bound
  <2>2. CASE PollOther
    BY <1>2, <2>2 DEF PollOther
  <2>3. CASE PollSegment
    BY <2>3, SameTypes DEF PollSegment, config, traffic
  <2>4. CASE LinkLost
    <3>1. \A m \in Adapter : adapter'[m].state = "ONLINE" => adapter'[m].ip # 0
      BY <1>0, <2>4, OnlineKept DEF LinkLost
    <3> QED
      BY <1>0, <2>4, <3>1, ResetTypes DEF LinkLost
  <2> QED
    BY <1>4, <2>1, <2>2, <2>3, <2>4 DEF net_poll
<1>5. CASE PeerReceives \/ \E late \in BOOLEAN : Tick(late)
  BY <1>5, SameTypes DEF PeerReceives, Tick, config, traffic
<1>6. CASE net_usb_attach
  <2>1. \A m \in Adapter : adapter'[m].state = "ONLINE" => adapter'[m].ip # 0
    BY <1>0, <1>6, OnlineKept DEF net_usb_attach, Adapter
  <2> QED
    BY <1>6, <2>1 DEF net_usb_attach, traffic, TrafficTypes, Bound
<1>7. CASE net_usb_detach
  <2>1. \A m \in Adapter : adapter'[m].state = "ONLINE" => adapter'[m].ip # 0
    BY <1>0, <1>7, OnlineKept DEF net_usb_detach, Adapter
  <2>2. CASE active = "usb"
    BY <1>0, <1>7, <2>1, <2>2, ResetTypes DEF net_usb_detach
  <2>3. CASE active # "usb"
    BY <1>7, <2>1, <2>3 DEF net_usb_detach, traffic, TrafficTypes, Bound
  <2> QED
    BY <2>2, <2>3
<1>8. CASE Dhcp
  <2>1. \A m \in Adapter : adapter'[m].state = "ONLINE" => adapter'[m].ip # 0
    BY <1>0, <1>8, OnlineKept DEF Dhcp
  <2> QED
    BY <1>0, <1>8, <2>1, ResetTypes DEF Dhcp
<1>9. CASE Ping
  <2>1. /\ UNCHANGED <<local, adapter, lease, ports, inbox>> /\ ip # 0
        /\ probe' \in {None, [replied |-> FALSE, at |-> Here]}
    BY <1>9, <1>a DEF Ping, config
  <2>2. probe' \in {None} \cup [replied : BOOLEAN, at : Place]
    <3> DEFINE asked == [replied |-> FALSE, at |-> Here]
    <3>1. FALSE \in BOOLEAN /\ Here \in Place
      BY <1>0, <2>1, HereType
    <3>2. asked \in [replied : BOOLEAN, at : Place]
      BY <3>1, Zenon
    <3> HIDE DEF asked
    <3>3. probe' \in {None, asked}
      BY <2>1 DEF asked
    <3> QED
      BY <3>2, <3>3
  <2> QED
    BY <2>1, <2>2 DEF TrafficTypes, Bound
<1>10. ASSUME NEW n \in Adapter, Select(n) PROVE TrafficTypes'
  <2>1. reset_protocol_state("idle") /\ adapter' = adapter
    BY <1>10 DEF Select
  <2> QED
    BY <1>0, <2>1, ResetTypes DEF TrafficTypes
<1>11. ASSUME NEW s \in Addresses, Static(s) PROVE TrafficTypes'
  <2>1. \A m \in Adapter : adapter'[m].state = "ONLINE" => adapter'[m].ip # 0
    BY <1>0, <1>b, <1>11, OnlineKept DEF Static
  <2> QED
    BY <1>0, <1>11, <2>1, ResetTypes DEF Static
<1>12. ASSUME NEW a \in Apps,
              \/ Open(a) \/ Send(a) \/ Recv(a) \/ Close(a) \/ Report(a)
              \/ net_task_release(a) \/ UdpReceiveAny(a)
              \/ \E p \in Ports : UdpSend(a, p) \/ UdpReceive(a, p)
       PROVE  TrafficTypes'
  <2>1. CASE Open(a)
    <3>1. UNCHANGED <<adapter, lease, ports, inbox, probe>> /\ local' = Here /\ ip # 0
      BY <1>a, <2>1 DEF Open, config, traffic
    <3>2. local' \in Place
      BY <1>0, <3>1, HereType
    <3> QED
      BY <3>1, <3>2 DEF TrafficTypes, Bound
  <2>2. CASE Send(a) \/ Recv(a) \/ Close(a) \/ Report(a)
    BY <2>2, SameTypes DEF Send, Recv, Close, Report, config, traffic
  <2>3. CASE net_task_release(a)
    <3>1. /\ inbox' \in {inbox, None} /\ ports' = [ports EXCEPT ![a] = 0]
          /\ local' \in {local, None} /\ UNCHANGED <<adapter, lease, probe>>
      BY <2>3 DEF net_task_release, config
    <3>2. Bound' \subseteq Bound
      BY <1>0, <3>1 DEF Bound, ConfigTypes
    <3>3. IsFiniteSet(Bound') /\ Cardinality(Bound') <= UdpSlots
      BY <3>2, SubBound
    <3> QED
      BY <3>1, <3>3 DEF TrafficTypes
  <2>4. CASE UdpReceiveAny(a)
    <3>1. inbox' = None /\ UNCHANGED <<local, adapter, lease, ports, probe>>
      BY <2>4 DEF UdpReceiveAny, config
    <3> QED
      BY <3>1 DEF TrafficTypes, Bound
  <2>5. ASSUME NEW p \in Ports, UdpSend(a, p) \/ UdpReceive(a, p) PROVE TrafficTypes'
    <3>1. udp_bind(a, p) /\ inbox' \in {inbox, None} /\ UNCHANGED <<local, adapter, lease, probe>>
      BY <2>5 DEF UdpSend, UdpReceive, KeptBy, config
    <3>2. IsFiniteSet(Bound') /\ Cardinality(Bound') <= UdpSlots
      BY <1>0, <3>1, BindKeeps
    <3> QED
      BY <3>1, <3>2 DEF TrafficTypes
  <2> QED
    BY <1>12, <2>1, <2>2, <2>3, <2>4, <2>5
<1> QED
  BY <1>1, <1>3, <1>4, <1>5, <1>6, <1>7, <1>8, <1>9, <1>10, <1>11, <1>12 DEF Next, System, User

-----------------------------------------------------------------------------
(* The window                                                              *)

LEMMA InvTcpTypes == StreamInv => TcpTypeOK
<1> SUFFICES ASSUME StreamInv PROVE TcpTypeOK
  OBVIOUS
<1>0. conn \in 0 .. MaxConn /\ goodbye \in {"none", "fin", "lost"}
  BY DEF StreamInv
<1>1. CASE stream.state = Idle
  <2>1. stream = NoStream /\ peer = NoPeer /\ wrote = 0 /\ got = <<>>
    BY <1>1 DEF StreamInv
  <2>2. <<>> \in Some(OutLen) /\ <<>> \in Some(InLen)
    <3>1. Run(<<>>, 0) /\ Len(<<>>) = 0
      BY RunEmpty
    <3>2. 0 \in 0 .. OutLen /\ 0 \in 0 .. InLen
      BY Sizes
    <3>3. <<>> \in [1 .. 0 -> Byte]
      OBVIOUS
    <3> QED
      BY <3>2, <3>3 DEF Some
  <2>3. 0 \in 0 .. OutLen /\ 0 \in 0 .. InLen + DataMax + 1
    BY Sizes
  <2> QED
    BY <1>0, <2>1, <2>2, <2>3 DEF TcpTypeOK, NoPeer
<1>2. CASE stream.state # Idle
  <2>1. /\ stream \in StreamT /\ peer \in PeerT /\ conn \in 1 .. MaxConn
        /\ Input(stream, peer, conn, got) /\ Output(stream, peer, wrote)
    BY <1>2, LineParts, LineIs DEF StreamInv, Fits
  <2> DEFINE z == MaxConn * InLen
             b == Base(conn)
  <2>2. b \in Nat /\ b + InLen <= z /\ z \in Nat /\ InLen \in Nat /\ OutLen \in Nat /\ DataMax \in Nat
    BY <2>1, BaseType, Sizes
  <2>3. /\ Run(got, b) /\ Run(stream.buffer, b + Len(got)) /\ Len(got) \in Nat
        /\ Len(stream.buffer) \in Nat /\ Len(stream.buffer) <= DataMax
        /\ Len(got) + Len(stream.buffer) <= InLen
    BY <2>1, RunParts DEF Input
  <2>4. /\ wrote \in 0 .. OutLen /\ Run(peer.taken, 0) /\ Len(peer.taken) \in Nat
        /\ Len(peer.taken) <= wrote /\ Len(stream.outgoing) \in Nat
        /\ Len(stream.outgoing) <= DataMax /\ Len(stream.outgoing) <= wrote
        /\ Run(stream.outgoing, wrote - Len(stream.outgoing))
    BY <2>1, RunParts DEF Output
  <2>5. got \in Some(InLen) /\ stream.buffer \in Some(DataMax)
    <3> DEFINE k == Len(got)
               n == Len(stream.buffer)
               d == b + k
    <3>1. k <= InLen /\ b + k <= OutLen + z /\ d \in Nat /\ d + n <= OutLen + z
      <4>1. /\ k \in Nat /\ n \in Nat /\ k + n <= InLen /\ d = b + k
            /\ b \in Nat /\ b + InLen <= z /\ z \in Nat /\ InLen \in Nat /\ OutLen \in Nat
        BY <2>2, <2>3
      <4> HIDE DEF k, n, b, z, d
      <4>2. b + k <= OutLen + z /\ k <= InLen
        BY <4>1
      <4>3. d \in Nat /\ d + n <= OutLen + z
        BY <4>1
      <4> QED
        BY <4>2, <4>3
    <3> HIDE DEF b, d
    <3>2. got \in Some(InLen)
      BY <2>2, <2>3, <3>1, RunIsSome
    <3>3. stream.buffer \in Some(DataMax)
      BY <2>2, <2>3, <3>1, RunIsSome DEF d
    <3> QED
      BY <3>2, <3>3
  <2>6. stream.outgoing \in Some(DataMax) /\ peer.taken \in Some(OutLen)
    <3> DEFINE n == Len(stream.outgoing)
               d == wrote - n
               t == Len(peer.taken)
               o == 0
    <3>1. d \in Nat /\ d + n <= OutLen + z /\ t <= OutLen /\ o + t <= OutLen + z /\ o \in Nat
      <4> HIDE DEF z, n, t
      <4> QED
        BY <2>2, <2>4, SMTT(30) DEF n, t
    <3>2. Run(stream.outgoing, d) /\ Run(peer.taken, o)
      BY <2>4
    <3> HIDE DEF d, o
    <3>3. stream.outgoing \in Some(DataMax)
      BY <2>2, <2>4, <3>1, <3>2, RunIsSome
    <3>4. peer.taken \in Some(OutLen)
      BY <2>2, <2>4, <3>1, <3>2, RunIsSome
    <3> QED
      BY <3>3, <3>4
  <2>7. ASSUME NEW h \in peer.wire PROVE h.seq \in SeqNo /\ h.data \in Some(DataMax)
    <3>1. PICK k \in 0 .. wrote : Run(h.data, k) /\ k + Len(h.data) <= wrote /\ Len(h.data) <= DataMax
      BY <2>1, <2>7 DEF Output, OnWire
    <3>2. Len(h.data) \in Nat
      BY <3>1, RunParts
    <3> DEFINE n == Len(h.data)
    <3>3. k \in Nat /\ k + n <= OutLen + z
      <4> HIDE DEF z, n
      <4> QED
        BY <2>2, <2>4, <3>1, <3>2, SMTT(30) DEF n
    <3>4. h.data \in Some(DataMax)
      BY <2>2, <3>1, <3>3, RunIsSome
    <3>5. h.seq \in SeqNo
      BY <2>1, <2>7 DEF PeerT, WireT
    <3> QED
      BY <3>4, <3>5
  <2>8. stream \in Stream
    BY <2>1, <2>5, <2>6 DEF StreamT, Stream
  <2> QED
    BY <1>0, <2>1, <2>4, <2>5, <2>6, <2>7, <2>8 DEF TcpTypeOK, PeerT
<1> QED
  BY <1>1, <1>2

LEMMA InvRoom == StreamInv /\ ConfigInv /\ TrafficTypes => RoomAsPromised
<1> SUFFICES ASSUME StreamInv, ConfigInv, TrafficTypes PROVE RoomAsPromised
  OBVIOUS
<1>1. TypeOK
  BY InvTcpTypes DEF TypeOK, ConfigInv, ConfigTypes, TrafficTypes, Bound
<1>2. ASSUME stream.state = Established, ~stream.eof
      PROVE  peer.edge <= Offset(stream) + DataMax - Len(stream.buffer)
  <2>1. /\ stream \in StreamT /\ peer \in PeerT /\ Input(stream, peer, conn, got)
    BY <1>2, States, LineParts, LineIs DEF StreamInv, Fits
  <2> DEFINE k == Len(got)
             b == Len(stream.buffer)
             o == Offset(stream)
  <2>2. o = k + b /\ k \in Nat /\ b \in Nat
    <3>1. Offset(stream) = Heard(stream, got) /\ k \in Nat /\ b \in Nat
      BY <1>2, <2>1, OffsetIs
    <3>2. Heard(stream, got) = k + b + 0
      BY <1>2 DEF Heard
    <3>3. Heard(stream, got) = k + b
      <4> HIDE DEF k, b
      <4> QED
        BY <3>1, <3>2
    <3> QED
      BY <3>1, <3>3
  <2>3. peer.edge <= k + DataMax /\ DataMax \in Nat /\ peer.edge \in Nat
    BY <1>2, <2>1, Sizes DEF Input, PeerT
  <2> HIDE DEF k, b, o
  <2>4. peer.edge <= o + DataMax - b
    BY <2>2, <2>3
  <2> QED
    BY <2>4 DEF o, b
<1> QED
  BY <1>1, <1>2 DEF RoomAsPromised

\* The peer never has an invitation to send what would not fit, and the types:
\* whatever it sends, and however it is acknowledged, lost or repeated.
THEOREM RoomAlwaysAsPromised == Spec => []RoomAsPromised
<1> DEFINE I == StreamInv /\ ConfigInv /\ TrafficTypes
<1>1. Init => I
  BY InitStream, InitConfig, InitTraffic
<1>2. I /\ [Next]_vars => I'
  BY NextStream, NextConfig, NextTraffic
<1>3. I => RoomAsPromised
  BY InvRoom
<1> HIDE DEF I
<1> QED
  BY <1>1, <1>2, <1>3, PTL DEF Spec
=============================================================================
