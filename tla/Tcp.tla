---------------------------------- MODULE Tcp ----------------------------------
(***************************************************************************)
(* The one TCP stream of kernel/net.c, with the network and the host at    *)
(* its other end.                                                          *)
(*                                                                         *)
(*  - stream  the kernel's record.  Its fields mean nothing while it is    *)
(*            idle (TCP_OPEN clears them), so an idle stream is NoStream.  *)
(*            Times are flags: due, 100 ticks since last_send; fresh, an   *)
(*            ACK has been tried at this tick (ack_last_send = ticks).     *)
(*  - conn    connections opened so far.  It stands for the local port,    *)
(*            which is random: no port is taken twice within one run.      *)
(*  - peer    the other end: what it was told and what it received.        *)
(*  - wrote, got  what the program has written and read; goodbye, how the  *)
(*            last connection ended.  These three are only watched.        *)
(*                                                                         *)
(* The network loses, repeats, delays and reorders: a data segment once    *)
(* sent may reach the peer at any later time, and the kernel may receive,  *)
(* at any time, every segment that the peer might have sent by then, and   *)
(* every segment of the connections before.  Bytes of the peer are its     *)
(* numbers 1, 2, ... through all connections.  A packet that is sent has   *)
(* one of three results: "sent", "again" (the ring is busy or the          *)
(* neighbour's address unknown) and "nodev" (the link is down).            *)
(***************************************************************************)
EXTENDS Integers, SequencesExt

CONSTANTS
    Apps,        \* processes
    SeqSpace,    \* sequence numbers are u32: 2^32
    DataMax,     \* NV_NET_DATA_MAX, the size of both buffers
    MaxAttempts, \* 5: transmissions of the same bytes
    Isn,         \* the first sequence number of either side
    OutLen, InLen, \* bound: bytes written by each side on a connection
    MaxConn      \* bound: connections

ASSUME TcpAssumption ==
    /\ SeqSpace \in Nat /\ SeqSpace % 2 = 0 /\ Isn \in 0 .. SeqSpace - 1
    /\ DataMax \in Nat \ {0} /\ MaxAttempts \in Nat \ {0}
    /\ OutLen \in Nat /\ InLen \in Nat /\ MaxConn \in Nat
    /\ 2 * (DataMax + OutLen + InLen + 2) <= SeqSpace

VARIABLES stream, conn, peer, wrote, got, goodbye

tcp == <<stream, conn, peer, wrote, got, goodbye>>

Add(a, n) == (a + n) % SeqSpace
Sub(a, b) == (a - b) % SeqSpace
Ahead(a, b) == Sub(a, b) \in 1 .. SeqSpace \div 2 - 1 \* (i32)(a - b) > 0
Least(a, b) == IF a < b THEN a ELSE b

Outcome == {"sent", "again", "nodev"}
Idle == "IDLE"  Syn == "SYN_SENT"  Established == "ESTABLISHED"  Failed == "ERROR"
NoStream == [state |-> Idle]
Live == {Syn, Established}

(* The peer of a connection: has a SYN, has a segment with an ACK been sent *)
(* to it; edge, the end of its bytes that it was last invited to send;      *)
(* wire, the data segments that may still reach it; taken, the bytes it has *)
(* received; acks, the acknowledgements it has had reason to send.          *)
NoPeer == [syn |-> FALSE, ack |-> FALSE, edge |-> 0, wire |-> {},
           taken |-> <<>>, acks |-> {}]
FirstOut == Add(Isn, 1)
FirstIn == Add(Isn, 1)
Incoming(c) == [i \in 1 .. InLen |-> (c - 1) * InLen + i]

Byte == 1 .. OutLen + MaxConn * InLen
SeqNo == 0 .. SeqSpace - 1
Some(n) == UNION {[1 .. k -> Byte] : k \in 0 .. n}
Stream == [state : Live \cup {Failed}, owner : Apps, next_tx : SeqNo,
           acked_tx : SeqNo, next_rx : SeqNo, outgoing : Some(DataMax),
           buffer : Some(DataMax), eof : BOOLEAN, attempts : 0 .. MaxAttempts,
           ack_pending : BOOLEAN, due : BOOLEAN, fresh : BOOLEAN]

TcpTypeOK ==
    /\ stream = NoStream \/ stream \in Stream
    /\ conn \in 0 .. MaxConn
    /\ peer.syn \in BOOLEAN /\ peer.ack \in BOOLEAN /\ peer.edge \in 0 .. InLen + DataMax + 1
    /\ \A g \in peer.wire : g.seq \in SeqNo /\ g.data \in Some(DataMax)
    /\ peer.taken \in Some(OutLen) /\ peer.acks \subseteq SeqNo
    /\ wrote \in 0 .. OutLen /\ got \in Some(InLen)
    /\ goodbye \in {"none", "fin", "lost"}

TcpInit ==
    /\ stream = NoStream /\ conn = 0 /\ peer = NoPeer
    /\ wrote = 0 /\ got = <<>> /\ goodbye = "none"
-----------------------------------------------------------------------------
(* Packets.  A line is the stream and what the peer can know of it.        *)

Line == [s |-> stream, p |-> peer]
\* (Mutated: bytes that were not read do not count.)
WholeWindow(s) == IF s.eof THEN 0 ELSE DataMax
Window(s) == IF s.eof THEN 0 ELSE DataMax - Len(s.buffer)
Offset(s) == Sub(s.next_rx, FirstIn)

\* tcp_packet with the ACK flag: number and window go with every such segment.
Acknowledging(l, data, seq, r) ==
    IF r # "sent" THEN l
    ELSE [s |-> [l.s EXCEPT !.ack_pending = FALSE],
          p |-> [l.p EXCEPT !.ack = TRUE,
                            !.edge = LET e == Offset(l.s) + Window(l.s)
                                     IN  IF e > @ THEN e ELSE @,
                            !.wire = IF data = <<>> THEN @
                                     ELSE @ \cup {[seq |-> seq, data |-> data]}]]

tcp_ack(l, r) ==
    LET m == Acknowledging(l, <<>>, l.s.next_tx, r)
    IN  [m EXCEPT !.s.fresh = TRUE, !.s.ack_pending = (r = "again")]

Fail(l) == [l EXCEPT !.s.state = Failed, !.s.ack_pending = FALSE]

\* Does tcp_retry send, and if so a SYN, the bytes not acknowledged, or an ACK?
Unacknowledged(s) == s.state = Syn \/ s.acked_tx # s.next_tx
Retrying(s) == s.state \in Live /\ Unacknowledged(s) /\ s.due
AckRetrying(s) ==
    s.state = Established /\ ~Retrying(s) /\ s.ack_pending /\ ~s.fresh
Sends(s) == (Retrying(s) /\ s.attempts < MaxAttempts) \/ AckRetrying(s)

Retransmit(l, r) ==
    LET l1 == IF l.s.state = Established THEN [l EXCEPT !.s.fresh = TRUE] ELSE l
        l2 == IF l.s.state = Established
              THEN Acknowledging(l1, l.s.outgoing, l.s.acked_tx, r)
              ELSE [l1 EXCEPT !.p.syn = @ \/ r = "sent"]
    IN  CASE r = "again" -> [l1 EXCEPT !.s.due = FALSE]
          [] r = "nodev" -> Fail(l1)
          [] r = "sent"  -> [l2 EXCEPT !.s.attempts = @ + 1, !.s.due = FALSE]

tcp_retry(l, r) ==
    IF Retrying(l.s)
    THEN IF l.s.attempts >= MaxAttempts THEN Fail(l) ELSE Retransmit(l, r)
    ELSE IF AckRetrying(l.s) THEN tcp_ack(l, r) ELSE l
-----------------------------------------------------------------------------
(* The peer                                                                *)

Segment(port, seq, ack, kind, data) ==
    [port |-> port, seq |-> seq, ack |-> ack, kind |-> kind, data |-> data]

\* Bytes a+1 .. b of the peer, with "fin" after the last of them or not.  It
\* keeps to its window, except that it may probe one byte beyond.
DataSegments(port, edge, acks) ==
    (UNION {{Segment(port, Add(FirstIn, a), k, "data", SubSeq(Incoming(port), a + 1, b)) :
               b \in {x \in a .. InLen : x <= edge + 1 /\ x - a <= DataMax}} :
              a \in 0 .. Least(edge, InLen), k \in acks})
    \cup {Segment(port, Add(FirstIn, a), k, "fin", SubSeq(Incoming(port), a + 1, InLen)) :
            a \in {x \in 0 .. InLen : InLen < edge /\ InLen - x <= DataMax}, k \in acks}
    \cup {Segment(port, Add(FirstIn, InLen + 1), k, "data", <<>>) :
            k \in IF InLen < edge THEN acks ELSE {}}

\* Everything the current peer might have sent by now.
Current ==
    (IF peer.syn THEN {Segment(conn, Isn, FirstOut, "syn", <<>>),
                       Segment(conn, 0, FirstOut, "rst", <<>>)} ELSE {})
    \cup (IF peer.ack THEN DataSegments(conn, peer.edge, peer.acks)
                           \cup {Segment(conn, Add(FirstIn, a), FirstOut, "rst", <<>>) :
                                    a \in 0 .. Least(InLen, peer.edge)}
          ELSE {})

\* What is still under way from the connections before.
Past == UNION {DataSegments(port, InLen + 1, {FirstOut}) : port \in 1 .. conn - 1}

\* A segment of the stream reaches the peer, which has room for some of it.
PeerTakes ==
    /\ stream.state = Established
    /\ \E g \in peer.wire, n \in 1 .. DataMax :
          LET next == Add(FirstOut, Len(peer.taken))
              skip == Sub(next, g.seq)
              new == SubSeq(g.data, skip + 1, Len(g.data))
              all == peer.taken \o SubSeq(new, 1, n)
          IN  /\ ~Ahead(g.seq, next) /\ n <= Len(new)
              /\ peer' = [peer EXCEPT
                    !.taken = all,
                    !.acks = @ \cup {Add(FirstOut, Len(all))},
                    !.wire = {h \in @ : Ahead(Add(h.seq, Len(h.data)),
                                              Add(FirstOut, Len(all)))}]
    /\ UNCHANGED <<stream, conn, wrote, got, goodbye>>
-----------------------------------------------------------------------------
(* Receiving: tcp_input, and whether it ends in an ACK                     *)

Ignored(s) == [s |-> s, ack |-> FALSE]
Rejected(s) == [s |-> s, ack |-> TRUE]

Refused(s) == Ignored([s EXCEPT !.state = Failed, !.ack_pending = FALSE])

InSynSent(s, g) ==
    IF g.ack # s.next_tx THEN Ignored(s)
    ELSE CASE g.kind = "rst" -> Refused(s)
           [] g.kind = "syn" -> Rejected([s EXCEPT !.next_rx = Add(g.seq, 1),
                                                   !.acked_tx = g.ack,
                                                   !.state = Established])
           [] OTHER -> Ignored(s)

Acceptable(s, g) ==
    LET w == Window(s)
        span == Len(g.data) + (IF g.kind = "fin" THEN 1 ELSE 0)
    IN  IF span = 0
        THEN IF w > 0 THEN Sub(g.seq, s.next_rx) < w ELSE g.seq = s.next_rx
        ELSE w > 0 /\ (\/ Sub(g.seq, s.next_rx) < w
                       \/ Sub(Add(g.seq, span - 1), s.next_rx) < w)

\* What remains of the output.  (Mutated: all of it, sent as if it were the rest.)
Everything(s, progress) == s.outgoing
Rest(s, progress) == SubSeq(s.outgoing, progress + 1, Len(s.outgoing))

\* An ACK within what is outstanding releases queued output.
\* (Mutated: a repeated ACK starts the attempts again.)
AckedAgain(s, ack) ==
    LET progress == Sub(ack, s.acked_tx)
        rest == Rest(s, progress)
    IN  IF Ahead(s.acked_tx, ack) \/ Ahead(ack, s.next_tx) THEN s
        ELSE IF progress \in 0 .. Len(s.outgoing)
        THEN [s EXCEPT !.acked_tx = ack, !.outgoing = rest, !.due = FALSE,
                       !.attempts = IF rest = <<>> THEN 0 ELSE 1]
        ELSE [s EXCEPT !.acked_tx = ack]
Acked(s, ack) ==
    LET progress == Sub(ack, s.acked_tx)
        rest == Rest(s, progress)
    IN  IF Ahead(s.acked_tx, ack) \/ Ahead(ack, s.next_tx) THEN s
        ELSE IF progress \in 1 .. Len(s.outgoing)
        THEN [s EXCEPT !.acked_tx = ack, !.outgoing = rest, !.due = FALSE,
                       !.attempts = IF rest = <<>> THEN 0 ELSE 1]
        ELSE [s EXCEPT !.acked_tx = ack]

\* Of a segment, what was received before and what there is room for.
Skip(s, g) ==
    IF Ahead(s.next_rx, g.seq) THEN Least(Len(g.data), Sub(s.next_rx, g.seq)) ELSE 0
Accepted(s, g) == Least(Len(g.data) - Skip(s, g), Window(s))

InEstablished(s, g) ==
    LET w == Window(s)
        s1 == Acked(s, g.ack)
        length == Len(g.data)
        skip == Skip(s, g)
        accepted == Accepted(s, g)
        s2 == [s1 EXCEPT !.buffer = @ \o SubSeq(g.data, skip + 1, skip + accepted),
                         !.next_rx = Add(@, accepted)]
        ends == g.kind = "fin" /\ skip + accepted = length /\ accepted < w
        s3 == IF ends THEN [s2 EXCEPT !.next_rx = Add(@, 1), !.eof = TRUE] ELSE s2
    IN  CASE g.kind = "rst" /\ g.seq # s.next_rx -> Ignored(s)
          [] g.kind = "rst" /\ g.seq = s.next_rx -> Refused(s)
          [] g.kind = "syn" -> Rejected(s)
          [] OTHER -> IF ~Acceptable(s, g) \/ Ahead(g.ack, s.next_tx) THEN Rejected(s)
                      ELSE IF Add(g.seq, skip) # s.next_rx THEN Rejected(s1)
                      ELSE [s |-> s3, ack |-> length > 0 \/ g.kind = "fin"]

tcp_input(s, g) ==
    CASE s.state \notin Live \/ g.port # conn -> Ignored(s)
      [] s.state = Syn /\ g.port = conn -> InSynSent(s, g)
      [] s.state = Established /\ g.port = conn -> InEstablished(s, g)

\* A frame with a segment, and the ACK it may call for.
Received(l, g, r) ==
    LET i == tcp_input(l.s, g)
        m == [l EXCEPT !.s = i.s]
    IN  IF i.ack THEN tcp_ack(m, r) ELSE m
Answered(s, g) == tcp_input(s, g).ack
-----------------------------------------------------------------------------
(* The calls of the owner, and what the rest of net.c does to the stream   *)

Become(l) == stream' = l.s /\ peer' = l.p

\* NV_NET_TCP_OPEN of an idle stream; its first tcp_retry sends the SYN.
TcpOpen(a) ==
    /\ stream.state = Idle /\ conn < MaxConn
    /\ \E r \in Outcome :
          Become(tcp_retry(
              [s |-> [state |-> Syn, owner |-> a, next_tx |-> FirstOut,
                      acked_tx |-> Isn, next_rx |-> 0, outgoing |-> <<>>,
                      buffer |-> <<>>, eof |-> FALSE, attempts |-> 0,
                      ack_pending |-> FALSE, due |-> TRUE, fresh |-> FALSE],
               p |-> NoPeer], r))
    /\ conn' = conn + 1
    /\ UNCHANGED <<wrote, got, goodbye>>

\* NV_NET_TCP_SEND: one batch at a time, kept until it is acknowledged.
TcpSend(a) ==
    /\ stream.state = Established /\ stream.owner = a
    /\ stream.acked_tx = stream.next_tx
    /\ \E n \in 1 .. DataMax :
          LET data == [i \in 1 .. n |-> wrote + i]
              l == Acknowledging(Line, data, stream.next_tx, "sent")
          IN  /\ wrote + n <= OutLen
              /\ Become([l EXCEPT !.s.outgoing = data,
                                  !.s.next_tx = Add(@, n),
                                  !.s.attempts = 1, !.s.due = FALSE])
              /\ wrote' = wrote + n
    /\ UNCHANGED <<conn, got, goodbye>>

\* NV_NET_TCP_RECV, and the ACK that reopens the window.
TcpRecv(a) ==
    /\ stream.state = Established /\ stream.owner = a
    /\ \E n \in 1 .. Len(stream.buffer), r \in Outcome :
          /\ got' = got \o SubSeq(stream.buffer, 1, n)
          /\ Become(tcp_ack([Line EXCEPT !.s.buffer = SubSeq(@, n + 1, Len(@))], r))
    /\ UNCHANGED <<conn, wrote, goodbye>>

Forget(how) ==
    /\ stream' = NoStream /\ peer' = NoPeer
    /\ wrote' = 0 /\ got' = <<>> /\ goodbye' = how
    /\ UNCHANGED conn

\* NV_NET_TCP_CLOSE: a FIN if everything is acknowledged, else a reset; once.
TcpClose(a) ==
    /\ stream.state # Idle /\ stream.owner = a
    /\ \E r \in Outcome :
          Forget(IF stream.state = Established /\ stream.acked_tx = stream.next_tx
                    /\ r = "sent" THEN "fin" ELSE "lost")

\* Any other call of the owner takes the error, and with it the stream.
TcpReport(a) ==
    /\ stream.state = Failed /\ stream.owner = a
    /\ Forget("lost")

DropStream == IF stream.state = Idle THEN UNCHANGED tcp ELSE Forget("lost")

\* A frame outside net_poll, as the USB adapter delivers it.
TcpReceive(g) ==
    /\ \E r \in IF Answered(stream, g) THEN Outcome ELSE {"sent"} :
          Become(Received(Line, g, r))
    /\ UNCHANGED <<conn, wrote, got, goodbye>>

TcpRetry(r) ==
    /\ Become(tcp_retry(Line, r))
    /\ UNCHANGED <<conn, wrote, got, goodbye>>

\* net_poll with the wired adapter: a frame (bound: one), then tcp_retry.
TcpPollFrame(g) ==
    /\ \E r1 \in IF Answered(stream, g) THEN Outcome ELSE {"sent"} :
          LET l == Received(Line, g, r1)
          IN  \E r2 \in IF Sends(l.s) THEN Outcome ELSE {"sent"} :
                Become(tcp_retry(l, r2))
    /\ UNCHANGED <<conn, wrote, got, goodbye>>

\* The timer: a tick, and with it perhaps the hundredth since last_send.
TcpTick(late) ==
    /\ stream.state \in Live
    /\ stream' = [stream EXCEPT !.fresh = FALSE, !.due = @ \/ late]
    /\ UNCHANGED <<conn, peer, wrote, got, goodbye>>
=============================================================================
