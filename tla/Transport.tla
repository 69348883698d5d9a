----------------------------- MODULE Transport -----------------------------
(***************************************************************************)
(* The connection of a client and the room server, of which every event of *)
(* a room and a match makes use: the notify protocol of TNL's              *)
(* NetConnection and the events of its EventConnection, over a network     *)
(* that loses, repeats and reorders packets.                               *)
(*                                                                         *)
(* A packet is sent once.  Every packet of the other side says which of    *)
(* the last packets arrived; an end is thus notified, in order, of the     *)
(* fate of each packet it sent, and sends the events of a lost one again.  *)
(* Pings and their answers carry the number of the last packet of data.    *)
(*                                                                         *)
(* The network is a set of packets: one may stay there and never arrive,   *)
(* arrive late or twice, but not later than Delay packets, or be lost when *)
(* others are sent.                                                        *)
(***************************************************************************)
EXTENDS Integers, Sequences, FiniteSets

CONSTANTS
    End,             \* the two ends of the connection
    Window,          \* MaxPacketWindowSize, 32
    SeqMod,          \* SequenceNumberWindowSize, 2048
    AckMod,          \* AckSequenceNumberWindowSize, 1024
    AckUnit,         \* bits of the ack mask are sent in units of these, 8
    EventMod,        \* numbers of an ordered event in a packet, 128
    EventWindow,     \* how far they run ahead of what is acknowledged, 126
    Delay,           \* packets by which one may be late
    Room,            \* the most events that a packet has room for
    First,           \* mInitialSendSeq, of both ends
    Ordered,         \* how many ordered events are posted, by end
    Unordered,       \* and how many that are guaranteed only
    Pinging,         \* the ends whose pings are considered
    NetBound,        \* the most packets under way considered
    MaxSend          \* and of packets of data, by end

ASSUME EndAssumption == \E a, b \in End : a # b /\ End = {a, b}
ASSUME WindowAssumption ==
    /\ Window \in Nat \ {0, 1, 2} /\ AckUnit \in Nat \ {0} /\ First \in Nat
    /\ Delay \in Nat
    /\ SeqMod \in Nat /\ Window + Delay <= SeqMod
    /\ AckMod \in Nat /\ Window + Delay <= AckMod
    /\ Room \in Nat \ {0} /\ EventMod \in Nat /\ EventWindow \in 1..EventMod
ASSUME PostsAssumption ==
    Ordered \in [End -> Nat] /\ Unordered \in [End -> Nat] /\ MaxSend \in [End -> Nat]

VARIABLES
    conn,            \* the NetConnection of each end
    net,             \* the packets under way
    processed,       \* history: the ordered events an end has processed
    loose,           \* history: the other events it has processed, in their order
    swallowed        \* history: events of packets acknowledged but never read

vars == <<conn, net, processed, loose, swallowed>>

Peer(e) == CHOOSE p \in End : p # e

Start ==
    [lastSendSeq |-> First, highestAcked |-> First,
     lastSeqRecvd |-> First, lastRecvAckAck |-> First,
     ackMask |-> {},               \* the bits that are set
     notifyQueue |-> <<>>,         \* what is known of each packet not yet notified
     sendQueue |-> <<>>, unordered |-> <<>>,
     waiting |-> <<>>,             \* mWaitSeqEvents
     notifyEvents |-> <<>>,        \* mNotifyEventList
     nextSendEvent |-> 0, nextUnordered |-> 0, nextRecvEvent |-> 0,
     lastAckedEvent |-> -1]

Init ==
    /\ conn = [e \in End |-> Start]
    /\ net = {}
    /\ processed = [e \in End |-> <<>>]
    /\ loose = [e \in End |-> <<>>]
    /\ swallowed = [e \in End |-> {}]

-----------------------------------------------------------------------------
(* Numbers on the wire                                                     *)

\* The number, at or after base, whose low bits are those of n.
Unwrapped(n, base, mod) == base + ((n - base) % mod)

\* An event goes into a list before the first, from where the last one was put, of
\* those that are not before it.
InOrder(walk, n) ==
    LET list == walk.list
        k == CHOOSE k \in walk.at..Len(list) :
                /\ \A i \in walk.at + 1..k : list[i] < n
                /\ k < Len(list) => list[k + 1] >= n
    IN [list |-> SubSeq(list, 1, k) \o <<n>> \o SubSeq(list, k + 1, Len(list)), at |-> k + 1]
AllInOrder(list, new) ==
    LET upTo[i \in 0..Len(new)] ==
            IF i = 0 THEN [list |-> list, at |-> 0] ELSE InOrder(upTo[i - 1], new[i])
    IN upTo[Len(new)].list

\* The numbers from n on that a list begins with.
Run(list, n) ==
    CHOOSE k \in 0..Len(list) :
        /\ \A i \in 1..k : list[i] = n + i - 1
        /\ k < Len(list) => list[k + 1] # n + k

-----------------------------------------------------------------------------
(* Sending                                                                 *)

\* EventConnection::postNetEvent.
PostOrdered(e) ==
    /\ conn[e].nextSendEvent < Ordered[e]
    /\ conn' = [conn EXCEPT ![e].sendQueue = Append(@, conn[e].nextSendEvent),
                            ![e].nextSendEvent = @ + 1]
    /\ UNCHANGED <<net, processed, loose, swallowed>>
PostUnordered(e) ==
    /\ conn[e].nextUnordered < Unordered[e]
    /\ conn' = [conn EXCEPT ![e].unordered = Append(@, conn[e].nextUnordered),
                            ![e].nextUnordered = @ + 1]
    /\ UNCHANGED <<net, processed, loose, swallowed>>

WindowFull(c) == c.lastSendSeq - c.highestAcked >= Window - 2

\* The bits of the ack mask that a header has: as many as are not known to have
\* arrived, in whole units.
SentMask(c) ==
    LET units == (c.lastSeqRecvd - c.lastRecvAckAck + AckUnit - 1) \div AckUnit
    IN {i \in c.ackMask : i < AckUnit * units}

\* NetConnection::writePacketHeader.
Packet(e, c, type, first, others) ==
    [from |-> e, type |-> type, seq |-> c.lastSendSeq, ack |-> c.lastSeqRecvd,
     mask |-> SentMask(c), unordered |-> first, ordered |-> others]

\* The network after packets are sent, without those that are too late by now, and
\* with one lost when there would be too many.
Send(packets) ==
    LET under == {p \in net \cup packets :
                    /\ conn'[p.from].lastSendSeq - p.seq < Delay
                    /\ conn'[p.from].lastSeqRecvd - p.ack < Delay}
    IN IF Cardinality(under) <= NetBound THEN net' = under
       ELSE \E lost \in under : net' = under \ {lost}

\* Ordered events are not sent beyond the window of events.
WithinEventWindow(c) ==
    Cardinality({i \in 1..Len(c.sendQueue) :
                    c.sendQueue[i] <= c.lastAckedEvent + EventWindow})

\* checkPacketSend, writeRawPacket and EventConnection::writePacket: the events that
\* there is room for, the unordered ones first.  Each queue is read up to an event that
\* does not fit, be it a large one; an empty packet has room for any.
CheckPacketSend(e) ==
    LET c == conn[e]
    IN /\ ~WindowFull(c)
       /\ c.sendQueue # <<>> \/ c.unordered # <<>>
       /\ c.lastSendSeq - First < MaxSend[e]
       /\ \E i \in 0..Len(c.unordered), j \in 0..WithinEventWindow(c) :
            LET first == SubSeq(c.unordered, 1, i)
                others == SubSeq(c.sendQueue, 1, j)
                note == [unordered |-> first, ordered |-> others, recvd |-> c.lastSeqRecvd]
                sent == [c EXCEPT !.lastSendSeq = @ + 1,
                                  !.notifyQueue = Append(@, note),
                                  !.unordered = SubSeq(@, i + 1, Len(@)),
                                  !.sendQueue = SubSeq(@, j + 1, Len(@))]
            IN /\ i + j <= Room
               /\ i = 0 => c.unordered = <<>>
               /\ i + j = 0 => WithinEventWindow(c) = 0
               /\ conn' = [conn EXCEPT ![e] = sent]
               /\ Send({Packet(e, sent, "data", first, others)})
    /\ UNCHANGED <<processed, loose, swallowed>>

\* NetConnection::checkTimeout: nothing was heard for the time of a ping.
Ping(e) ==
    /\ e \in Pinging
    /\ UNCHANGED <<conn, processed, loose, swallowed>>
    /\ Send({Packet(e, conn[e], "ping", <<>>, <<>>)})

-----------------------------------------------------------------------------
(* Notifies                                                                *)

\* EventConnection::packetReceived.
PacketReceived(c, note) ==
    LET list == AllInOrder(c.notifyEvents, note.ordered)
        acked == Run(list, c.lastAckedEvent + 1)
    IN [c EXCEPT !.notifyEvents = SubSeq(list, acked + 1, Len(list)),
                 !.lastAckedEvent = @ + acked]

\* EventConnection::packetDropped: unordered events go to the head, one by one.
Reversed(s) == [i \in 1..Len(s) |-> s[Len(s) - i + 1]]
PacketDroppedUnordered(c, note) ==
    [c EXCEPT !.sendQueue = AllInOrder(@, note.ordered)]
PacketDropped(c, note) ==
    [c EXCEPT !.sendQueue = AllInOrder(@, note.ordered),
              !.unordered = Reversed(note.unordered) \o @]

\* NetConnection::handleNotify, and how far the other side knows of what we got.
HandleNotifyKept(c, recvd) ==
    LET note == Head(c.notifyQueue)
        rest == [c EXCEPT !.highestAcked = @ + 1]
    IN IF recvd THEN [PacketReceived(rest, note) EXCEPT !.lastRecvAckAck = note.recvd,
                                                        !.notifyQueue = Tail(@)]
       ELSE PacketDropped(rest, note)
HandleNotify(c, recvd) ==
    LET note == Head(c.notifyQueue)
        rest == [c EXCEPT !.notifyQueue = Tail(@), !.highestAcked = @ + 1]
    IN IF recvd THEN [PacketReceived(rest, note) EXCEPT !.lastRecvAckAck = note.recvd]
       ELSE PacketDropped(rest, note)

\* All that a header with this highest ack and this mask tells.
Notified(c, ack, mask) ==
    LET after[i \in 0..ack - c.highestAcked] ==
            IF i = 0 THEN c
            ELSE HandleNotify(after[i - 1], ack - (c.highestAcked + i) \in mask)
    IN after[ack - c.highestAcked]

-----------------------------------------------------------------------------
(* Receiving                                                               *)

\* The mask is shifted by the packets that were missed; the low bit is set for data.
Shifted(mask, by, data) ==
    {i \in 0..Window - 1 : i - by \in mask \/ (i = 0 /\ data)}

\* The other side knows more about its window than we do.
Clamped(c, seq) ==
    IF seq - c.lastRecvAckAck > Window THEN [c EXCEPT !.lastRecvAckAck = seq - Window] ELSE c

\* EventConnection::readPacket: the ordered events that wait then, by number.
Arrived(c, p) ==
    AllInOrder(c.waiting,
        [i \in 1..Len(p.ordered) |-> Unwrapped(p.ordered[i], c.nextRecvEvent, EventMod)])

Events(p) ==
    {<<"unordered", p.unordered[i]>> : i \in 1..Len(p.unordered)}
        \cup {<<"ordered", p.ordered[i]>> : i \in 1..Len(p.ordered)}

\* What readPacketHeader returns: whether there is data to read, or only a header.
HasNewDataAgain(c, seq, type) == type = "data"
HasNewData(c, seq, type) == type = "data" /\ seq # c.lastSeqRecvd

\* readRawPacket: readPacketHeader and, of new data, readPacket.
Receive(p) ==
    LET e == Peer(p.from)
        c == conn[e]
        seq == Unwrapped(p.seq, c.lastSeqRecvd, SeqMod)
        ack == Unwrapped(p.ack, c.highestAcked, AckMod)
        new == HasNewData(c, seq, p.type)
        known == [Clamped(Notified(c, ack, p.mask), seq) EXCEPT
                    !.ackMask = Shifted(@, seq - c.lastSeqRecvd, p.type = "data"),
                    !.lastSeqRecvd = seq]
        arrived == IF new THEN Arrived(known, p) ELSE known.waiting
        now == Run(arrived, known.nextRecvEvent)
        read == [known EXCEPT !.waiting = SubSeq(arrived, now + 1, Len(arrived)),
                              !.nextRecvEvent = @ + now]
        answers == p.type = "ping" \/ seq - known.lastRecvAckAck > Window \div 2
    IN /\ seq - c.lastSeqRecvd < Window
       /\ ack <= c.lastSendSeq
       /\ conn' = [conn EXCEPT ![e] = read]
       /\ Send(IF answers THEN {Packet(e, known, "ack", <<>>, <<>>)} ELSE {})
       /\ processed' = [processed EXCEPT ![e] = @ \o SubSeq(arrived, 1, now)]
       /\ loose' = IF new THEN [loose EXCEPT ![e] = @ \o p.unordered] ELSE loose
       /\ swallowed' =
            IF p.type = "data" /\ ~new /\ 0 \notin c.ackMask
            THEN [swallowed EXCEPT ![p.from] = @ \cup Events(p)] ELSE swallowed

Next ==
    \/ \E e \in End : PostOrdered(e) \/ PostUnordered(e) \/ CheckPacketSend(e) \/ Ping(e)
    \/ \E p \in net : Receive(p)

Spec == Init /\ [][Next]_vars

-----------------------------------------------------------------------------
(* Properties                                                              *)

\* What the code asserts: a packet of data is never written with the window full, an
\* ack mask fits its field, and there is a notify for each packet on the way.
TypeOK ==
    \A e \in End :
        LET c == conn[e]
        IN /\ c.lastSendSeq - c.highestAcked = Len(c.notifyQueue)
           /\ Len(c.notifyQueue) <= Window - 2
           /\ c.lastSeqRecvd - c.lastRecvAckAck \in 0..Window
           /\ c.lastSeqRecvd <= conn[Peer(e)].lastSendSeq
           /\ c.nextRecvEvent <= conn[Peer(e)].nextSendEvent

\* Ordered events are processed in the order in which they were posted, none twice and
\* none left out, whatever the network does to the packets; the seven bits of an event's
\* number stand for no other event than the one a packet carries, unless one before it
\* was swallowed, see NothingLost; and no other event is processed twice either, for what
\* is sent again did not arrive.
Restored(p, n) == Unwrapped(n % EventMod, conn[Peer(p.from)].nextRecvEvent, EventMod)
Unread(p) ==
    LET c == conn[Peer(p.from)]
        seq == Unwrapped(p.seq, c.lastSeqRecvd, SeqMod)
    IN seq - c.lastSeqRecvd < Window /\ HasNewData(c, seq, p.type)
Intact(e) == \A event \in swallowed[e] : event[1] # "ordered"
ProcessedOnceInOrder ==
    /\ \A e \in End :
        /\ Len(processed[e]) = conn[e].nextRecvEvent
        /\ \A i \in 1..Len(processed[e]) : processed[e][i] = i - 1
        /\ \A i, j \in 1..Len(loose[e]) : loose[e][i] = loose[e][j] => i = j
    /\ \A p \in net : Unread(p) /\ Intact(p.from) =>
        \A i \in 1..Len(p.ordered) : Restored(p, p.ordered[i]) = p.ordered[i]

Elements(s) == {s[i] : i \in 1..Len(s)}
InFlight(c) == UNION {Events(c.notifyQueue[i]) : i \in 1..Len(c.notifyQueue)}

\* An event that was posted was processed, or waits for another at the receiver, or is
\* to be sent, or in a packet whose fate is not known yet; but for a packet of data that
\* was overtaken by a ping or an ack, which bear its number: it is acknowledged when it
\* arrives, and never read.  That costs the ordered events after it too: they wait for
\* it until, the numbers having come round, one of them is taken for it.
NothingLost ==
    \A e \in End :
        LET c == conn[e]
            p == Peer(e)
        IN /\ \A n \in 0..c.nextSendEvent - 1 :
                \/ n \in Elements(processed[p]) \cup Elements(conn[p].waiting)
                            \cup Elements(c.sendQueue)
                \/ <<"ordered", n>> \in InFlight(c)
                \/ \E k \in 0..n : <<"ordered", k>> \in swallowed[e]
           /\ \A n \in 0..c.nextUnordered - 1 :
                \/ n \in Elements(loose[p]) \cup Elements(c.unordered)
                \/ <<"unordered", n>> \in InFlight(c) \cup swallowed[e]
=============================================================================
