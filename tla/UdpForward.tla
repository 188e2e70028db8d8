------------------------------ MODULE UdpForward ------------------------------
(***************************************************************************)
(* Packets on their way to the APRS service (UDPListn.c, aprs.c).          *)
(* UDPListener, one thread, takes datagrams of client programs from a      *)
(* socket, drops one that equals the last, watches the sequence number its *)
(* sender may put in, and gives the packet to AprsLogReceivedPacket or     *)
(* AprsLogDigipeatedPacket; AprsPoller calls AprsLogPacket.  Each of the   *)
(* three functions puts packets in a queue of its own, whose one thread    *)
(* waits until the service is connected and sends it a request.            *)
(* Reports of versions, the other datagrams, are in UserStats.             *)
(***************************************************************************)
EXTENDS Integers, Sequences, FiniteSets

CONSTANTS Station,     \* the clients that send datagrams
          Numbered,    \* those whose datagrams hold a number, "[n]"
          TcpAprs,     \* TRUE if TCP_APRS is defined
          None,        \* no datagram, no packet
          Restarted,   \* the mark of a restart in what was handled
          Datagram,    \* bound: the datagrams the clients may send
          MaxNet,      \* bound: datagrams that wait in the socket
          MaxRepeats,  \* bound: datagrams the network delivers again
          MaxFailures, \* bound: failures of recvfrom()
          MaxPolled    \* bound: packets of AprsPoller

ASSUME NumberedAssumption == Numbered \subseteq Station
ASSUME TcpAprsAssumption == TcpAprs \in BOOLEAN
ASSUME NoneAssumption == None # Restarted
ASSUME ForwardBounds == {MaxNet, MaxRepeats, MaxFailures, MaxPolled} \subseteq Nat

Queue == {"LogPacket", "RcvdPacket", "DigiPacket"}
\* Actions a datagram names: RFtoRF, IGated, and those only written to the log.
Action == {"RFtoRF", "IGated", "Msg2RF"}

\* A client counts its datagrams; the number is in the text if it is Numbered.
ASSUME DatagramAssumption ==
    Datagram \subseteq [action : Action, from : Station, n : Nat \ {0}]

\* what AprsPoller received: no client sent it
Polled(i) == [action |-> "Poll", from |-> None, n |-> i]
Packet   == Datagram \cup {Polled(i) : i \in 1..MaxPolled}

ASSUME MarksAssumption == {None, Restarted} \cap Packet = {}

VARIABLES
    out,        \* per client: the datagram it sent last
    net,        \* datagrams that wait in the socket
    repeats,    \* number of datagrams delivered again
    listening,  \* TRUE while UDPListener has its socket
    last,       \* the datagram taken before
    UDPSEQ,     \* per client: the symbol with its last number, 0 if undefined
    missed,     \* per client: packets reported as missed, in total
    handled,    \* the datagrams that were not dropped, and the restarts
    forwarded,  \* what AprsForwardPacket was given
    polled,     \* number of packets of AprsPoller
    queue,      \* the queues
    taken,      \* per queue: Req of its thread
    done,       \* per queue: the packets a request was sent for
    connected,  \* TRUE while the service is connected
    failures      \* number of failures

clients   == <<out, repeats>>
listener  == <<listening, last, UDPSEQ, missed, handled, forwarded>>
dequeuers == <<taken, done>>
service   == <<connected, failures>>
vars == <<clients, net, listener, polled, queue, dequeuers, service>>

Init ==
    /\ out = [s \in Station |-> None]
    /\ net = <<>>
    /\ repeats = 0
    /\ listening = TRUE
    /\ last = None
    /\ UDPSEQ = [s \in Station |-> 0]
    /\ missed = [s \in Station |-> 0]
    /\ handled = <<>>
    /\ forwarded = <<>>
    /\ polled = 0
    /\ queue = [q \in Queue |-> <<>>]
    /\ taken = [q \in Queue |-> None]
    /\ done = [q \in Queue |-> <<>>]
    /\ connected = FALSE
    /\ failures = 0

-----------------------------------------------------------------------------
(* The clients and the network.                                            *)

\* A datagram gets to the socket, if there is one, or is lost.
Arrive(d) ==
    \/ listening /\ Len(net) < MaxNet /\ net' = Append(net, d)
    \/ UNCHANGED net

NextNumber(s) == IF out[s] = None THEN 1 ELSE out[s].n + 1

Send(s) ==
    /\ \E d \in Datagram :
         /\ d.from = s
         /\ d.n = NextNumber(s)
         /\ out' = [out EXCEPT ![s] = d]
         /\ Arrive(d)
    /\ UNCHANGED <<repeats, listener, polled, queue, dequeuers, service>>

\* The network delivers a datagram again before its client sends the next.
Repeat(s) ==
    /\ out[s] # None
    /\ repeats < MaxRepeats
    /\ repeats' = repeats + 1
    /\ Arrive(out[s])
    /\ UNCHANGED <<out, listener, polled, queue, dequeuers, service>>

-----------------------------------------------------------------------------
(* UDPListener.                                                            *)

(* Operators with a name of the form <Definition>_<Fault> are the          *)
(* definition with a plausible fault of the code: each shows that a        *)
(* property can fail.  No specification uses them.                         *)

Gap_AnyDifference(s, n) == IF UDPSEQ[s] # 0 THEN n - UDPSEQ[s] - 1 ELSE 0

Gap_CountsArrived(s, n) == IF UDPSEQ[s] # 0 /\ n > UDPSEQ[s] THEN n - UDPSEQ[s] ELSE 0

\* What the number of a datagram is compared with: no gap at the first one.
Gap(s, n) == IF UDPSEQ[s] # 0 /\ n > UDPSEQ[s] THEN n - UDPSEQ[s] - 1 ELSE 0

\* SySetSymbolValue(Symbol, pPkt+1)
Sequence(d) ==
    IF d.from \in Numbered
    THEN /\ missed' = [missed EXCEPT ![d.from] = @ + Gap(d.from, d.n)]
         /\ UDPSEQ' = [UDPSEQ EXCEPT ![d.from] = d.n]
    ELSE UNCHANGED <<missed, UDPSEQ>>

\* The queue of AprsLogDigipeatedPacket or of AprsLogReceivedPacket.
QueueFor(a) == CASE a = "RFtoRF" -> {"DigiPacket"}
                 [] a = "IGated" -> {"RcvdPacket"}
                 [] OTHER        -> {}

\* DsQueueElement, on a queue that exists only if TCP_APRS is defined
PutIn(Q, x) ==
    queue' = [q \in Queue |-> IF TcpAprs /\ q \in Q THEN Append(queue[q], x)
                              ELSE queue[q]]

Handle(d) ==
    /\ handled' = Append(handled, d)
    /\ Sequence(d)
    /\ PutIn(QueueFor(d.action), d)
    /\ forwarded' = IF d.action = "IGated" THEN Append(forwarded, d) ELSE forwarded
    /\ last' = d

Receive ==
    /\ listening
    /\ net # <<>>
    /\ net' = Tail(net)
    /\ IF Head(net) = last
       THEN UNCHANGED <<last, UDPSEQ, missed, handled, forwarded, queue>>
       ELSE Handle(Head(net))
    /\ UNCHANGED <<clients, listening, polled, dequeuers, service>>

\* recvfrom() fails: the socket is closed with what waits in it and the thread
\* starts its successor, which has a "last" of its own.
ReceiveFails ==
    /\ listening
    /\ failures < MaxFailures
    /\ failures' = failures + 1
    /\ listening' = FALSE
    /\ net' = <<>>
    /\ UNCHANGED <<clients, last, UDPSEQ, missed, handled, forwarded, polled, queue,
                   dequeuers, connected>>

Bind_NoSuccessor == ~listening /\ listening /\ UNCHANGED vars

\* The successor binds its socket.  When it cannot, it starts another.
Bind ==
    /\ ~listening
    /\ listening' = TRUE
    /\ last' = None
    /\ handled' = Append(handled, Restarted)
    /\ UNCHANGED <<clients, net, UDPSEQ, missed, forwarded, polled, queue,
                   dequeuers, service>>

-----------------------------------------------------------------------------
(* AprsPoller, the queues and the service.                                 *)

AprsLogPacket ==
    /\ polled < MaxPolled
    /\ polled' = polled + 1
    /\ PutIn({"LogPacket"}, Polled(polled + 1))
    /\ UNCHANGED <<clients, net, listener, dequeuers, service>>

Dequeue_SecondThread(q) ==
    /\ queue[q] # <<>>
    /\ taken' = [taken EXCEPT ![q] = Head(queue[q])]
    /\ queue' = [queue EXCEPT ![q] = Tail(@)]
    /\ UNCHANGED <<clients, net, listener, polled, done, service>>

Dequeue_NoLoop(q) ==
    /\ taken[q] = None
    /\ queue[q] # <<>>
    /\ done[q] = <<>>
    /\ taken' = [taken EXCEPT ![q] = Head(queue[q])]
    /\ queue' = [queue EXCEPT ![q] = Tail(@)]
    /\ UNCHANGED <<clients, net, listener, polled, done, service>>

\* DsDeQueueElement: DsCreateQueue(..., 0, 1, ...) gives a queue one thread.
Dequeue(q) ==
    /\ taken[q] = None
    /\ queue[q] # <<>>
    /\ taken' = [taken EXCEPT ![q] = Head(queue[q])]
    /\ queue' = [queue EXCEPT ![q] = Tail(@)]
    /\ UNCHANGED <<clients, net, listener, polled, done, service>>

\* CiSendRequestTo once CiCheckServerConnection is TRUE.  A request that fails
\* is written to the log; in either case the packet is freed.
Request(q) ==
    /\ taken[q] # None
    /\ connected
    /\ done' = [done EXCEPT ![q] = Append(@, taken[q])]
    /\ taken' = [taken EXCEPT ![q] = None]
    /\ UNCHANGED <<clients, net, listener, polled, queue, service>>

Connect ==
    /\ ~connected
    /\ connected' = TRUE
    /\ UNCHANGED <<clients, net, listener, polled, queue, dequeuers, failures>>

Disconnect ==
    /\ connected
    /\ connected' = FALSE
    /\ UNCHANGED <<clients, net, listener, polled, queue, dequeuers, failures>>

Next ==
    \/ \E s \in Station : Send(s) \/ Repeat(s)
    \/ Receive \/ ReceiveFails \/ Bind
    \/ AprsLogPacket
    \/ \E q \in Queue : Dequeue(q) \/ Request(q)
    \/ Connect \/ Disconnect

Spec == Init /\ [][Next]_vars

\* The system lets a socket be bound again, and AprsForwardPacket returns to the
\* listener: a client of the server port that does not read for ever would hold
\* it in send(), which is why AprsServer assumes no fairness of it.  A thread that waits for the service looks every minute, so it
\* gets its turn if the service is connected again and again.
FairSpec ==
    /\ Spec
    /\ WF_vars(Receive) /\ WF_vars(Bind)
    /\ \A q \in Queue : WF_vars(Dequeue(q)) /\ SF_vars(Request(q))
    /\ WF_vars(Connect)

-----------------------------------------------------------------------------
(* Properties.                                                             *)

\* Every variable keeps its type.
TypeOK ==
    /\ out \in [Station -> Datagram \cup {None}]
    /\ net \in Seq(Datagram)
    /\ repeats \in 0..MaxRepeats
    /\ listening \in BOOLEAN
    /\ last \in Datagram \cup {None}
    /\ UDPSEQ \in [Station -> Nat]
    /\ missed \in [Station -> Nat]
    /\ handled \in Seq(Datagram \cup {Restarted})
    /\ forwarded \in Seq(Datagram)
    /\ polled \in 0..MaxPolled
    /\ queue \in [Queue -> Seq(Packet)]
    /\ taken \in [Queue -> Packet \cup {None}]
    /\ done \in [Queue -> Seq(Packet)]
    /\ connected \in BOOLEAN
    /\ failures \in 0..MaxFailures

\* What went through a queue: its requests, the packet of its thread, the rest.
Stream(q) == done[q] \o (IF taken[q] = None THEN <<>> ELSE <<taken[q]>>) \o queue[q]

Handled(s) == {handled[i].n : i \in {j \in DOMAIN handled :
                                 handled[j] # Restarted /\ handled[j].from = s}}

\* The number of packets UDPListener reports as missed from a client that counts
\* its datagrams is the number it has not handled of those between the first
\* and the last it has, however often it was restarted.
MissedMeansLost ==
    \A s \in Numbered :
        missed[s] = Cardinality({n \in 1..UDPSEQ[s] :
            /\ n \notin Handled(s)
            /\ \E m \in Handled(s) : m < n})

IsFor(a, d) == d # Restarted /\ d.action = a

\* What a history h gave to the function of an action, in order.
Given(a, h) ==
    LET given[i \in 0..Len(h)] ==
            IF i = 0 THEN <<>>
            ELSE IF IsFor(a, h[i]) THEN Append(given[i - 1], h[i])
            ELSE given[i - 1]
    IN  given[Len(h)]

\* The packets of the poller, and what AprsLogReceivedPacket and
\* AprsLogDigipeatedPacket were given, are in the stream of their queue, once and
\* in that order, whatever the connection does.
StreamIsWhatWasHandled ==
    TcpAprs =>
        /\ Stream("LogPacket") = [i \in 1..polled |-> Polled(i)]
        /\ \A a \in {"IGated", "RFtoRF"} : \A q \in QueueFor(a) : Stream(q) = Given(a, handled)

\* What the listener has taken for a queue is sent to the service in the end.
QueuesDrain ==
    \A q \in Queue : queue[q] # <<>> \/ taken[q] # None
                        ~> queue[q] = <<>> /\ taken[q] = None

\* UDPListener comes back after every failure and empties its socket.
SocketDrains == net # <<>> ~> net = <<>> /\ listening

=============================================================================
