--------------------------- MODULE UdpForwardProofs ---------------------------
(***************************************************************************)
(* Proofs about UdpForward, for any clients and datagrams and any bounds.  *)
(***************************************************************************)
EXTENDS UdpForward, FiniteSetTheorems, SequenceTheorems, TLAPS

-----------------------------------------------------------------------------
(* The types.                                                              *)

ClientsType == out \in [Station -> Datagram \cup {None}] /\ repeats \in 0..MaxRepeats
NetType == net \in Seq(Datagram)
SymbolsType == UDPSEQ \in [Station -> Nat] /\ missed \in [Station -> Nat]
ListenerType ==
    /\ listening \in BOOLEAN
    /\ last \in Datagram \cup {None}
    /\ handled \in Seq(Datagram \cup {Restarted})
    /\ forwarded \in Seq(Datagram)
QueueType == polled \in 0..MaxPolled /\ queue \in [Queue -> Seq(Packet)]
DequeuersType ==
    taken \in [Queue -> Packet \cup {None}] /\ done \in [Queue -> Seq(Packet)]
ServiceType == connected \in BOOLEAN /\ failures \in 0..MaxFailures

\* TypeOK in parts, one for each group of variables.
LEMMA TypeParts ==
    TypeOK <=> /\ ClientsType /\ NetType /\ SymbolsType /\ ListenerType
               /\ QueueType /\ DequeuersType /\ ServiceType
BY DEF TypeOK, ClientsType, NetType, SymbolsType, ListenerType, QueueType, DequeuersType,
       ServiceType

\* A datagram that arrives waits behind the others, or is lost.
LEMMA ArriveType ==
    ASSUME NetType, NEW d \in Datagram, Arrive(d)
    PROVE  NetType'
<1>1. CASE net' = Append(net, d) BY <1>1, AppendProperties DEF NetType
<1>2. CASE UNCHANGED net BY <1>2 DEF NetType
<1> QED BY <1>1, <1>2 DEF Arrive

\* The datagram that is received.
LEMMA HeadType ==
    ASSUME NetType, net # <<>>
    PROVE  Head(net) \in Datagram /\ Tail(net) \in Seq(Datagram)
BY HeadTailProperties DEF NetType

\* A gap is a number of packets.
LEMMA GapType ==
    ASSUME SymbolsType, NEW s \in Station, NEW n \in Nat
    PROVE  Gap(s, n) \in Nat
BY DEF SymbolsType, Gap

\* A queue gets one more packet.
LEMMA PutInType ==
    ASSUME QueueType, NEW Q, NEW x \in Packet, PutIn(Q, x)
    PROVE  queue' \in [Queue -> Seq(Packet)]
<1>1. \A q \in Queue : queue[q] \in Seq(Packet) BY DEF QueueType
<1>2. \A q \in Queue : Append(queue[q], x) \in Seq(Packet) BY <1>1, AppendProperties
<1> QED BY <1>1, <1>2 DEF PutIn

\* What a datagram that is handled leaves in symbols, listener and queues.
LEMMA HandleType ==
    ASSUME SymbolsType, ListenerType, QueueType, NEW d \in Datagram, Handle(d)
    PROVE  /\ UDPSEQ' \in [Station -> Nat] /\ missed' \in [Station -> Nat]
           /\ last' \in Datagram \cup {None}
           /\ handled' \in Seq(Datagram \cup {Restarted})
           /\ forwarded' \in Seq(Datagram)
           /\ queue' \in [Queue -> Seq(Packet)]
<1>1. d.from \in Station /\ d.n \in Nat BY DatagramAssumption
<1>2. UDPSEQ' \in [Station -> Nat] /\ missed' \in [Station -> Nat]
  <2>1. Gap(d.from, d.n) \in Nat BY <1>1, GapType
  <2>2. Sequence(d) BY DEF Handle
  <2> QED BY <1>1, <2>1, <2>2 DEF Sequence, SymbolsType
<1>3. last' \in Datagram \cup {None} BY DEF Handle
<1>4. handled' \in Seq(Datagram \cup {Restarted})
  BY AppendProperties DEF Handle, ListenerType
<1>5. forwarded' \in Seq(Datagram)
  BY AppendProperties DEF Handle, ListenerType
<1>6. queue' \in [Queue -> Seq(Packet)]
  <2>1. d \in Packet BY DEF Packet
  <2> QED BY <2>1, PutInType DEF Handle
<1> QED BY <1>2, <1>3, <1>4, <1>5, <1>6

\* What an action leaves alone keeps its type.
LEMMA Frames ==
    /\ ClientsType /\ UNCHANGED clients => ClientsType'
    /\ NetType /\ UNCHANGED net => NetType'
    /\ SymbolsType /\ UNCHANGED <<UDPSEQ, missed>> => SymbolsType'
    /\ ListenerType /\ UNCHANGED <<listening, last, handled, forwarded>> => ListenerType'
    /\ QueueType /\ UNCHANGED <<polled, queue>> => QueueType'
    /\ DequeuersType /\ UNCHANGED dequeuers => DequeuersType'
    /\ ServiceType /\ UNCHANGED service => ServiceType'
BY DEF ClientsType, NetType, SymbolsType, ListenerType, QueueType, DequeuersType, ServiceType,
       clients, dequeuers, service

Parts == /\ ClientsType /\ NetType /\ SymbolsType /\ ListenerType
         /\ QueueType /\ DequeuersType /\ ServiceType

\* The types after each action, one lemma per thread or outsider: the clients and
\* the network;
LEMMA SendType ==
    ASSUME Parts, NEW s \in Station, Send(s) \/ Repeat(s)
    PROVE  Parts'
<1>1. UNCHANGED <<listener, polled, queue, dequeuers, service>> BY DEF Send, Repeat
<1>2. ClientsType' /\ NetType'
  <2>1. CASE Send(s)
    <3> PICK d \in Datagram : out' = [out EXCEPT ![s] = d] /\ Arrive(d) BY <2>1 DEF Send
    <3>1. NetType' BY ArriveType DEF Parts
    <3> QED BY <2>1, <3>1 DEF Parts, Send, ClientsType
  <2>2. CASE Repeat(s)
    <3>1. out[s] \in Datagram BY <2>2 DEF Repeat, Parts, ClientsType
    <3>2. NetType' BY <2>2, <3>1, ArriveType DEF Repeat, Parts
    <3>3. repeats' \in 0..MaxRepeats BY <2>2, ForwardBounds DEF Repeat, Parts, ClientsType
    <3> QED BY <2>2, <3>2, <3>3 DEF Parts, Repeat, ClientsType
  <2> QED BY <2>1, <2>2
<1> QED BY <1>1, <1>2, Frames DEF Parts, listener

\* a turn of UDPListener;
LEMMA ReceiveType ==
    ASSUME Parts, Receive
    PROVE  Parts'
<1>1. UNCHANGED <<clients, listening, polled, dequeuers, service>> BY DEF Receive
<1>2. Head(net) \in Datagram /\ Tail(net) \in Seq(Datagram) BY HeadType DEF Receive, Parts
<1>3. NetType' BY <1>2 DEF Receive, NetType
<1>4. SymbolsType' /\ ListenerType' /\ QueueType'
  <2>1. CASE UNCHANGED <<last, UDPSEQ, missed, handled, forwarded, queue>>
    BY <1>1, <2>1, Frames DEF Parts
  <2>2. CASE Handle(Head(net))
    <3>1. /\ UDPSEQ' \in [Station -> Nat] /\ missed' \in [Station -> Nat]
          /\ last' \in Datagram \cup {None}
          /\ handled' \in Seq(Datagram \cup {Restarted})
          /\ forwarded' \in Seq(Datagram)
          /\ queue' \in [Queue -> Seq(Packet)]
      BY <1>2, <2>2, HandleType DEF Parts
    <3>2. SymbolsType' BY <3>1 DEF SymbolsType
    <3>3. ListenerType' BY <1>1, <3>1 DEF Parts, ListenerType
    <3>4. QueueType' BY <1>1, <3>1 DEF Parts, QueueType
    <3> QED BY <3>2, <3>3, <3>4
  <2> QED BY <2>1, <2>2 DEF Receive
<1> QED BY <1>1, <1>3, <1>4, Frames DEF Parts

\* the end of UDPListener and its successor;
LEMMA RestartType ==
    ASSUME Parts, ReceiveFails \/ Bind
    PROVE  Parts'
<1>1. /\ UNCHANGED <<clients, UDPSEQ, missed, polled, queue, dequeuers, connected>>
      /\ UNCHANGED forwarded
  BY DEF ReceiveFails, Bind, service
<1>2. NetType' /\ ListenerType' /\ ServiceType'
  <2>1. CASE ReceiveFails
    <3>1. NetType' BY <2>1 DEF ReceiveFails, NetType
    <3>2. ListenerType' BY <2>1 DEF ReceiveFails, Parts, ListenerType
    <3>3. ServiceType' BY <2>1, ForwardBounds DEF ReceiveFails, Parts, ServiceType
    <3> QED BY <3>1, <3>2, <3>3
  <2>2. CASE Bind
    <3>1. handled' \in Seq(Datagram \cup {Restarted})
      BY <2>2, AppendProperties DEF Bind, Parts, ListenerType
    <3>2. ListenerType' BY <2>2, <3>1 DEF Bind, Parts, ListenerType
    <3> QED BY <2>2, <3>2, Frames DEF Bind, Parts
  <2> QED BY <2>1, <2>2
<1> QED BY <1>1, <1>2, Frames DEF Parts

\* a packet of the poller;
LEMMA PolledType ==
    ASSUME Parts, AprsLogPacket
    PROVE  Parts'
<1>1. UNCHANGED <<clients, net, listener, dequeuers, service>> BY DEF AprsLogPacket
<1>2. polled + 1 \in 1..MaxPolled BY ForwardBounds DEF Parts, QueueType, AprsLogPacket
<1>3. Polled(polled + 1) \in Packet BY <1>2 DEF Packet
<1>4. queue' \in [Queue -> Seq(Packet)] BY <1>3, PutInType DEF Parts, AprsLogPacket
<1>5. QueueType' BY <1>2, <1>4, ForwardBounds DEF AprsLogPacket, QueueType
<1> QED BY <1>1, <1>5, Frames DEF Parts, listener

\* the threads of the queues;
LEMMA DequeueType ==
    ASSUME Parts, NEW q \in Queue, Dequeue(q) \/ Request(q)
    PROVE  Parts'
<1>1. UNCHANGED <<clients, net, listener, polled, service>> BY DEF Dequeue, Request
<1>2. QueueType' /\ DequeuersType'
  <2>1. CASE Dequeue(q)
    <3>1. Head(queue[q]) \in Packet /\ Tail(queue[q]) \in Seq(Packet)
      <4>1. queue[q] \in Seq(Packet) /\ queue[q] # <<>>
        BY <2>1 DEF Dequeue, Parts, QueueType
      <4> QED BY <4>1, HeadTailProperties
    <3>2. QueueType' BY <2>1, <3>1 DEF Dequeue, Parts, QueueType
    <3>3. DequeuersType' BY <2>1, <3>1 DEF Dequeue, Parts, DequeuersType
    <3> QED BY <3>2, <3>3
  <2>2. CASE Request(q)
    <3>1. taken[q] \in Packet /\ done[q] \in Seq(Packet)
      BY <2>2 DEF Request, Parts, DequeuersType
    <3>2. Append(done[q], taken[q]) \in Seq(Packet) BY <3>1, AppendProperties
    <3>3. DequeuersType' BY <2>2, <3>2 DEF Request, Parts, DequeuersType
    <3> QED BY <1>1, <2>2, <3>3, Frames DEF Request, Parts
  <2> QED BY <2>1, <2>2
<1> QED BY <1>1, <1>2, Frames DEF Parts, listener

\* the service's connection.
LEMMA ConnectType ==
    ASSUME Parts, Connect \/ Disconnect \/ UNCHANGED vars
    PROVE  Parts'
<1>1. UNCHANGED <<clients, net, listener, polled, queue, dequeuers, failures>>
  BY DEF Connect, Disconnect, vars, service
<1>2. ServiceType' BY DEF Connect, Disconnect, vars, service, Parts, ServiceType
<1> QED BY <1>1, <1>2, Frames DEF Parts, listener

\* Every step keeps the types.
LEMMA TypeKept == Parts /\ [Next]_vars => Parts'
BY SendType, ReceiveType, RestartType, PolledType, DequeueType, ConnectType, Zenon DEF Next

\* They hold at first.
LEMMA InitType == Init => Parts
<1> SUFFICES ASSUME Init PROVE Parts OBVIOUS
<1>1. ClientsType BY ForwardBounds DEF Init, ClientsType
<1>2. NetType BY DEF Init, NetType
<1>3. SymbolsType BY DEF Init, SymbolsType
<1>4. ListenerType BY DEF Init, ListenerType
<1>5. QueueType BY ForwardBounds DEF Init, QueueType
<1>6. DequeuersType BY DEF Init, DequeuersType
<1>7. ServiceType
  <2>1. MaxFailures \in Nat BY ForwardBounds
  <2>2. failures \in 0..MaxFailures BY <2>1 DEF Init
  <2>3. connected \in BOOLEAN BY Zenon DEF Init
  <2> QED BY <2>2, <2>3, Zenon DEF ServiceType
<1> QED BY <1>1, <1>2, <1>3, <1>4, <1>5, <1>6, <1>7 DEF Parts

\* They hold always.
LEMMA PartsHold == Spec => []Parts
BY InitType, TypeKept, PTL DEF Spec

\* Every variable keeps its type.
THEOREM TypeCorrect == Spec => []TypeOK
<1>1. Parts => TypeOK BY TypeParts DEF Parts
<1> QED BY <1>1, PartsHold, PTL

-----------------------------------------------------------------------------
(* What is reported as missed is what was not handled.                     *)

\* The datagrams that wait are in the order of their numbers, none of them
\* newer than the last its client has sent.
Waiting ==
    /\ \A s \in Station : out[s] # None => out[s].from = s
    /\ \A i \in 1..Len(net) :
         out[net[i].from] # None /\ net[i].n <= out[net[i].from].n
    /\ \A i, j \in 1..Len(net) :
         i <= j /\ net[i].from = net[j].from => net[i].n <= net[j].n

\* The symbol is a number its client has used, no newer than what waits.
Seen ==
    /\ \A s \in Station : UDPSEQ[s] # 0 => out[s] # None /\ UDPSEQ[s] <= out[s].n
    /\ \A i \in 1..Len(net) : UDPSEQ[net[i].from] <= net[i].n

\* The symbol is the highest number that was handled.
Highest ==
    \A s \in Numbered :
        /\ Handled(s) \subseteq 1..UDPSEQ[s]
        /\ UDPSEQ[s] # 0 => UDPSEQ[s] \in Handled(s)

NumbersInv == Parts /\ Waiting /\ Seen /\ Highest /\ MissedMeansLost

\* The numbers of a client's datagrams after one more is handled.
LEMMA HandledMore ==
    ASSUME handled \in Seq(Datagram \cup {Restarted}),
           NEW d \in Datagram \cup {Restarted}, handled' = Append(handled, d),
           NEW s \in Station
    PROVE  Handled(s)' = Handled(s) \cup (IF d # Restarted /\ d.from = s THEN {d.n} ELSE {})
<1>1. /\ Len(handled') = Len(handled) + 1 /\ Len(handled) \in Nat
      /\ \A i \in 1..Len(handled) : handled'[i] = handled[i]
      /\ handled'[Len(handled) + 1] = d
  BY AppendProperties
<1>2. DOMAIN handled = 1..Len(handled) /\ DOMAIN handled' = 1..(Len(handled) + 1)
  <2>1. handled' \in Seq(Datagram \cup {Restarted}) BY AppendProperties
  <2> QED BY <1>1, <2>1, LenProperties
<1>3. DOMAIN handled' = DOMAIN handled \cup {Len(handled) + 1} BY <1>1, <1>2
<1>4. Len(handled) + 1 \notin DOMAIN handled BY <1>1, <1>2
<1>5. \A i \in DOMAIN handled : handled'[i] = handled[i] BY <1>1, <1>2
<1> QED BY <1>1, <1>3, <1>4, <1>5 DEF Handled

\* A datagram no older than those that wait, and than the symbol, may arrive.
LEMMA ArriveKeeps ==
    ASSUME Parts, Waiting, Seen, NEW d \in Datagram, Arrive(d), UNCHANGED UDPSEQ,
           d.from \in Station, d.n \in Nat,
           out' \in [Station -> Datagram \cup {None}],
           out'[d.from] = d, d # None,
           \A s \in Station : s # d.from => out'[s] = out[s],
           out[d.from] # None => out[d.from].n <= d.n
    PROVE  Waiting' /\ Seen'
<1>1. /\ \A s \in Station : out[s] # None => out[s] \in Datagram
      /\ \A e \in Datagram : e.from \in Station /\ e.n \in Nat
      /\ \A s \in Station : UDPSEQ[s] \in Nat
      /\ net \in Seq(Datagram)
  BY DatagramAssumption DEF Parts, ClientsType, SymbolsType, NetType
<1>2. Len(net) \in Nat /\ \A i \in 1..Len(net) : net[i] \in Datagram
  BY <1>1, ElementOfSeq, LenProperties
<1>3. \A s \in Station : out[s] # None => out'[s] # None /\ out[s].n <= out'[s].n
  BY <1>1
<1>4. \A s \in Station : out'[s] # None => out'[s].from = s BY DEF Waiting
<1>5. \A s \in Station : UDPSEQ[s] # 0 => out'[s] # None /\ UDPSEQ[s] <= out'[s].n
  <2> TAKE s \in Station
  <2> HAVE UDPSEQ[s] # 0
  <2>1. out[s] # None /\ UDPSEQ[s] <= out[s].n BY DEF Seen
  <2>2. CASE s = d.from BY <1>1, <2>1, <2>2
  <2>3. CASE s # d.from BY <2>1, <2>3
  <2> QED BY <2>2, <2>3
<1>6. \A i \in 1..Len(net) :
        out'[net[i].from] # None /\ net[i].n <= out'[net[i].from].n
  <2> TAKE i \in 1..Len(net)
  <2>1. net[i].from \in Station /\ net[i].n \in Nat BY <1>1, <1>2
  <2>2. out[net[i].from] # None /\ net[i].n <= out[net[i].from].n BY DEF Waiting
  <2>3. CASE net[i].from = d.from BY <1>1, <2>1, <2>2, <2>3
  <2>4. CASE net[i].from # d.from BY <2>1, <2>2, <2>4
  <2> QED BY <2>3, <2>4
<1>7. CASE UNCHANGED net
  <2>1. Waiting' BY <1>4, <1>6, <1>7 DEF Waiting
  <2>2. Seen' BY <1>5, <1>7 DEF Seen
  <2> QED BY <2>1, <2>2
<1>8. CASE net' = Append(net, d)
  <2>1. /\ Len(net') = Len(net) + 1
        /\ \A i \in 1..Len(net) : net'[i] = net[i]
        /\ net'[Len(net) + 1] = d
    BY <1>1, <1>8, AppendProperties
  <2>2. \A i \in 1..Len(net') : i \in 1..Len(net) \/ i = Len(net) + 1 BY <1>2, <2>1
  <2>3. \A i \in 1..Len(net') :
          out'[net'[i].from] # None /\ net'[i].n <= out'[net'[i].from].n
    <3> TAKE i \in 1..Len(net')
    <3>1. CASE i \in 1..Len(net) BY <1>6, <2>1, <3>1
    <3>2. CASE i = Len(net) + 1 BY <2>1, <3>2
    <3> QED BY <2>2, <3>1, <3>2
  <2>4. ASSUME NEW i \in 1..Len(net'), NEW j \in 1..Len(net'),
               i <= j, net'[i].from = net'[j].from
        PROVE  net'[i].n <= net'[j].n
    <3>1. CASE j \in 1..Len(net)
      <4>1. i \in 1..Len(net) BY <1>2, <2>4, <3>1
      <4> QED BY <2>1, <2>4, <3>1, <4>1 DEF Waiting
    <3>2. CASE j = Len(net) + 1
      <4>1. net'[i].from = d.from /\ net'[j] = d BY <2>1, <2>4, <3>2
      <4>2. net'[i].n <= out'[d.from].n BY <2>3, <4>1
      <4> QED BY <4>1, <4>2
    <3> QED BY <2>2, <3>1, <3>2
  <2>5. Waiting' BY <1>4, <2>3, <2>4 DEF Waiting
  <2>6. \A i \in 1..Len(net') : UDPSEQ[net'[i].from] <= net'[i].n
    <3> TAKE i \in 1..Len(net')
    <3>1. CASE i \in 1..Len(net) BY <2>1, <3>1 DEF Seen
    <3>2. CASE i = Len(net) + 1
      <4>1. net'[i] = d /\ UDPSEQ[d.from] \in Nat BY <1>1, <2>1, <3>2
      <4>2. CASE UDPSEQ[d.from] = 0 BY <4>1, <4>2
      <4>3. CASE UDPSEQ[d.from] # 0 BY <1>5, <4>1, <4>3
      <4> QED BY <4>2, <4>3
    <3> QED BY <2>2, <3>1, <3>2
  <2>7. Seen' BY <1>5, <2>6 DEF Seen
  <2> QED BY <2>5, <2>7
<1> QED BY <1>7, <1>8 DEF Arrive

\* The empty memory of the listener is not a datagram.
LEMMA NoneIsNoDatagram == \A d \in Datagram : d # None
BY MarksAssumption DEF Packet

\* A client sends its next datagram, or the network repeats the last one.
LEMMA SendNumbers ==
    ASSUME NumbersInv, NEW s \in Station, Send(s) \/ Repeat(s)
    PROVE  Waiting' /\ Seen'
<1>1. Parts /\ Waiting /\ Seen BY DEF NumbersInv
<1>2. out \in [Station -> Datagram \cup {None}] BY <1>1 DEF Parts, ClientsType
<1>3. UNCHANGED UDPSEQ BY DEF Send, Repeat, listener
<1>4. \A e \in Datagram : e.from \in Station /\ e.n \in Nat BY DatagramAssumption
<1>5. CASE Send(s)
  <2> PICK d \in Datagram : /\ d.from = s /\ d.n = NextNumber(s)
                            /\ out' = [out EXCEPT ![s] = d] /\ Arrive(d)
    BY <1>5 DEF Send
  <2>1. out[s] # None => out[s].n <= d.n BY <1>2, <1>4 DEF NextNumber
  <2>2. d # None BY NoneIsNoDatagram
  <2>3. out' \in [Station -> Datagram \cup {None}] BY <1>2
  <2>4. out'[d.from] = d /\ \A t \in Station : t # d.from => out'[t] = out[t] BY <1>2
  <2> QED BY <1>1, <1>3, <1>4, <2>1, <2>2, <2>3, <2>4, ArriveKeeps
<1>6. CASE Repeat(s)
  <2> DEFINE d == out[s]
  <2>1. d \in Datagram /\ d # None /\ Arrive(d) /\ UNCHANGED out
    BY <1>2, <1>6 DEF Repeat
  <2>2. d.from = s BY <1>1, <2>1 DEF Waiting
  <2>3. d.n \in Nat BY <1>4, <2>1
  <2>4. out' \in [Station -> Datagram \cup {None}] /\ out'[d.from] = d BY <1>2, <2>1, <2>2
  <2>5. out[d.from].n <= d.n BY <2>2, <2>3
  <2>6. \A t \in Station : t # d.from => out'[t] = out[t] BY <2>1
  <2> HIDE DEF d
  <2> QED BY <1>1, <1>3, <2>1, <2>2, <2>3, <2>4, <2>5, <2>6, ArriveKeeps
<1> QED BY <1>5, <1>6

\* Without the first datagram the others are still in order.
LEMMA TailWaits ==
    ASSUME Parts, Waiting, Seen, net # <<>>, net' = Tail(net), UNCHANGED out
    PROVE  /\ Waiting'
           /\ \A i \in 1..Len(net') : UDPSEQ[net'[i].from] <= net'[i].n
           /\ \A i \in 1..Len(net') : net'[i].from = Head(net).from => Head(net).n <= net'[i].n
<1>1. net \in Seq(Datagram) BY DEF Parts, NetType
<1>2. /\ Len(net) \in Nat /\ Len(net') = Len(net) - 1 /\ Head(net) = net[1]
      /\ Len(net) # 0
      /\ \A i \in 1..Len(net') : net'[i] = net[i + 1]
  BY <1>1, HeadTailProperties, EmptySeq
<1>3. 1 \in 1..Len(net) /\ \A i \in 1..Len(net') : i + 1 \in 1..Len(net) /\ 1 <= i + 1
  BY <1>2
<1>4. Waiting' BY <1>2, <1>3 DEF Waiting
<1> QED BY <1>2, <1>3, <1>4 DEF Waiting, Seen

\* The numbers up to k that are not in S and follow one in S.
LostOf(k, S) == {i \in 1..k : i \notin S /\ \E j \in S : j < i}
Lost(s) == LostOf(UDPSEQ[s], Handled(s))

\* One more is handled: the lost ones grow by those between it and the symbol.
LEMMA LostMore ==
    ASSUME NEW u \in Nat, NEW n \in Nat, u <= n, n # 0, NEW H,
           H \subseteq 1..u, u # 0 => u \in H
    PROVE  /\ Cardinality(LostOf(u, H)) \in Nat
           /\ Cardinality(LostOf(n, H \cup {n}))
                = Cardinality(LostOf(u, H)) + IF u # 0 /\ n > u THEN n - u - 1 ELSE 0
<1>1. IsFiniteSet(1..u) BY FS_Interval
<1>2. IsFiniteSet(LostOf(u, H)) BY <1>1, FS_Subset DEF LostOf
<1>3. Cardinality(LostOf(u, H)) \in Nat BY <1>2, FS_CardinalityType
<1>4. CASE u = 0
  <2>1. H = {} BY <1>4
  <2>2. LostOf(u, H) = {} /\ LostOf(n, H \cup {n}) = {} BY <1>4, <2>1 DEF LostOf
  <2>3. Cardinality(LostOf(u, H)) = 0 /\ Cardinality(LostOf(n, H \cup {n})) = 0
    BY <2>2, FS_EmptySet
  <2> QED BY <1>4, <2>3
<1>5. CASE u # 0 /\ n = u
  <2>1. H \cup {n} = H BY <1>5
  <2> QED BY <1>3, <1>5, <2>1
<1>6. CASE u # 0 /\ n > u
  <2>1. \A j \in H : j \in Nat /\ j <= u
    OBVIOUS
  <2>2. LostOf(n, H \cup {n}) = LostOf(u, H) \cup (u + 1)..(n - 1)
    <3>1. ASSUME NEW i \in LostOf(n, H \cup {n}) PROVE i \in LostOf(u, H) \cup (u + 1)..(n - 1)
      <4>1. i \in 1..n /\ i # n /\ i \notin H BY <3>1 DEF LostOf
      <4>2. CASE i <= u
        <5>1. PICK j \in H \cup {n} : j < i BY <3>1 DEF LostOf
        <5>2. j \in H BY <4>1, <4>2, <5>1, <1>6
        <5> QED BY <4>1, <4>2, <5>1, <5>2 DEF LostOf
      <4>3. CASE i > u BY <4>1, <4>3
      <4> QED BY <4>1, <4>2, <4>3
    <3>2. ASSUME NEW i \in LostOf(u, H) PROVE i \in LostOf(n, H \cup {n})
      <4>1. i \in 1..n /\ i # n BY <1>6, <3>2 DEF LostOf
      <4> QED BY <3>2, <4>1 DEF LostOf
    <3>3. ASSUME NEW i \in (u + 1)..(n - 1) PROVE i \in LostOf(n, H \cup {n})
      <4>1. i \in 1..n /\ i # n /\ i \notin H BY <1>6, <2>1, <3>3
      <4>2. u \in H /\ u < i BY <1>6, <3>3
      <4> QED BY <4>1, <4>2 DEF LostOf
    <3> QED BY <3>1, <3>2, <3>3
  <2>3. LostOf(u, H) \cap (u + 1)..(n - 1) = {} BY DEF LostOf
  <2>4. IsFiniteSet((u + 1)..(n - 1)) BY FS_Interval
  <2>5. Cardinality((u + 1)..(n - 1)) = n - u - 1
    <3>1. u + 1 \in Int /\ n - 1 \in Int OBVIOUS
    <3>2. Cardinality((u + 1)..(n - 1))
            = IF u + 1 > n - 1 THEN 0 ELSE (n - 1) - (u + 1) + 1
      BY <3>1, FS_Interval
    <3> QED BY <1>6, <3>2
  <2>6. Cardinality(LostOf(u, H) \cup (u + 1)..(n - 1))
          = Cardinality(LostOf(u, H)) + Cardinality((u + 1)..(n - 1))
            - Cardinality(LostOf(u, H) \cap (u + 1)..(n - 1))
    BY <1>2, <2>4, FS_Union
  <2>7. Cardinality(LostOf(u, H) \cap (u + 1)..(n - 1)) = 0 BY <2>3, FS_EmptySet
  <2> DEFINE c == Cardinality(LostOf(u, H))
  <2>8. c \in Nat BY <1>3
  <2> HIDE DEF c
  <2>9. Cardinality(LostOf(n, H \cup {n})) = c + (n - u - 1) - 0
    BY <2>2, <2>5, <2>6, <2>7 DEF c
  <2>10. Cardinality(LostOf(n, H \cup {n})) = c + (n - u - 1) BY <2>8, <2>9
  <2> QED BY <1>3, <1>6, <2>10 DEF c
<1> QED BY <1>3, <1>4, <1>5, <1>6

\* MissedMeansLost in terms of Lost.
LEMMA MissedIsLost == MissedMeansLost <=> \A s \in Numbered : missed[s] = Cardinality(Lost(s))
BY DEF MissedMeansLost, Lost, LostOf

\* A datagram that is not older than the symbol is handled.
LEMMA HandleNumbers ==
    ASSUME NumbersInv, net # <<>>, Handle(Head(net))
    PROVE  Highest' /\ MissedMeansLost'
<1> DEFINE d == Head(net)
<1>1. Parts /\ Waiting /\ Seen /\ Highest /\ MissedMeansLost BY DEF NumbersInv
<1>2. net \in Seq(Datagram) BY <1>1 DEF Parts, NetType
<1>3. d \in Datagram BY <1>2, HeadTailProperties
<1>4. d.from \in Station /\ d.n \in Nat /\ d.n # 0 BY <1>3, DatagramAssumption
<1>5. UDPSEQ[d.from] <= d.n
  <2>1. 1 \in 1..Len(net) /\ d = net[1] BY <1>2, EmptySeq, HeadTailProperties, LenProperties
  <2> QED BY <1>1, <2>1 DEF Seen
<1>6. d # Restarted /\ d \in Datagram \cup {Restarted} BY <1>3, MarksAssumption DEF Packet
<1>7. handled' = Append(handled, d) /\ Sequence(d) BY DEF Handle
<1>8. handled \in Seq(Datagram \cup {Restarted}) BY <1>1 DEF Parts, ListenerType
<1>9. UDPSEQ \in [Station -> Nat] /\ missed \in [Station -> Nat]
  BY <1>1 DEF Parts, SymbolsType
<1> HIDE DEF d
<1>10. ASSUME NEW s \in Numbered
       PROVE  /\ Handled(s)' \subseteq 1..UDPSEQ'[s]
              /\ UDPSEQ'[s] # 0 => UDPSEQ'[s] \in Handled(s)'
              /\ missed'[s] = Cardinality(Lost(s)')
  <2>1. s \in Station BY NumberedAssumption
  <2>2. Handled(s)' = Handled(s) \cup (IF d.from = s THEN {d.n} ELSE {})
    BY <1>6, <1>7, <1>8, <2>1, HandledMore
  <2>3. /\ Handled(s) \subseteq 1..UDPSEQ[s]
        /\ UDPSEQ[s] # 0 => UDPSEQ[s] \in Handled(s)
        /\ missed[s] = Cardinality(Lost(s))
    BY <1>1, MissedIsLost DEF Highest
  <2>4. CASE d.from # s
    <3>1. UDPSEQ'[s] = UDPSEQ[s] /\ missed'[s] = missed[s]
      BY <1>4, <1>7, <1>9, <2>1, <2>4 DEF Sequence
    <3>2. Handled(s)' = Handled(s) BY <2>2, <2>4
    <3>3. Lost(s)' = Lost(s) BY <3>1, <3>2 DEF Lost
    <3> QED BY <2>3, <3>1, <3>2, <3>3
  <2>5. CASE d.from = s
    <3>1. UDPSEQ'[s] = d.n /\ missed'[s] = missed[s] + Gap(s, d.n)
      BY <1>4, <1>7, <1>9, <2>1, <2>5 DEF Sequence
    <3>2. Handled(s)' = Handled(s) \cup {d.n} BY <2>2, <2>5
    <3>3. Lost(s) = LostOf(UDPSEQ[s], Handled(s)) BY DEF Lost
    <3>4. Lost(s)' = LostOf(d.n, Handled(s) \cup {d.n}) BY <3>1, <3>2 DEF Lost
    <3>5. UDPSEQ[s] \in Nat /\ UDPSEQ[s] <= d.n BY <1>5, <1>9, <2>1, <2>5
    <3>6. Cardinality(LostOf(d.n, Handled(s) \cup {d.n}))
            = Cardinality(LostOf(UDPSEQ[s], Handled(s)))
              + IF UDPSEQ[s] # 0 /\ d.n > UDPSEQ[s] THEN d.n - UDPSEQ[s] - 1 ELSE 0
      BY <1>4, <2>3, <3>5, LostMore
    <3>7. missed'[s] = Cardinality(Lost(s)') BY <2>3, <3>1, <3>3, <3>4, <3>6 DEF Gap
    <3>8. Handled(s)' \subseteq 1..UDPSEQ'[s]
      <4>1. 1..UDPSEQ[s] \subseteq 1..d.n /\ d.n \in 1..d.n BY <1>4, <3>5
      <4> QED BY <2>3, <3>1, <3>2, <4>1
    <3> QED BY <3>1, <3>2, <3>7, <3>8
  <2> QED BY <2>4, <2>5
<1> QED BY <1>10, MissedIsLost DEF Highest, MissedMeansLost, Lost, LostOf

\* Nothing is handled and no symbol changes.
LEMMA NothingHandled ==
    ASSUME NumbersInv, UNCHANGED <<UDPSEQ, missed>>,
           \A s \in Numbered : Handled(s)' = Handled(s)
    PROVE  Highest' /\ MissedMeansLost'
BY DEF NumbersInv, Highest, MissedMeansLost

\* What is handled is a function of the history.
LEMMA SameHandled ==
    UNCHANGED handled => \A s \in Numbered : Handled(s)' = Handled(s)
BY DEF Handled

\* A turn of UDPListener: a repeated datagram is dropped, another is handled.
LEMMA ReceiveNumbers ==
    ASSUME NumbersInv, Receive
    PROVE  Waiting' /\ Seen' /\ Highest' /\ MissedMeansLost'
<1>1. net # <<>> /\ net' = Tail(net) /\ UNCHANGED out BY DEF Receive, clients
<1>2. Parts /\ Waiting /\ Seen /\ Highest /\ MissedMeansLost BY DEF NumbersInv
<1>3. /\ Waiting'
      /\ \A i \in 1..Len(net') : UDPSEQ[net'[i].from] <= net'[i].n
      /\ \A i \in 1..Len(net') : net'[i].from = Head(net).from => Head(net).n <= net'[i].n
  BY <1>1, <1>2, TailWaits
<1>4. CASE UNCHANGED <<last, UDPSEQ, missed, handled, forwarded, queue>>
  <2>1. Seen' BY <1>1, <1>2, <1>3, <1>4 DEF Seen
  <2>2. Highest' /\ MissedMeansLost' BY <1>4, SameHandled, NothingHandled
  <2> QED BY <1>3, <2>1, <2>2
<1>5. CASE Handle(Head(net))
  <2> DEFINE d == Head(net)
  <2>1. net \in Seq(Datagram) BY <1>2 DEF Parts, NetType
  <2>2. d \in Datagram BY <1>1, <2>1, HeadTailProperties
  <2>3. d.from \in Station /\ d.n \in Nat BY <2>2, DatagramAssumption
  <2>4. out[d.from] # None /\ d.n <= out[d.from].n
    <3>1. 1 \in 1..Len(net) /\ d = net[1]
      BY <1>1, <2>1, EmptySeq, HeadTailProperties, LenProperties
    <3> QED BY <1>2, <3>1 DEF Waiting
  <2>5. UDPSEQ \in [Station -> Nat] BY <1>2 DEF Parts, SymbolsType
  <2>6. \/ UDPSEQ' = [UDPSEQ EXCEPT ![d.from] = d.n]
        \/ UNCHANGED UDPSEQ
    BY <1>5 DEF Handle, Sequence
  <2>7. \A s \in Station : UDPSEQ'[s] = UDPSEQ[s] \/ (s = d.from /\ UDPSEQ'[s] = d.n)
    BY <2>3, <2>5, <2>6
  <2>8. net' \in Seq(Datagram) BY <1>1, <2>1, HeadTailProperties
  <2>9. \A i \in 1..Len(net') : net'[i].from \in Station
    BY <2>8, ElementOfSeq, DatagramAssumption
  <2> HIDE DEF d
  <2>10. \A s \in Station : UDPSEQ'[s] # 0 => out'[s] # None /\ UDPSEQ'[s] <= out'[s].n
    BY <1>1, <1>2, <2>4, <2>7 DEF Seen
  <2>11. \A i \in 1..Len(net') : UDPSEQ'[net'[i].from] <= net'[i].n
    BY <1>3, <2>7, <2>9 DEF d
  <2>12. Seen' BY <2>10, <2>11 DEF Seen
  <2>13. Highest' /\ MissedMeansLost' BY <1>1, <1>5, HandleNumbers
  <2> QED BY <1>3, <2>12, <2>13
<1> QED BY <1>4, <1>5 DEF Receive

\* A failure empties the socket; symbols and history stay.
LEMMA RestartNumbers ==
    ASSUME NumbersInv, ReceiveFails \/ Bind
    PROVE  Waiting' /\ Seen' /\ Highest' /\ MissedMeansLost'
<1>1. UNCHANGED <<out, UDPSEQ, missed>> BY DEF ReceiveFails, Bind, clients
<1>2. Parts /\ Waiting /\ Seen BY DEF NumbersInv
<1>3. Waiting' /\ Seen'
  <2>1. CASE ReceiveFails
    <3>1. Len(net') = 0 BY <2>1 DEF ReceiveFails
    <3> QED BY <1>1, <1>2, <3>1 DEF Waiting, Seen
  <2>2. CASE Bind BY <1>1, <1>2, <2>2 DEF Bind, Waiting, Seen
  <2> QED BY <2>1, <2>2
<1>4. \A s \in Numbered : Handled(s)' = Handled(s)
  <2>1. CASE ReceiveFails BY <2>1, SameHandled DEF ReceiveFails
  <2>2. CASE Bind
    <3>1. handled \in Seq(Datagram \cup {Restarted}) BY <1>2 DEF Parts, ListenerType
    <3>2. Restarted \in Datagram \cup {Restarted} /\ handled' = Append(handled, Restarted)
      BY <2>2 DEF Bind
    <3> QED BY <3>1, <3>2, HandledMore, NumberedAssumption
  <2> QED BY <2>1, <2>2
<1> QED BY <1>1, <1>3, <1>4, NothingHandled

\* Poller, queues and service change neither numbers nor history of the clients.
LEMMA OthersNumbers ==
    ASSUME NumbersInv, UNCHANGED <<out, net, UDPSEQ, missed, handled>>
    PROVE  Waiting' /\ Seen' /\ Highest' /\ MissedMeansLost'
<1>1. Waiting' /\ Seen' BY DEF NumbersInv, Waiting, Seen
<1> QED BY <1>1, SameHandled, NothingHandled

\* Every step keeps the numbers.
LEMMA NumbersKept == NumbersInv /\ [Next]_vars => NumbersInv'
<1> SUFFICES ASSUME NumbersInv, [Next]_vars PROVE NumbersInv' OBVIOUS
<1>1. Parts' BY TypeKept DEF NumbersInv
<1>2. Waiting' /\ Seen' /\ Highest' /\ MissedMeansLost'
  <2>1. ASSUME NEW s \in Station, Send(s) \/ Repeat(s)
        PROVE  Waiting' /\ Seen' /\ Highest' /\ MissedMeansLost'
    <3>1. UNCHANGED <<UDPSEQ, missed, handled>> BY <2>1 DEF Send, Repeat, listener
    <3> QED BY <2>1, <3>1, SendNumbers, SameHandled, NothingHandled
  <2>2. CASE Receive BY <2>2, ReceiveNumbers
  <2>3. CASE ReceiveFails \/ Bind BY <2>3, RestartNumbers
  <2>4. ASSUME \/ AprsLogPacket \/ Connect \/ Disconnect \/ UNCHANGED vars
               \/ \E q \in Queue : Dequeue(q) \/ Request(q)
        PROVE  Waiting' /\ Seen' /\ Highest' /\ MissedMeansLost'
    <3>1. UNCHANGED <<out, net, UDPSEQ, missed, handled>>
      BY <2>4 DEF AprsLogPacket, Connect, Disconnect, Dequeue, Request, vars, clients, listener
    <3> QED BY <3>1, OthersNumbers
  <2> QED BY <2>1, <2>2, <2>3, <2>4, Zenon DEF Next
<1> QED BY <1>1, <1>2 DEF NumbersInv

\* They hold at first: nothing was sent.
LEMMA InitNumbers == Init => NumbersInv
<1> SUFFICES ASSUME Init PROVE NumbersInv OBVIOUS
<1>1. Waiting /\ Seen BY DEF Init, Waiting, Seen
<1>2. \A s \in Numbered : Handled(s) = {} BY DEF Init, Handled
<1>3. \A s \in Numbered : UDPSEQ[s] = 0 /\ missed[s] = 0
  BY NumberedAssumption DEF Init
<1>4. Highest BY <1>2, <1>3 DEF Highest
<1>5. \A s \in Numbered : Lost(s) = {} BY <1>2 DEF Lost, LostOf
<1>6. MissedMeansLost BY <1>3, <1>5, MissedIsLost, FS_EmptySet
<1> QED BY <1>1, <1>4, <1>6, InitType DEF NumbersInv

\* What UDPListener reports as missed from a client that counts its datagrams
\* is what it has not handled between the first and the last it has, for any
\* clients, losses, repetitions and restarts.
THEOREM MissedIsWhatWasLost == Spec => []MissedMeansLost
<1>1. NumbersInv => MissedMeansLost BY DEF NumbersInv
<1> QED BY <1>1, InitNumbers, NumbersKept, PTL DEF Spec

-----------------------------------------------------------------------------
(* What went through the queues.                                           *)

\* Induction on numbers for a set: the library's theorem takes an operator.
LEMMA NatInduct ==
    ASSUME NEW S, 0 \in S, \A n \in Nat : n \in S => n + 1 \in S
    PROVE  Nat \subseteq S
<1> SUFFICES ASSUME NEW k \in Nat, k \notin S PROVE FALSE OBVIOUS
<1> DEFINE T == Nat \ S
<1>1. T \subseteq Nat /\ T # {} OBVIOUS
<1>2. PICK m \in T : \A y \in T : ~(<<y, m>> \in OpToRel(<, Nat))
  BY <1>1, NatLessThanWellFounded, WFMin
<1>3. m - 1 \in Nat /\ m - 1 < m OBVIOUS
<1>4. m - 1 \in S BY <1>2, <1>3 DEF OpToRel
<1> QED BY <1>3, <1>4

\* A function f with what the first i datagrams of h have given, for each i <= n.
Step(a, h, f, i) ==
    f[i] = IF IsFor(a, h[i]) THEN Append(f[i - 1], h[i]) ELSE f[i - 1]
IsGiven(a, h, n, f) ==
    /\ f = [i \in 0..n |-> f[i]]
    /\ f[0] = <<>>
    /\ \A i \in 1..n : Step(a, h, f, i)

\* There is such a function, by induction on n.
LEMMA GivenExists ==
    ASSUME NEW a, NEW h
    PROVE  \A n \in Nat : \E f : IsGiven(a, h, n, f)
<1> DEFINE T == {n \in Nat : \E f : IsGiven(a, h, n, f)}
<1>1. 0 \in T
  <2> DEFINE f == [i \in 0..0 |-> <<>>]
  <2>1. f = [i \in 0..0 |-> f[i]] /\ f[0] = <<>> OBVIOUS
  <2> HIDE DEF f
  <2>2. IsGiven(a, h, 0, f) BY <2>1 DEF IsGiven
  <2> QED BY <2>2
<1>2. ASSUME NEW n \in Nat, n \in T PROVE n + 1 \in T
  <2> PICK f : IsGiven(a, h, n, f) BY <1>2
  <2> DEFINE value == IF IsFor(a, h[n + 1]) THEN Append(f[n], h[n + 1]) ELSE f[n]
             g == [i \in 0..(n + 1) |-> IF i = n + 1 THEN value ELSE f[i]]
  <2>1. g = [i \in 0..(n + 1) |-> g[i]] OBVIOUS
  <2>2. \A i \in 0..n : g[i] = f[i] OBVIOUS
  <2>3. g[n + 1] = value OBVIOUS
  <2> HIDE DEF g
  <2>4. \A i \in 1..n : Step(a, h, g, i)
    <3>1. \A i \in 1..n : g[i] = f[i] /\ g[i - 1] = f[i - 1] BY <2>2
    <3> QED BY <3>1 DEF IsGiven, Step
  <2>5. Step(a, h, g, n + 1) BY <2>2, <2>3 DEF Step
  <2>6. \A i \in 1..(n + 1) : Step(a, h, g, i) BY <2>4, <2>5
  <2>7. g[0] = <<>> BY <2>2 DEF IsGiven
  <2>8. IsGiven(a, h, n + 1, g) BY <2>1, <2>6, <2>7 DEF IsGiven
  <2> QED BY <2>8
<1> HIDE DEF T
<1>3. Nat \subseteq T BY <1>1, <1>2, NatInduct
<1> QED BY <1>3 DEF T

\* It says the same of two histories as far as they are the same.
LEMMA GivenUnique ==
    ASSUME NEW a, NEW h, NEW k, NEW n \in Nat, NEW m \in Nat, n <= m,
           \A i \in 1..n : h[i] = k[i],
           NEW f, IsGiven(a, h, n, f), NEW g, IsGiven(a, k, m, g)
    PROVE  f[n] = g[n]
<1> DEFINE T == {i \in Nat : i <= n => f[i] = g[i]}
<1>1. 0 \in T BY DEF IsGiven
<1>2. ASSUME NEW i \in Nat, i \in T PROVE i + 1 \in T
  <2> SUFFICES ASSUME i + 1 <= n PROVE f[i + 1] = g[i + 1] OBVIOUS
  <2>1. f[i] = g[i] /\ h[i + 1] = k[i + 1] BY <1>2
  <2>2. Step(a, h, f, i + 1) /\ Step(a, k, g, i + 1) BY DEF IsGiven
  <2>3. (i + 1) - 1 = i OBVIOUS
  <2> QED BY <2>1, <2>2, <2>3 DEF Step
<1> HIDE DEF T
<1>3. Nat \subseteq T BY <1>1, <1>2, NatInduct
<1> QED BY <1>3 DEF T

\* Given, which is defined by recursion, is the last value of such a function.
LEMMA GivenIs ==
    ASSUME NEW a, NEW h, Len(h) \in Nat
    PROVE  \E f : IsGiven(a, h, Len(h), f) /\ Given(a, h) = f[Len(h)]
<1> DEFINE body(f) == [i \in 0..Len(h) |->
                IF i = 0 THEN <<>>
                ELSE IF IsFor(a, h[i]) THEN Append(f[i - 1], h[i])
                ELSE f[i - 1]]
           given == CHOOSE f : f = body(f)
<1>1. PICK f : IsGiven(a, h, Len(h), f) BY GivenExists
<1>2. f = body(f)
  <2>1. f[0] = body(f)[0] BY <1>1 DEF IsGiven
  <2>2. ASSUME NEW i \in 1..Len(h) PROVE f[i] = body(f)[i]
    <3>1. Step(a, h, f, i) BY <1>1 DEF IsGiven
    <3>2. i \in 0..Len(h) /\ i # 0 OBVIOUS
    <3> QED BY <3>1, <3>2 DEF Step
  <2> HIDE DEF body
  <2>3. \A i \in 0..Len(h) : f[i] = body(f)[i]
    <3>1. \A i \in 0..Len(h) : i = 0 \/ i \in 1..Len(h) OBVIOUS
    <3> QED BY <2>1, <2>2, <3>1
  <2>4. f = [i \in 0..Len(h) |-> f[i]] BY <1>1 DEF IsGiven
  <2>5. body(f) = [i \in 0..Len(h) |-> body(f)[i]] BY DEF body
  <2>6. [i \in 0..Len(h) |-> f[i]] = [i \in 0..Len(h) |-> body(f)[i]] BY <2>3
  <2> QED BY <2>4, <2>5, <2>6
<1>3. given = body(given) BY <1>2
<1>4. Given(a, h) = given[Len(h)] BY Zenon DEF Given
<1> HIDE DEF given
<1>5. IsGiven(a, h, Len(h), given)
  <2>1. given = [i \in 0..Len(h) |-> given[i]] BY <1>3
  <2>2. \A i \in 0..Len(h) : given[i] = body(given)[i] BY <1>3
  <2> QED BY <2>1, <2>2 DEF IsGiven, Step
<1> QED BY <1>4, <1>5

\* Nothing was given at first;
LEMMA GivenEmpty ==
    ASSUME NEW a
    PROVE  Given(a, <<>>) = <<>>
<1>1. Len(<<>>) = 0 OBVIOUS
<1> QED BY <1>1, GivenIs DEF IsGiven

\* and what is handled next is given next, if it is for this function.
LEMMA GivenMore ==
    ASSUME NEW a, NEW S, NEW h \in Seq(S), NEW x
    PROVE  Given(a, Append(h, x)) = IF IsFor(a, x) THEN Append(Given(a, h), x) ELSE Given(a, h)
<1> DEFINE k == Append(h, x)
<1>0. Len(h) \in Nat /\ Len(k) = Len(h) + 1 /\ (\A i \in 1..Len(h) : k[i] = h[i])
      /\ k[Len(h) + 1] = x
  OBVIOUS
<1> HIDE DEF k
<1>1. PICK f : IsGiven(a, h, Len(h), f) /\ Given(a, h) = f[Len(h)] BY <1>0, GivenIs
<1>2. PICK g : IsGiven(a, k, Len(k), g) /\ Given(a, k) = g[Len(k)] BY <1>0, GivenIs
<1>3. f[Len(h)] = g[Len(h)] BY <1>0, <1>1, <1>2, GivenUnique
<1>4. Step(a, k, g, Len(h) + 1) BY <1>0, <1>2 DEF IsGiven
<1> QED BY <1>0, <1>1, <1>2, <1>3, <1>4 DEF Step, k

\* A packet that is put in a queue is the next one of its stream.
LEMMA StreamGets ==
    ASSUME Parts, Parts', NEW q \in Queue, NEW x, UNCHANGED dequeuers,
           queue'[q] = Append(queue[q], x)
    PROVE  Stream(q)' = Append(Stream(q), x)
<1> DEFINE first == done[q] \o (IF taken[q] = None THEN <<>> ELSE <<taken[q]>>)
           rest == queue[q]
           T == Packet \cup {None}
<1>1. /\ done[q] \in Seq(Packet) /\ queue[q] \in Seq(Packet) /\ queue'[q] \in Seq(Packet)
      /\ taken[q] \in T
  BY DEF Parts, QueueType, DequeuersType
<1>2. Stream(q) = first \o rest /\ Stream(q)' = first \o Append(rest, x)
  BY DEF Stream, dequeuers
<1>3. first \in Seq(T)
  <2>1. done[q] \in Seq(T) BY <1>1
  <2>2. (IF taken[q] = None THEN <<>> ELSE <<taken[q]>>) \in Seq(T)
    <3>1. CASE taken[q] = None BY <3>1
    <3>2. CASE taken[q] # None
      <4>1. <<taken[q]>> \in Seq(T) BY <1>1
      <4> QED BY <3>2, <4>1
    <3> QED BY <3>1, <3>2
  <2> QED BY <2>1, <2>2, ConcatProperties
<1>4. rest \in Seq(T \cup {x}) BY <1>1
<1>5. first \in Seq(T \cup {x}) BY <1>3
<1> HIDE DEF first, rest, T
<1>6. first \o Append(rest, x) = Append(first \o rest, x)
  BY <1>4, <1>5
<1> QED BY <1>2, <1>6

\* A stream is the same after a thread took a packet from its queue or sent its
\* request.
LEMMA StreamMoves ==
    ASSUME Parts, NEW r \in Queue, Dequeue(r) \/ Request(r), NEW q \in Queue
    PROVE  Stream(q)' = Stream(q)
<1>1. /\ done[q] \in Seq(Packet) /\ queue[q] \in Seq(Packet) /\ taken[q] \in Packet \cup {None}
      /\ done \in [Queue -> Seq(Packet)] /\ queue \in [Queue -> Seq(Packet)]
      /\ taken \in [Queue -> Packet \cup {None}]
  BY DEF Parts, QueueType, DequeuersType
<1>2. CASE q # r
  <2>1. done'[q] = done[q] /\ taken'[q] = taken[q] /\ queue'[q] = queue[q]
    BY <1>1, <1>2 DEF Dequeue, Request
  <2> QED BY <2>1 DEF Stream
<1>3. CASE q = r /\ Dequeue(r)
  <2>1. /\ taken[q] = None /\ queue[q] # <<>> /\ done' = done
        /\ taken'[q] = Head(queue[q]) /\ queue'[q] = Tail(queue[q])
    BY <1>1, <1>3 DEF Dequeue
  <2>2. Head(queue[q]) \in Packet BY <1>1, <2>1
  <2>3. Head(queue[q]) # None BY <2>2, MarksAssumption
  <2>4. Stream(q) = (done[q] \o <<>>) \o queue[q] BY <2>1 DEF Stream
  <2>5. Stream(q)' = (done[q] \o <<Head(queue[q])>>) \o Tail(queue[q])
    BY <2>1, <2>3 DEF Stream
  <2> QED BY <1>1, <2>1, <2>2, <2>4, <2>5
<1>4. CASE q = r /\ Request(r)
  <2>1. /\ taken[q] # None /\ queue' = queue
        /\ taken'[q] = None /\ done'[q] = Append(done[q], taken[q])
    BY <1>1, <1>4 DEF Request
  <2>2. Stream(q) = (done[q] \o <<taken[q]>>) \o queue[q] BY <2>1 DEF Stream
  <2>3. Stream(q)' = (Append(done[q], taken[q]) \o <<>>) \o queue[q] BY <2>1 DEF Stream
  <2>4. taken[q] \in Packet BY <1>1, <2>1
  <2>5. Append(done[q], taken[q]) \o <<>> = done[q] \o <<taken[q]>> BY <1>1, <2>4
  <2> QED BY <2>2, <2>3, <2>5
<1> QED BY <1>2, <1>3, <1>4

\* A stream depends on its queue and its thread only.
LEMMA SameStream ==
    ASSUME NEW q, queue'[q] = queue[q], UNCHANGED dequeuers
    PROVE  Stream(q)' = Stream(q)
BY DEF Stream, dequeuers

StreamInv == Parts /\ StreamIsWhatWasHandled

QueueOf(a) == IF a = "IGated" THEN "RcvdPacket" ELSE "DigiPacket"

\* One queue for each function.
LEMMA Queues ==
    StreamIsWhatWasHandled <=>
        (TcpAprs =>
            /\ Stream("LogPacket") = [i \in 1..polled |-> Polled(i)]
            /\ \A a \in {"IGated", "RFtoRF"} : Stream(QueueOf(a)) = Given(a, handled))
BY DEF StreamIsWhatWasHandled, QueueFor, QueueOf

\* What is put in a set of queues is in the streams of these, and the others stay
\* as they are.
LEMMA PutInStreams ==
    ASSUME Parts, Parts', TcpAprs, NEW Q, NEW x, UNCHANGED dequeuers, PutIn(Q, x)
    PROVE  \A q \in Queue : Stream(q)' = IF q \in Q THEN Append(Stream(q), x) ELSE Stream(q)
<1> TAKE q \in Queue
<1>1. CASE q \in Q
  <2>1. queue'[q] = Append(queue[q], x) BY <1>1 DEF PutIn
  <2> QED BY <1>1, <2>1, StreamGets
<1>2. CASE q \notin Q
  <2>1. queue'[q] = queue[q] BY <1>2 DEF PutIn
  <2> QED BY <1>2, <2>1, SameStream
<1> QED BY <1>1, <1>2

\* A datagram that UDPListener handles is in the stream of its function.
LEMMA HandleStreams ==
    ASSUME StreamInv, Parts', NEW d \in Datagram, Handle(d), UNCHANGED <<dequeuers, polled>>
    PROVE  StreamIsWhatWasHandled'
<1> SUFFICES ASSUME TcpAprs
             PROVE  /\ Stream("LogPacket")' = [i \in 1..polled |-> Polled(i)]'
                    /\ \A a \in {"IGated", "RFtoRF"} :
                         Stream(QueueOf(a))' = Given(a, handled)'
  BY DEF StreamIsWhatWasHandled, QueueFor, QueueOf
<1>1. /\ Stream("LogPacket") = [i \in 1..polled |-> Polled(i)]
      /\ \A a \in {"IGated", "RFtoRF"} : Stream(QueueOf(a)) = Given(a, handled)
  BY Queues DEF StreamInv
<1>2. \A q \in Queue : Stream(q)' =
        IF q \in QueueFor(d.action) THEN Append(Stream(q), d) ELSE Stream(q)
  BY PutInStreams DEF StreamInv, Handle
<1>3. "LogPacket" \notin QueueFor(d.action) BY DEF QueueFor
<1>4. Stream("LogPacket")' = [i \in 1..polled |-> Polled(i)]'
  BY <1>1, <1>2, <1>3 DEF Queue, Polled
<1>5. ASSUME NEW a \in {"IGated", "RFtoRF"} PROVE Stream(QueueOf(a))' = Given(a, handled)'
  <2>1. handled \in Seq(Datagram \cup {Restarted}) /\ handled' = Append(handled, d)
    BY DEF StreamInv, Parts, ListenerType, Handle
  <2>2. Given(a, handled') = IF IsFor(a, d) THEN Append(Given(a, handled), d)
                             ELSE Given(a, handled)
    BY <2>1, GivenMore
  <2>3. IsFor(a, d) <=> QueueOf(a) \in QueueFor(d.action)
    <3>1. d # Restarted BY MarksAssumption DEF Packet
    <3> QED BY <3>1 DEF IsFor, QueueOf, QueueFor
  <2>4. QueueOf(a) \in Queue BY DEF Queue, QueueOf
  <2> QED BY <1>1, <1>2, <2>2, <2>3, <2>4
<1> QED BY <1>4, <1>5

\* A restart of UDPListener is in no stream.
LEMMA BindStreams ==
    ASSUME StreamInv, Bind
    PROVE  StreamIsWhatWasHandled'
<1>1. UNCHANGED <<queue, dequeuers, polled>> /\ handled' = Append(handled, Restarted)
  BY DEF Bind
<1>2. \A q \in Queue : Stream(q)' = Stream(q) BY <1>1, SameStream
<1>3. \A a \in {"IGated", "RFtoRF"} : Given(a, handled') = Given(a, handled)
  <2>1. handled \in Seq(Datagram \cup {Restarted}) BY DEF StreamInv, Parts, ListenerType
  <2>2. \A a \in {"IGated", "RFtoRF"} : ~IsFor(a, Restarted) BY DEF IsFor
  <2> QED BY <1>1, <2>1, <2>2, GivenMore
<1>4. StreamIsWhatWasHandled BY DEF StreamInv
<1> QED BY <1>1, <1>2, <1>3, <1>4 DEF StreamIsWhatWasHandled, QueueFor, Queue, Polled

\* A packet of AprsPoller is the next one of its queue.
LEMMA PolledStreams ==
    ASSUME StreamInv, Parts', AprsLogPacket
    PROVE  StreamIsWhatWasHandled'
<1> SUFFICES ASSUME TcpAprs
             PROVE  /\ Stream("LogPacket")' = [i \in 1..polled |-> Polled(i)]'
                    /\ \A a \in {"IGated", "RFtoRF"} :
                         Stream(QueueOf(a))' = Given(a, handled)'
  BY DEF StreamIsWhatWasHandled, QueueFor, QueueOf
<1>1. /\ Stream("LogPacket") = [i \in 1..polled |-> Polled(i)]
      /\ \A a \in {"IGated", "RFtoRF"} : Stream(QueueOf(a)) = Given(a, handled)
  BY Queues DEF StreamInv
<1>2. UNCHANGED <<dequeuers, handled>> /\ polled' = polled + 1 /\ polled \in Nat
  BY DEF AprsLogPacket, StreamInv, Parts, QueueType, listener
<1>3. \A q \in Queue : Stream(q)' = IF q \in {"LogPacket"} THEN Append(Stream(q), Polled(polled + 1))
                                    ELSE Stream(q)
  BY <1>2, PutInStreams DEF StreamInv, AprsLogPacket
<1>4. Append([i \in 1..polled |-> Polled(i)], Polled(polled + 1))
        = [i \in 1..(polled + 1) |-> Polled(i)]
  <2> DEFINE s == [i \in 1..polled |-> Polled(i)]
             P == {Polled(i) : i \in 1..(polled + 1)}
  <2>1. s \in [1..polled -> P] /\ Polled(polled + 1) \in P BY <1>2
  <2>2. s \in Seq(P) /\ Len(s) = polled BY <1>2, <2>1
  <2> HIDE DEF s, P
  <2> DEFINE t == Append(s, Polled(polled + 1))
  <2>3. /\ t \in Seq(P) /\ Len(t) = polled + 1
        /\ \A i \in 1..polled : t[i] = s[i]
        /\ t[polled + 1] = Polled(polled + 1)
    BY <2>1, <2>2, AppendProperties
  <2> HIDE DEF t
  <2>4. \A i \in 1..(polled + 1) : t[i] = Polled(i)
    <3>1. \A i \in 1..(polled + 1) : i \in 1..polled \/ i = polled + 1 BY <1>2
    <3> QED BY <2>3, <3>1 DEF s
  <2>5. t = [i \in 1..(polled + 1) |-> t[i]] BY <2>3
  <2> QED BY <2>4, <2>5 DEF t, s
<1> QED BY <1>1, <1>2, <1>3, <1>4 DEF Queue, QueueOf, Polled

\* Every step keeps the streams.
LEMMA StreamsKept == StreamInv /\ [Next]_vars => StreamInv'
<1> SUFFICES ASSUME StreamInv, [Next]_vars PROVE StreamInv' OBVIOUS
<1>1. Parts /\ Parts' BY TypeKept DEF StreamInv
<1>2. ASSUME UNCHANGED <<handled, polled>>, \A q \in Queue : Stream(q)' = Stream(q)
      PROVE  StreamIsWhatWasHandled'
  <2>1. StreamIsWhatWasHandled BY DEF StreamInv
  <2> QED BY <1>2, <2>1 DEF StreamIsWhatWasHandled, QueueFor, Queue, Polled
<1>3. CASE Receive
  <2>1. UNCHANGED <<dequeuers, polled>> BY <1>3 DEF Receive
  <2>2. CASE Head(net) = last
    <3>1. UNCHANGED <<handled, queue>> BY <1>3, <2>2 DEF Receive
    <3> QED BY <1>1, <1>2, <2>1, <3>1, SameStream DEF StreamInv
  <2>3. CASE Head(net) # last
    <3>1. Handle(Head(net)) BY <1>3, <2>3 DEF Receive
    <3>2. Head(net) \in Datagram BY <1>1, <1>3, HeadType DEF Receive, Parts
    <3> QED BY <1>1, <2>1, <3>1, <3>2, HandleStreams DEF StreamInv
  <2> QED BY <2>2, <2>3
<1>4. CASE Bind BY <1>1, <1>4, BindStreams DEF StreamInv
<1>5. CASE AprsLogPacket BY <1>1, <1>5, PolledStreams DEF StreamInv
<1>6. ASSUME NEW r \in Queue, Dequeue(r) \/ Request(r) PROVE StreamInv'
  <2>1. UNCHANGED <<handled, polled>> BY <1>6 DEF Dequeue, Request, listener
  <2> QED BY <1>1, <1>2, <1>6, <2>1, StreamMoves DEF StreamInv
<1>7. ASSUME \/ ReceiveFails \/ Connect \/ Disconnect \/ UNCHANGED vars
             \/ \E s \in Station : Send(s) \/ Repeat(s)
      PROVE  StreamInv'
  <2>1. UNCHANGED <<handled, polled, queue, dequeuers>>
    BY <1>7 DEF ReceiveFails, Connect, Disconnect, Send, Repeat, vars, listener
  <2> QED BY <1>1, <1>2, <2>1, SameStream DEF StreamInv
<1> QED BY <1>3, <1>4, <1>5, <1>6, <1>7, Zenon DEF Next

\* Nothing went through a queue at first.
LEMMA InitStreams == Init => StreamInv
<1> SUFFICES ASSUME Init PROVE StreamInv OBVIOUS
<1>1. \A q \in Queue : Stream(q) = <<>> BY DEF Init, Stream
<1>2. \A a \in {"IGated", "RFtoRF"} : Given(a, handled) = <<>> BY GivenEmpty DEF Init
<1>3. [i \in 1..polled |-> Polled(i)] = <<>> BY DEF Init
<1>4. StreamIsWhatWasHandled BY <1>1, <1>2, <1>3 DEF StreamIsWhatWasHandled, QueueFor, Queue
<1> QED BY <1>4, InitType DEF StreamInv

\* Each packet of the poller and each one given to AprsLogReceivedPacket or
\* AprsLogDigipeatedPacket goes through its queue once and in that order, for any
\* clients and datagrams and whatever the connection to the service does.
THEOREM StreamsAreWhatWasHandled == Spec => []StreamIsWhatWasHandled
<1>1. StreamInv => StreamIsWhatWasHandled BY DEF StreamInv
<1> QED BY <1>1, InitStreams, StreamsKept, PTL DEF Spec

=============================================================================
