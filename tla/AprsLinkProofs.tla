--------------------------- MODULE AprsLinkProofs ---------------------------
(***************************************************************************)
(* Proofs about AprsLink, for every set of threads and sockets and every   *)
(* bound: the types, that one thread dials at a time, that packets leave   *)
(* in the order in which they were queued, and, while the poller is alone  *)
(* with the link, that none is sent twice on a connection or after it was  *)
(* answered.                                                               *)
(***************************************************************************)
EXTENDS AprsLink, TLAPS

(* Where a thread is follows from what it is there for.                    *)
Transmits == {"login", "filter", "packet", "ping", "ack"}

ThreadOK(t, at, for) ==
    /\ for = "none" <=> at = "rest"
    /\ at \in {"store", "select", "send"} => for \in Transmits
    /\ at \in {"frame", "recv"} => for = "receive"
    /\ t # Poller => for \in {"none", "ack"} /\ at \notin {"drain", "drop"}

ControlOK ==
    /\ status \in {0, 1, 2, 4}
    /\ queue \in Seq(1..MaxPackets)
    /\ pc \in [Thread -> Label]
    /\ job \in [Thread -> Job]
    /\ \A t \in Thread : ThreadOK(t, pc[t], job[t])
    /\ job[Poller] = "packet" /\ pc[Poller] # "drain" => queue # <<>>

(* The text in sendbuf is the one SentBuffer is a copy of, and no packet   *)
(* on a wire is newer than it, or than a packet in the queue.              *)
OrderInv ==
    /\ SentBuffer \in {None, sendbuf}
    /\ \A t \in Thread : pc[t] \in {"select", "send"} => sendbuf # None
    /\ \A i \in DOMAIN queue : queue[i] <= queued
    /\ \A i, j \in DOMAIN queue : i < j => queue[i] < queue[j]
    /\ \A s \in Socket : \A k \in DOMAIN wire[s] :
          /\ wire[s][k] <= queued
          /\ \A i \in DOMAIN queue : wire[s][k] <= queue[i]
          /\ sendbuf # None /\ sendbuf.kind = "packet" => wire[s][k] <= sendbuf.n
    /\ sendbuf # None /\ sendbuf.kind = "packet" =>
          /\ sendbuf.n <= queued
          /\ \A i \in DOMAIN queue : sendbuf.n <= queue[i]

IInv == TypeOK /\ ControlOK /\ OneDialer /\ OrderInv

USE ThreadAssumption, SocketAssumption, LinkBounds, NoneIsNoText DEF Thread

-----------------------------------------------------------------------------
(* A call that returns leaves tcputil.c, or begins the next call.          *)
LEMMA ReturnControl ==
    ASSUME ControlOK, NEW t \in Thread, NEW r \in {0, 1, 2, 4}, Return(t, r),
           pc[t] \notin {"rest", "drain", "drop"}
    PROVE  /\ ControlOK'
           /\ \E l \in {"rest", "check", "drain", "drop"} : pc' = [pc EXCEPT ![t] = l]
           /\ queue' = queue \/ (queue # <<>> /\ queue' = Tail(queue))
           /\ UNCHANGED <<queued, acks>>
<1>1. /\ pc \in [Thread -> Label] /\ job \in [Thread -> Job]
      /\ \A u \in Thread : ThreadOK(u, pc[u], job[u])
      /\ job[t] \in Job \ {"none"}
      /\ job[t] \notin {"none", "ack"} => t = Poller
      /\ job[t] = "packet" => t = Poller /\ queue # <<>>
  BY DEF ControlOK, ThreadOK, Job
<1>2. /\ queue' = IF job[t] = "packet" THEN Tail(queue) ELSE queue
      /\ UNCHANGED <<queued, acks>>
  BY DEF Return
<1>3. /\ queue' \in Seq(1..MaxPackets)
      /\ queue' = queue \/ (queue # <<>> /\ queue' = Tail(queue))
      /\ job[t] # "packet" => queue' = queue
  <2>1. CASE job[t] = "packet"
    <3> DEFINE S == 1..MaxPackets
    <3>1. queue \in Seq(S) /\ queue # <<>> BY <1>1, <2>1 DEF ControlOK
    <3> HIDE DEF S
    <3>2. Tail(queue) \in Seq(S) BY <3>1
    <3> QED BY <1>1, <1>2, <2>1, <3>2 DEF S
  <2> QED BY <1>2, <2>1 DEF ControlOK
<1>4. status' \in {0, 1, 2, 4} BY DEF Return, ControlOK
<1>5. PICK l \in {"rest", "check", "drain", "drop"}, j \in Job :
         /\ pc' = [pc EXCEPT ![t] = l] /\ job' = [job EXCEPT ![t] = j]
         /\ ThreadOK(t, l, j)
         /\ j = "packet" => l = "drain"
  <2>1. job[t] = "ack" => job' = [job EXCEPT ![t] = "none"] /\ pc' = [pc EXCEPT ![t] = "rest"]
    BY DEF Return, Goto, Rest
  <2>2. job[t] # "ack" => t = Poller BY <1>1
  <2>3. \/ /\ pc' = [pc EXCEPT ![t] = "drain"] /\ job' = [job EXCEPT ![t] = job[t]]
        \/ /\ pc' = [pc EXCEPT ![t] = "check"]
           /\ \E j \in {"login", "filter", "receive"} : job' = [job EXCEPT ![t] = j]
        \/ /\ pc' = [pc EXCEPT ![t] = "drop"] /\ job' = [job EXCEPT ![t] = job[t]]
           /\ job[t] \in {"login", "filter", "ping"}
        \/ /\ pc' = [pc EXCEPT ![t] = "rest"] /\ job' = [job EXCEPT ![t] = "none"]
    BY <1>1 DEF Return, Goto, Call, Rest
  <2> QED BY <1>1, <2>1, <2>2, <2>3 DEF ThreadOK, Job
<1>6. /\ pc' \in [Thread -> Label] /\ job' \in [Thread -> Job]
      /\ \A u \in Thread : ThreadOK(u, pc'[u], job'[u])
  BY <1>1, <1>5 DEF Label
<1>7. job'[Poller] = "packet" /\ pc'[Poller] # "drain" => queue' # <<>>
  <2>1. CASE t = Poller BY <1>1, <1>5, <2>1
  <2>2. CASE t # Poller
    <3>1. job[t] # "packet" /\ job'[Poller] = job[Poller] /\ pc'[Poller] = pc[Poller]
      BY <1>1, <1>5, <2>2
    <3> QED BY <1>3, <3>1 DEF ControlOK
  <2> QED BY <2>1, <2>2
<1> QED BY <1>2, <1>3, <1>4, <1>5, <1>6, <1>7 DEF ControlOK, ThreadOK

(* A step inside a call: the job stays, and so do the queue and status.    *)
LEMMA InsideControl ==
    ASSUME ControlOK, NEW t \in Thread, NEW l \in Label, Goto(t, l),
           UNCHANGED <<job, status, queue>>,
           pc[t] \notin {"rest", "drain", "drop"},
           l \notin {"rest", "drain", "drop"},
           l \in {"store", "select", "send"} => job[t] \in Transmits,
           l \in {"frame", "recv"} => job[t] = "receive"
    PROVE  ControlOK'
<1>1. /\ pc \in [Thread -> Label] /\ job \in [Thread -> Job]
      /\ \A u \in Thread : ThreadOK(u, pc[u], job[u])
  BY DEF ControlOK
<1>2. pc' = [pc EXCEPT ![t] = l] /\ job' = job BY DEF Goto
<1>3. ThreadOK(t, l, job[t]) BY <1>1 DEF ThreadOK
<1>4. \A u \in Thread : ThreadOK(u, pc'[u], job'[u]) BY <1>1, <1>2, <1>3
<1> QED BY <1>1, <1>2, <1>4 DEF ControlOK, ThreadOK

(* tcp_connect succeeds: on to what the caller wanted a connection for.    *)
LEMMA ConnectedControl ==
    ASSUME ControlOK, NEW t \in Thread, Connected(t), pc[t] \in {"check", "resend"}
    PROVE  /\ ControlOK'
           /\ \E l \in {"rest", "check", "drain", "drop", "frame", "store"} :
                 pc' = [pc EXCEPT ![t] = l]
           /\ queue' = queue \/ (queue # <<>> /\ queue' = Tail(queue))
           /\ UNCHANGED <<queued, acks>>
<1>1. CASE job[t] = "connect"
  <2>1. Return(t, 0) BY <1>1 DEF Connected
  <2> QED BY <2>1, ReturnControl
<1>2. CASE job[t] # "connect"
  <2> DEFINE l == IF job[t] = "receive" THEN "frame" ELSE "store"
  <2>1. Goto(t, l) /\ UNCHANGED <<job, status, source>> BY <1>2 DEF Connected
  <2>2. job[t] \in Job \ {"none", "connect"} BY <1>2 DEF ControlOK, ThreadOK
  <2>3. ControlOK'
    BY <2>1, <2>2, InsideControl DEF source, Job, Transmits, Label
  <2> QED BY <2>1, <2>3 DEF Goto, source
<1> QED BY <1>1, <1>2

-----------------------------------------------------------------------------
(* No thread begins or ends to dial, and the socket stays or is closed.    *)
LEMMA DialerKept ==
    ASSUME TypeOK, OneDialer, NEW t \in Thread, NEW l \in Label,
           pc' = [pc EXCEPT ![t] = l], UNCHANGED hmtx,
           pc[t] \notin {"dial", "resend"}, l \notin {"dial", "resend"},
           tcp_disconnect \/ UNCHANGED <<mysocket, conn>>
    PROVE  OneDialer'
<1>1. /\ pc \in [Thread -> Label] /\ conn \in [Socket -> {"closed", "made", "up", "lost"}]
      /\ mysocket \in Socket \cup {DISCONNECTED}
  BY DEF TypeOK
<1>2. \A u \in Thread : pc'[u] \in {"dial", "resend"} <=> hmtx' = u
  BY <1>1 DEF OneDialer
<1>3. \A u \in Thread : pc[u] = "dial" => pc'[u] = "dial" BY <1>1
<1>4. \A s \in Socket : conn'[s] = "made" => conn[s] = "made" /\ mysocket' = s
  <2>1. CASE tcp_disconnect
    <3> SUFFICES ASSUME NEW s \in Socket, conn'[s] = "made" PROVE FALSE OBVIOUS
    <3>1. conn[s] = "made" BY <1>1, <2>1 DEF tcp_disconnect
    <3>2. mysocket = s BY <3>1 DEF OneDialer
    <3> QED BY <1>1, <2>1, <3>2 DEF tcp_disconnect
  <2>2. CASE UNCHANGED <<mysocket, conn>> BY <2>2 DEF OneDialer
  <2> QED BY <2>1, <2>2
<1> QED BY <1>2, <1>3, <1>4 DEF OneDialer

(* What a step may do to a wire: nothing, forget it, or append the packet  *)
(* in sendbuf.                                                             *)
WireOK ==
    \A s \in Socket :
        \/ wire'[s] = wire[s] \/ wire'[s] = <<>>
        \/ /\ sendbuf # None /\ sendbuf.kind = "packet"
           /\ wire'[s] = Append(wire[s], sendbuf.n)

(* What TCP accepts keeps the types of the histories.                      *)
LEMMA OnWireOK ==
    ASSUME TypeOK, Current({"up", "lost"}), OnWire(sendbuf), sendbuf # None
    PROVE  WireOK /\ wire' \in [Socket -> Seq(1..MaxPackets)] /\ UNCHANGED heard
<1>1. /\ wire \in [Socket -> Seq(1..MaxPackets)] /\ mysocket \in Socket
      /\ sendbuf \in Text /\ UNCHANGED heard
  BY DEF TypeOK, Current, OnWire
<1>2. CASE sendbuf.kind # "packet" BY <1>1, <1>2 DEF OnWire, WireOK
<1>3. CASE sendbuf.kind = "packet"
  <2> DEFINE S == 1..MaxPackets
  <2>1. wire' = [wire EXCEPT ![mysocket] = Append(@, sendbuf.n)] BY <1>3 DEF OnWire
  <2>2. sendbuf.n \in S BY <1>1, <1>3 DEF Text
  <2>3. wire \in [Socket -> Seq(S)] BY <1>1
  <2> HIDE DEF S
  <2>4. wire' \in [Socket -> Seq(S)] BY <1>1, <2>1, <2>2, <2>3
  <2> QED BY <1>1, <1>3, <2>1, <2>4 DEF WireOK, S
<1> QED BY <1>2, <1>3

(* The order is kept by all that leaves sendbuf and takes nothing in.      *)
LEMMA OrderKept ==
    ASSUME TypeOK, OrderInv, WireOK, UNCHANGED <<sendbuf, queued>>,
           SentBuffer' \in {None, SentBuffer},
           queue' = queue \/ (queue # <<>> /\ queue' = Tail(queue)),
           \A t \in Thread : pc'[t] \in {"select", "send"} =>
               pc[t] \in {"select", "send"} \/ sendbuf # None
    PROVE  OrderInv'
<1>1. /\ wire \in [Socket -> Seq(1..MaxPackets)]
      /\ queue \in Seq(1..MaxPackets)
      /\ sendbuf \in Text \cup {None}
      /\ queued \in Nat
  BY DEF TypeOK
<1>2. \A i \in DOMAIN queue' : \E j \in DOMAIN queue : queue'[i] = queue[j]
  BY SMTT(30), <1>1
<1>3. \A i \in DOMAIN queue' : queue'[i] <= queued BY <1>2 DEF OrderInv
<1>4. \A i, j \in DOMAIN queue' : i < j => queue'[i] < queue'[j]
  <2>1. CASE queue' = queue BY <2>1 DEF OrderInv
  <2>2. CASE queue # <<>> /\ queue' = Tail(queue)
    <3>1. \A i \in DOMAIN queue' : i \in Nat /\ i + 1 \in DOMAIN queue /\ queue'[i] = queue[i + 1]
      BY <1>1, <2>2
    <3> QED BY <3>1 DEF OrderInv
  <2> QED BY <2>1, <2>2
<1>5. \A s \in Socket : \A k \in DOMAIN wire'[s] :
         \/ k \in DOMAIN wire[s] /\ wire'[s][k] = wire[s][k]
         \/ sendbuf # None /\ sendbuf.kind = "packet" /\ wire'[s][k] = sendbuf.n
  <2> SUFFICES ASSUME NEW s \in Socket, NEW k \in DOMAIN wire'[s]
               PROVE  \/ k \in DOMAIN wire[s] /\ wire'[s][k] = wire[s][k]
                      \/ /\ sendbuf # None /\ sendbuf.kind = "packet"
                         /\ wire'[s][k] = sendbuf.n
    OBVIOUS
  <2>1. wire[s] \in Seq(1..MaxPackets) BY <1>1
  <2> QED BY SMTT(30), <2>1 DEF WireOK
<1>6. sendbuf # None /\ sendbuf.kind = "packet" =>
         /\ sendbuf.n \in Nat /\ sendbuf.n <= queued
         /\ \A i \in DOMAIN queue' : sendbuf.n <= queue'[i]
  BY <1>1, <1>2 DEF OrderInv, Text
<1>7. \A s \in Socket : \A k \in DOMAIN wire'[s] :
         /\ wire'[s][k] <= queued
         /\ \A i \in DOMAIN queue' : wire'[s][k] <= queue'[i]
         /\ sendbuf # None /\ sendbuf.kind = "packet" => wire'[s][k] <= sendbuf.n
  <2> SUFFICES ASSUME NEW s \in Socket, NEW k \in DOMAIN wire'[s]
      PROVE  /\ wire'[s][k] <= queued
             /\ \A i \in DOMAIN queue' : wire'[s][k] <= queue'[i]
             /\ sendbuf # None /\ sendbuf.kind = "packet" => wire'[s][k] <= sendbuf.n
    OBVIOUS
  <2>1. CASE k \in DOMAIN wire[s] /\ wire'[s][k] = wire[s][k]
    BY <1>2, <2>1 DEF OrderInv
  <2>2. CASE sendbuf # None /\ sendbuf.kind = "packet" /\ wire'[s][k] = sendbuf.n
    BY <1>6, <2>2
  <2> QED BY <1>5, <2>1, <2>2
<1>8. \A t \in Thread : pc'[t] \in {"select", "send"} => sendbuf' # None
  BY DEF OrderInv
<1>9. SentBuffer' \in {None, sendbuf'} BY DEF OrderInv
<1> QED BY <1>3, <1>4, <1>6, <1>7, <1>8, <1>9 DEF OrderInv

-----------------------------------------------------------------------------
(* What the socket and the inputs may be after a step.                     *)
SharedOK ==
    /\ mysocket \in Socket \cup {DISCONNECTED}
    /\ conn \in [Socket -> {"closed", "made", "up", "lost"}]
    /\ hmtx \in Thread \cup {None}
    /\ slow \in BOOLEAN

BuffersOK == SentBuffer \in Text \cup {None} /\ sendbuf \in Text \cup {None}

InputOK ==
    /\ recvbuf \in Seq(Fragment) /\ InBuf \in Seq(Fragment)
    /\ partial \in [Socket -> 0..MaxLines] /\ lines \in 0..MaxLines

HistoryOK == wire \in [Socket -> Seq(1..MaxPackets)] /\ heard \in [Socket -> Nat]

CountsOK == queued \in 0..MaxPackets /\ acks \in 0..MaxAcks

(* TypeOK is the five parts, by the variables a step changes together.     *)
LEMMA TypeParts ==
    ControlOK => (TypeOK <=> SharedOK /\ BuffersOK /\ InputOK /\ HistoryOK /\ CountsOK)
BY DEF ControlOK, TypeOK, SharedOK, BuffersOK, InputOK, HistoryOK, CountsOK

(* The same of the next state.                                             *)
LEMMA TypePartsNext ==
    ASSUME ControlOK', SharedOK', BuffersOK', InputOK', HistoryOK', CountsOK'
    PROVE  TypeOK'
BY DEF ControlOK, TypeOK, SharedOK, BuffersOK, InputOK, HistoryOK, CountsOK

(* What the invariant says, part by part.                                  *)
LEMMA Parts ==
    ASSUME IInv
    PROVE  /\ TypeOK /\ ControlOK /\ OneDialer /\ OrderInv
           /\ SharedOK /\ BuffersOK /\ InputOK /\ HistoryOK /\ CountsOK
BY DEF IInv, TypeOK, SharedOK, BuffersOK, InputOK, HistoryOK, CountsOK

(* Most steps end or continue a call and leave the inputs, the counters    *)
(* and the histories alone.                                                *)
LEMMA CallStep ==
    ASSUME IInv, NEW t \in Thread, NEW l \in Label, ControlOK',
           pc' = [pc EXCEPT ![t] = l], l \notin {"select", "send", "dial", "resend"},
           queue' = queue \/ (queue # <<>> /\ queue' = Tail(queue)),
           UNCHANGED <<queued, acks, sendbuf>>, SentBuffer' \in {None, SentBuffer},
           WireOK, HistoryOK', InputOK', SharedOK', OneDialer'
    PROVE  IInv'
<1>1. TypeOK /\ CountsOK /\ BuffersOK /\ OrderInv BY Parts
<1>2. TypeOK' BY <1>1, TypePartsNext DEF BuffersOK, CountsOK
<1>3. \A u \in Thread : pc'[u] \in {"select", "send"} => pc[u] \in {"select", "send"}
  BY <1>1 DEF TypeOK
<1>4. OrderInv' BY <1>1, <1>3, OrderKept
<1> QED BY <1>2, <1>4 DEF IInv

(* A step that sends nothing keeps the order of the wires.                 *)
LEMMA SameHistory ==
    ASSUME UNCHANGED wire PROVE WireOK
BY DEF WireOK

(* tcp_disconnect keeps the types of the shared variables.                 *)
LEMMA DisconnectShared ==
    ASSUME SharedOK, tcp_disconnect, slow' = slow, hmtx' \in {hmtx, None} PROVE SharedOK'
BY DEF SharedOK, tcp_disconnect

(* The steps of tcp_connect.                                               *)
LEMMA CheckStep ==
    ASSUME IInv, NEW t \in Thread, Check(t) PROVE IInv' /\ WireOK
<1>1. /\ TypeOK /\ ControlOK /\ OneDialer /\ pc[t] = "check"
      /\ SharedOK' /\ InputOK' /\ HistoryOK' /\ WireOK
      /\ UNCHANGED <<shared, buffers>>
  BY Parts, SameHistory DEF Check, SharedOK, InputOK, HistoryOK, shared,
     input, history
<1>2. /\ ControlOK'
      /\ \E l \in {"rest", "check", "drain", "drop", "frame", "store", "wait"} :
            pc' = [pc EXCEPT ![t] = l]
      /\ queue' = queue \/ (queue # <<>> /\ queue' = Tail(queue))
      /\ UNCHANGED <<queued, acks>>
  <2>1. CASE mysocket # DISCONNECTED
    <3>1. Connected(t) BY <2>1 DEF Check
    <3> QED BY <1>1, <3>1, ConnectedControl
  <2>2. CASE mysocket = DISCONNECTED
    <3>1. Goto(t, "wait") /\ UNCHANGED <<job, status, source>> BY <2>2 DEF Check
    <3>2. ControlOK' BY <1>1, <3>1, InsideControl DEF source, Label
    <3> QED BY <3>1, <3>2 DEF Goto, source
  <2> QED BY <2>1, <2>2
<1>3. OneDialer' BY <1>1, <1>2, DialerKept DEF shared, Label
<1> QED BY <1>1, <1>2, <1>3, CallStep DEF buffers, Label

(* Open: the mutex goes to a thread, with a socket that was closed.        *)
LEMMA OpenStep ==
    ASSUME IInv, NEW t \in Thread, Open(t) PROVE IInv' /\ WireOK
<1>1. /\ TypeOK /\ ControlOK /\ OneDialer /\ OrderInv
      /\ SharedOK /\ InputOK /\ HistoryOK /\ BuffersOK /\ CountsOK
      /\ pc[t] = "wait" /\ UNCHANGED <<buffers, recvbuf, InBuf, lines>>
  BY Parts DEF Open
<1>2. hmtx = None BY <1>1 DEF Open, OneDialer
<1>3. \A s \in Socket : conn[s] # "made" BY <1>1, <1>2 DEF OneDialer
<1>4. CASE /\ Return(t, 2) /\ mysocket' \in {mysocket, DISCONNECTED}
           /\ slow' \in {slow, TRUE}
           /\ UNCHANGED <<conn, hmtx, history, partial>>
  <2>1. SharedOK' /\ InputOK' /\ HistoryOK' /\ WireOK
    BY <1>1, <1>4, SameHistory DEF SharedOK, InputOK, HistoryOK, history
  <2>2. /\ ControlOK'
        /\ \E l \in {"rest", "check", "drain", "drop"} : pc' = [pc EXCEPT ![t] = l]
        /\ queue' = queue \/ (queue # <<>> /\ queue' = Tail(queue))
        /\ UNCHANGED <<queued, acks>>
    BY <1>1, <1>4, ReturnControl
  <2>3. OneDialer' BY <1>1, <1>2, <1>3, <1>4, <2>2 DEF OneDialer, TypeOK
  <2> QED BY <1>1, <2>1, <2>2, <2>3, CallStep DEF buffers, Label
<1>5. ASSUME NEW s \in Socket, slow' = TRUE, conn[s] = "closed", mysocket' = s,
             conn' = [conn EXCEPT ![s] = "made"], wire' = [wire EXCEPT ![s] = <<>>],
             heard' = [heard EXCEPT ![s] = 0], partial' = [partial EXCEPT ![s] = 0],
             hmtx' = t, Goto(t, "dial"), UNCHANGED <<job, status, source>>
      PROVE  IInv' /\ WireOK
  <2>1. SharedOK' /\ InputOK' /\ HistoryOK' /\ WireOK /\ BuffersOK' /\ CountsOK'
    BY <1>1, <1>5 DEF SharedOK, InputOK, HistoryOK, WireOK, BuffersOK,
       CountsOK,
       source, buffers
  <2>2. ControlOK' BY <1>1, <1>5, InsideControl DEF source, Label
  <2>3. pc' = [pc EXCEPT ![t] = "dial"] /\ pc \in [Thread -> Label]
    BY <1>1, <1>5 DEF Goto, TypeOK
  <2>4. \A u \in Thread : pc'[u] \in {"dial", "resend"} <=> hmtx' = u
    BY <1>1, <1>2, <1>5, <2>3 DEF OneDialer
  <2>5. OneDialer' BY <1>1, <1>3, <1>5, <2>3, <2>4 DEF OneDialer, TypeOK
  <2>6. OrderInv' BY <1>1, <1>5, <2>1, <2>3, OrderKept DEF source, buffers
  <2> QED BY <2>1, <2>2, <2>5, <2>6, TypePartsNext DEF IInv
<1> QED BY <1>4, <1>5 DEF Open, shared

(* Dial: the dialer goes on to resend, or gives up mutex and socket.       *)
LEMMA DialStep ==
    ASSUME IInv, NEW t \in Thread, Dial(t) PROVE IInv' /\ WireOK
<1>1. /\ TypeOK /\ ControlOK /\ OneDialer /\ OrderInv
      /\ SharedOK /\ BuffersOK /\ CountsOK
      /\ InputOK' /\ HistoryOK' /\ WireOK
      /\ pc[t] = "dial" /\ UNCHANGED buffers
  BY Parts, SameHistory DEF Dial, InputOK, HistoryOK, input, history
<1>2. hmtx = t /\ \A u \in Thread : pc[u] \in {"dial", "resend"} => u = t
  BY <1>1 DEF OneDialer
<1>3. CASE /\ Current({"made"}) /\ conn' = [conn EXCEPT ![mysocket] = "up"]
           /\ Goto(t, "resend") /\ UNCHANGED <<mysocket, hmtx, slow, job, status, source>>
  <2>1. SharedOK' /\ BuffersOK' /\ CountsOK'
    BY <1>1, <1>3 DEF SharedOK, BuffersOK, CountsOK, buffers, source, Current
  <2>2. ControlOK' BY <1>1, <1>3, InsideControl DEF source, Label
  <2>3. pc' = [pc EXCEPT ![t] = "resend"] /\ pc \in [Thread -> Label]
    BY <1>1, <1>3 DEF Goto, TypeOK
  <2>4. \A s \in Socket : conn'[s] # "made"
    BY <1>1, <1>3 DEF OneDialer, Current, TypeOK
  <2>5. OneDialer' BY <1>1, <1>2, <1>3, <2>3, <2>4 DEF OneDialer
  <2>6. OrderInv' BY <1>1, <1>3, <2>3, OrderKept DEF source, buffers
  <2> QED BY <1>1, <2>1, <2>2, <2>5, <2>6, TypePartsNext DEF IInv
<1>4. CASE tcp_disconnect /\ hmtx' = None /\ UNCHANGED slow /\ Return(t, 2)
  <2>1. SharedOK' BY <1>1, <1>4, DisconnectShared
  <2>2. /\ ControlOK'
        /\ \E l \in {"rest", "check", "drain", "drop"} : pc' = [pc EXCEPT ![t] = l]
        /\ queue' = queue \/ (queue # <<>> /\ queue' = Tail(queue))
        /\ UNCHANGED <<queued, acks>>
    BY <1>1, <1>4, ReturnControl
  <2>3. \A s \in Socket : conn'[s] # "made"
    BY <1>1, <1>4 DEF OneDialer, tcp_disconnect, TypeOK
  <2>4. OneDialer' BY <1>1, <1>2, <1>4, <2>2, <2>3 DEF OneDialer, TypeOK
  <2> QED BY <1>1, <2>1, <2>2, <2>4, CallStep DEF buffers, Label
<1> QED BY <1>3, <1>4 DEF Dial

(* Resend: SentBuffer goes out first, and the mutex is given back.         *)
LEMMA ResendStep ==
    ASSUME IInv, NEW t \in Thread, Resend(t) PROVE IInv' /\ WireOK
<1>1. /\ TypeOK /\ ControlOK /\ OneDialer /\ OrderInv
      /\ SharedOK /\ HistoryOK /\ InputOK' /\ pc[t] = "resend"
      /\ hmtx' = None /\ UNCHANGED buffers
  BY Parts DEF Resend, InputOK, input
<1>2. hmtx = t /\ (\A u \in Thread : pc[u] \in {"dial", "resend"} => u = t)
      /\ \A s \in Socket : conn[s] # "made"
  BY <1>1 DEF OneDialer
<1>3. CASE SentBuffer = None /\ Connected(t) /\ UNCHANGED <<mysocket, conn, slow, history>>
  <2>1. SharedOK' /\ HistoryOK' /\ WireOK
    BY <1>1, <1>3, SameHistory DEF SharedOK, HistoryOK, history
  <2>2. /\ ControlOK'
        /\ \E l \in {"rest", "check", "drain", "drop", "frame", "store"} :
              pc' = [pc EXCEPT ![t] = l]
        /\ queue' = queue \/ (queue # <<>> /\ queue' = Tail(queue))
        /\ UNCHANGED <<queued, acks>>
    BY <1>1, <1>3, ConnectedControl
  <2>3. OneDialer' BY <1>1, <1>2, <1>3, <2>2 DEF OneDialer, TypeOK
  <2> QED BY <1>1, <2>1, <2>2, <2>3, CallStep DEF buffers, Label
<1>4. CASE /\ SentBuffer # None /\ Current({"up", "lost"}) /\ OnWire(SentBuffer)
           /\ Connected(t) /\ UNCHANGED <<mysocket, conn, slow>>
  <2>1. SentBuffer = sendbuf BY <1>1, <1>4 DEF OrderInv
  <2>2. SharedOK' /\ HistoryOK' /\ WireOK
    BY <1>1, <1>4, <2>1, OnWireOK DEF SharedOK, HistoryOK
  <2>3. /\ ControlOK'
        /\ \E l \in {"rest", "check", "drain", "drop", "frame", "store"} :
              pc' = [pc EXCEPT ![t] = l]
        /\ queue' = queue \/ (queue # <<>> /\ queue' = Tail(queue))
        /\ UNCHANGED <<queued, acks>>
    BY <1>1, <1>4, ConnectedControl
  <2>4. OneDialer' BY <1>1, <1>2, <1>4, <2>3 DEF OneDialer, TypeOK
  <2> QED BY <1>1, <2>2, <2>3, <2>4, CallStep DEF buffers, Label
<1>5. CASE /\ SentBuffer # None /\ ~Current({"up"}) /\ tcp_disconnect
           /\ Return(t, 2) /\ UNCHANGED <<slow, history>>
  <2>1. SharedOK' /\ HistoryOK' /\ WireOK
    BY <1>1, <1>5, DisconnectShared, SameHistory DEF HistoryOK, history
  <2>2. /\ ControlOK'
        /\ \E l \in {"rest", "check", "drain", "drop"} : pc' = [pc EXCEPT ![t] = l]
        /\ queue' = queue \/ (queue # <<>> /\ queue' = Tail(queue))
        /\ UNCHANGED <<queued, acks>>
    BY <1>1, <1>5, ReturnControl
  <2>3. \A s \in Socket : conn'[s] # "made"
    BY <1>1, <1>2, <1>5 DEF tcp_disconnect, TypeOK
  <2>4. OneDialer' BY <1>1, <1>2, <2>2, <2>3 DEF OneDialer, TypeOK
  <2> QED BY <1>1, <2>1, <2>2, <2>4, CallStep DEF buffers, Label
<1> QED BY <1>3, <1>4, <1>5 DEF Resend

-----------------------------------------------------------------------------
(* The steps of tcp_transmit_buffer.                                       *)
LEMMA StoreStep ==
    ASSUME IInv, NEW t \in Thread, Store(t) PROVE IInv' /\ WireOK
<1>1. /\ TypeOK /\ ControlOK /\ OneDialer /\ OrderInv /\ pc[t] = "store"
      /\ SharedOK' /\ InputOK' /\ HistoryOK' /\ CountsOK' /\ WireOK
      /\ Goto(t, "select") /\ UNCHANGED <<shared, source, job, status, wire>>
  BY Parts, SameHistory DEF Store, SharedOK, InputOK, HistoryOK, CountsOK,
     shared, input, source, history
<1>2. sendbuf' = Buffer(t) /\ SentBuffer' = Buffer(t) BY DEF Store
<1>4. /\ job[t] \in Transmits
      /\ job[t] = "packet" => queue # <<>> /\ queue \in Seq(1..MaxPackets)
  BY <1>1 DEF ControlOK, ThreadOK, Transmits
<1>3. ControlOK' BY <1>1, <1>4, InsideControl DEF source, Label
<1>5. job[t] = "packet" => Head(queue) \in 1..MaxPackets /\ Head(queue) = queue[1]
                           /\ 1 \in DOMAIN queue
  BY <1>4
<1>6. /\ Buffer(t) \in Text
      /\ Buffer(t).kind = "packet" => job[t] = "packet" /\ Buffer(t).n = queue[1]
  BY <1>4, <1>5 DEF Buffer, Text, Transmits
<1>7. BuffersOK' BY <1>2, <1>6 DEF BuffersOK
<1>8. OneDialer' BY <1>1, DialerKept DEF Goto, shared, Label
<1>9. OrderInv'
  <2>1. sendbuf' # None /\ SentBuffer' \in {None, sendbuf'} BY <1>2, <1>6
  <2>2. /\ queue \in Seq(1..MaxPackets)
        /\ \A i \in DOMAIN queue : queue[i] <= queued
        /\ \A i, j \in DOMAIN queue : i < j => queue[i] < queue[j]
        /\ \A s \in Socket : \A k \in DOMAIN wire[s] :
              /\ wire[s][k] <= queued
              /\ \A i \in DOMAIN queue : wire[s][k] <= queue[i]
    BY <1>1 DEF OrderInv, TypeOK
  <2>3. sendbuf'.kind = "packet" =>
           /\ sendbuf'.n <= queued
           /\ \A i \in DOMAIN queue : sendbuf'.n <= queue[i]
           /\ \A s \in Socket : \A k \in DOMAIN wire[s] : wire[s][k] <= sendbuf'.n
    BY <1>2, <1>5, <1>6, <2>2
  <2> QED BY <1>1, <2>1, <2>2, <2>3 DEF OrderInv, source
<1> QED BY <1>1, <1>3, <1>7, <1>8, <1>9, TypePartsNext DEF IInv

(* Select: nothing is sent yet.                                            *)
LEMMA SelectStep ==
    ASSUME IInv, NEW t \in Thread, Select(t) PROVE IInv' /\ WireOK
<1>1. /\ TypeOK /\ ControlOK /\ OneDialer /\ OrderInv /\ pc[t] = "select"
      /\ SharedOK' /\ InputOK' /\ HistoryOK' /\ BuffersOK' /\ WireOK
      /\ UNCHANGED <<shared, buffers>>
  BY Parts, SameHistory DEF Select, SharedOK, InputOK, HistoryOK, BuffersOK,
     shared, buffers, input, history
<1>2. ASSUME NEW r \in {1, 4}, Return(t, r) PROVE IInv' /\ WireOK
  <2>1. /\ ControlOK'
        /\ \E l \in {"rest", "check", "drain", "drop"} : pc' = [pc EXCEPT ![t] = l]
        /\ queue' = queue \/ (queue # <<>> /\ queue' = Tail(queue))
        /\ UNCHANGED <<queued, acks>>
    BY <1>1, <1>2, ReturnControl
  <2>2. OneDialer' BY <1>1, <2>1, DialerKept DEF shared, Label
  <2> QED BY <1>1, <2>1, <2>2, CallStep DEF buffers, Label
<1>3. CASE Goto(t, "send") /\ UNCHANGED <<job, status, source>>
  <2>1. ControlOK'
    <3>1. job[t] \in Transmits BY <1>1 DEF ControlOK, ThreadOK
    <3> QED BY <1>1, <1>3, <3>1, InsideControl DEF source, Label
  <2>2. OneDialer' BY <1>1, <1>3, DialerKept DEF Goto, shared, Label
  <2>3. CountsOK' BY <1>3, Parts DEF CountsOK, source
  <2>4. sendbuf # None BY <1>1 DEF OrderInv
  <2>5. OrderInv' BY <1>1, <1>3, <2>4, OrderKept DEF source, buffers
  <2> QED BY <1>1, <2>1, <2>2, <2>3, <2>5, TypePartsNext DEF IInv
<1> QED BY <1>2, <1>3 DEF Select

(* A step that gives up the connection and returns.                        *)
LEMMA DropAndReturn ==
    ASSUME IInv, NEW t \in Thread, tcp_disconnect, Return(t, 2),
           pc[t] \in {"send", "recv"}, UNCHANGED <<hmtx, slow, buffers, history, input>>
    PROVE  IInv' /\ WireOK
<1>1. /\ TypeOK /\ ControlOK /\ OneDialer /\ SharedOK
      /\ InputOK' /\ HistoryOK' /\ WireOK
  BY Parts, SameHistory DEF InputOK, HistoryOK, input, history
<1>2. SharedOK' BY <1>1, DisconnectShared
<1>3. /\ ControlOK'
      /\ \E l \in {"rest", "check", "drain", "drop"} : pc' = [pc EXCEPT ![t] = l]
      /\ queue' = queue \/ (queue # <<>> /\ queue' = Tail(queue))
      /\ UNCHANGED <<queued, acks>>
  BY <1>1, ReturnControl
<1>4. OneDialer' BY <1>1, <1>3, DialerKept DEF Label
<1> QED BY <1>1, <1>2, <1>3, <1>4, CallStep DEF buffers, Label

(* Send: the shared buffer goes out; it is not older than what went before. *)
LEMMA SendStep ==
    ASSUME IInv, NEW t \in Thread, Send(t) PROVE IInv' /\ WireOK
<1>1. /\ TypeOK /\ ControlOK /\ OneDialer /\ OrderInv /\ pc[t] = "send"
      /\ HistoryOK /\ InputOK' /\ UNCHANGED <<buffers, input>>
  BY Parts DEF Send, InputOK, input
<1>2. CASE /\ Current({"up", "lost"}) /\ OnWire(sendbuf) /\ Return(t, 0)
           /\ UNCHANGED shared
  <2>1. SharedOK' /\ sendbuf # None
    BY <1>1, <1>2, Parts DEF SharedOK, shared, OrderInv
  <2>2. HistoryOK' /\ WireOK BY <1>1, <1>2, <2>1, OnWireOK DEF HistoryOK
  <2>3. /\ ControlOK'
        /\ \E l \in {"rest", "check", "drain", "drop"} : pc' = [pc EXCEPT ![t] = l]
        /\ queue' = queue \/ (queue # <<>> /\ queue' = Tail(queue))
        /\ UNCHANGED <<queued, acks>>
    BY <1>1, <1>2, ReturnControl
  <2>4. OneDialer' BY <1>1, <1>2, <2>3, DialerKept DEF shared, Label
  <2> QED BY <1>1, <2>1, <2>2, <2>3, <2>4, CallStep DEF buffers, Label
<1>3. CASE tcp_disconnect /\ Return(t, 2) /\ UNCHANGED <<hmtx, slow, history>>
  BY <1>1, <1>3, DropAndReturn
<1> QED BY <1>2, <1>3 DEF Send

-----------------------------------------------------------------------------
(* The steps of tcp_receive_buffer.                                        *)
LEMMA FrameStep ==
    ASSUME IInv, NEW t \in Thread, Frame(t) PROVE IInv' /\ WireOK
<1>1. /\ TypeOK /\ ControlOK /\ OneDialer /\ OrderInv /\ pc[t] = "frame"
      /\ InputOK /\ SharedOK' /\ HistoryOK' /\ BuffersOK' /\ WireOK
      /\ UNCHANGED <<shared, buffers, partial, lines>>
  BY Parts, SameHistory DEF Frame, SharedOK, HistoryOK, BuffersOK,
     shared, buffers, history
<1>2. ASSUME NEW r \in {0, 1, 4}, Return(t, r), InputOK' PROVE IInv' /\ WireOK
  <2>1. /\ ControlOK'
        /\ \E l \in {"rest", "check", "drain", "drop"} : pc' = [pc EXCEPT ![t] = l]
        /\ queue' = queue \/ (queue # <<>> /\ queue' = Tail(queue))
        /\ UNCHANGED <<queued, acks>>
    BY <1>1, <1>2, ReturnControl
  <2>2. OneDialer' BY <1>1, <2>1, DialerKept DEF shared, Label
  <2> QED BY <1>1, <1>2, <2>1, <2>2, CallStep DEF buffers, Label
<1>3. ASSUME NEW k \in DOMAIN recvbuf, InBuf' = SubSeq(recvbuf, 1, k),
             recvbuf' = SubSeq(recvbuf, k + 1, Len(recvbuf)), Return(t, 0)
      PROVE  IInv' /\ WireOK
  <2>1. recvbuf \in Seq(Fragment) BY <1>1 DEF InputOK
  <2> HIDE DEF Fragment
  <2>2. k \in 1..Len(recvbuf) BY <2>1
  <2>3. InBuf' \in Seq(Fragment) BY <1>3, <2>1, <2>2
  <2>4. recvbuf' \in Seq(Fragment) BY <1>3, <2>1, <2>2
  <2>5. InputOK' BY <1>1, <2>3, <2>4 DEF InputOK
  <2> QED BY <1>2, <1>3, <2>5
<1>4. ASSUME NEW r \in {1, 4}, Return(t, r), UNCHANGED <<InBuf, recvbuf>>
      PROVE  IInv' /\ WireOK
  BY <1>1, <1>2, <1>4 DEF InputOK
<1>5. CASE Goto(t, "recv") /\ UNCHANGED <<job, status, source, InBuf, recvbuf>>
  <2>1. ControlOK'
    <3>1. job[t] = "receive" BY <1>1 DEF ControlOK, ThreadOK
    <3> QED BY <1>1, <1>5, <3>1, InsideControl DEF source, Label
  <2>2. OneDialer' BY <1>1, <1>5, DialerKept DEF Goto, shared, Label
  <2>3. InputOK' BY <1>1, <1>5 DEF InputOK
  <2> QED BY <1>1, <1>5, <2>1, <2>2, <2>3, CallStep DEF buffers, source, Goto,
    Label
<1>6. CASE \E k \in DOMAIN recvbuf : Ends(recvbuf[k])
  BY <1>3, <1>6 DEF Frame
<1>7. CASE ~\E k \in DOMAIN recvbuf : Ends(recvbuf[k])
  <2>1. /\ \/ Return(t, 4) \/ Return(t, 1)
           \/ Goto(t, "recv") /\ UNCHANGED <<job, status, source>>
        /\ UNCHANGED <<InBuf, recvbuf>>
    BY <1>7 DEF Frame
  <2> QED BY <1>4, <1>5, <2>1
<1> QED BY <1>6, <1>7

(* Pieces are made of fragments.                                           *)
LEMMA PieceType ==
    ASSUME InputOK, NEW s \in Socket, NEW p \in Piece(s)
    PROVE  p \in Seq(Fragment) /\ p[Len(p)] \in Fragment
<1> DEFINE end == [part |-> "end", line |-> partial[s]]
           head == [part |-> "head", line |-> lines + 1]
           tail == [part |-> "end", line |-> lines + 1]
           newline == [part |-> "newline", line |-> 0]
<1>1. partial[s] \in 0..MaxLines /\ lines \in 0..MaxLines BY DEF InputOK
<1>2. newline \in Fragment BY DEF Fragment
<1>3. partial[s] # 0 => end \in Fragment BY <1>1 DEF Fragment
<1>4. lines + 1 <= MaxLines => head \in Fragment /\ tail \in Fragment
  BY <1>1 DEF Fragment
<1>5. /\ p \in {<<newline>>, <<end>>, <<end, head>>, <<head>>, <<head, tail>>}
      /\ p \in {<<end>>, <<end, head>>} => partial[s] # 0
      /\ p[Len(p)].line <= MaxLines
  <2>1. <<newline>>[1].part = "newline" /\ <<head>>[1].part = "head"
        /\ <<head, tail>>[1].part = "head"
        /\ <<end>>[1].part = "end" /\ <<end, head>>[1].part = "end"
    OBVIOUS
  <2> QED BY <2>1 DEF Piece
<1>6. CASE p \in {<<end, head>>, <<head>>, <<head, tail>>}
  <2>1. p[Len(p)].line = lines + 1 BY SMTT(30), <1>6
  <2>2. head \in Fragment /\ tail \in Fragment BY <1>4, <1>5, <2>1
  <2> HIDE DEF end, head, tail
  <2>3. p = <<end, head>> => end \in Fragment BY <1>3, <1>5
  <2> QED BY <1>6, <2>2, <2>3
<1>7. CASE p = <<newline>>
  <2> HIDE DEF newline
  <2> QED BY <1>2, <1>7
<1>8. CASE p = <<end>>
  <2>1. end \in Fragment BY <1>3, <1>5, <1>8
  <2> HIDE DEF end
  <2> QED BY <1>8, <2>1
<1> QED BY <1>5, <1>6, <1>7, <1>8

(* Recv: the server's text, or the end of the connection.                  *)
LEMMA RecvStep ==
    ASSUME IInv, NEW t \in Thread, Recv(t) PROVE IInv' /\ WireOK
<1>1. /\ TypeOK /\ ControlOK /\ OneDialer /\ OrderInv /\ pc[t] = "recv"
      /\ InputOK /\ SharedOK /\ HistoryOK /\ UNCHANGED <<sendbuf, InBuf, wire>>
  BY Parts DEF Recv
<1>2. ASSUME Current({"up"}), NEW p \in Piece(mysocket),
             recvbuf' = recvbuf \o p,
             partial' = [partial EXCEPT ![mysocket] =
                IF p[Len(p)].part = "head" THEN p[Len(p)].line ELSE 0],
             lines' = IF p[Len(p)].line > lines THEN p[Len(p)].line ELSE lines,
             SentBuffer' = None,
             heard' = [heard EXCEPT ![mysocket] = Len(wire[mysocket])],
             Goto(t, "frame"), UNCHANGED <<shared, job, status, source>>
      PROVE  IInv' /\ WireOK
  <2>1. mysocket \in Socket BY <1>2 DEF Current
  <2>2. p \in Seq(Fragment) /\ p[Len(p)] \in Fragment BY <1>1, <1>2, <2>1, PieceType
  <2>3. p[Len(p)].line \in 0..MaxLines BY <2>2 DEF Fragment
  <2>4. recvbuf' \in Seq(Fragment) BY <1>1, <1>2, <2>2 DEF InputOK
  <2>5. InputOK' BY <1>1, <1>2, <2>1, <2>3, <2>4 DEF InputOK
  <2>6. SharedOK' BY <1>1, <1>2 DEF SharedOK, shared
  <2>7. WireOK BY <1>1, SameHistory
  <2>8. Len(wire[mysocket]) \in Nat BY <1>1, <2>1 DEF HistoryOK
  <2>9. HistoryOK' BY <1>1, <1>2, <2>1, <2>8 DEF HistoryOK
  <2>10. ControlOK'
    <3>1. job[t] = "receive" BY <1>1 DEF ControlOK, ThreadOK
    <3> QED BY <1>1, <1>2, <3>1, InsideControl DEF source, Label
  <2>11. OneDialer' BY <1>1, <1>2, DialerKept DEF Goto, shared, Label
  <2> QED BY <1>1, <1>2, <2>5, <2>6, <2>7, <2>9, <2>10, <2>11, CallStep
        DEF source, Goto, Label
<1>3. CASE /\ tcp_disconnect /\ Return(t, 2)
           /\ UNCHANGED <<hmtx, slow, recvbuf, partial, lines, SentBuffer, heard>>
  BY <1>1, <1>3, DropAndReturn DEF buffers, history, input
<1> QED BY <1>2, <1>3 DEF Recv

-----------------------------------------------------------------------------
(* The callers and the network.                                            *)
LEMMA CallerStep ==
    ASSUME IInv, PollerStep \/ \E a \in Acker : Ack(a) PROVE IInv' /\ WireOK
<1>1. /\ TypeOK /\ ControlOK /\ OneDialer /\ OrderInv /\ SharedOK /\ CountsOK
      /\ pc \in [Thread -> Label] /\ job \in [Thread -> Job]
      /\ \A u \in Thread : ThreadOK(u, pc[u], job[u])
      /\ UNCHANGED <<buffers, input, history, queue, queued>>
  BY Parts DEF ControlOK, PollerStep, Wake, Drain, Drop, Ack, source
<1>2. InputOK' /\ HistoryOK' /\ WireOK /\ BuffersOK'
  BY <1>1, Parts, SameHistory DEF InputOK, HistoryOK, BuffersOK, input,
     history, buffers
<1>3. ASSUME NEW t \in Thread, NEW l \in {"rest", "check"}, NEW j \in Job,
             pc' = [pc EXCEPT ![t] = l], job' = [job EXCEPT ![t] = j],
             pc[t] \notin {"dial", "resend"},
             ThreadOK(t, l, j), j = "packet" => queue # <<>>,
             status' \in {0, 1, 2, 4}, acks' \in 0..MaxAcks,
             \/ tcp_disconnect /\ UNCHANGED <<hmtx, slow>>
             \/ UNCHANGED shared
      PROVE  IInv'
  <2>1. SharedOK' BY <1>1, <1>3, DisconnectShared DEF SharedOK, shared
  <2>2. ControlOK'
    <3>1. \A u \in Thread : ThreadOK(u, pc'[u], job'[u]) BY <1>1, <1>3
    <3>2. job'[Poller] = "packet" => queue' # <<>> \/ pc'[Poller] = "drain"
      BY <1>1, <1>3 DEF ControlOK
    <3> QED BY <1>1, <1>3, <3>1, <3>2 DEF ControlOK, ThreadOK, Label
  <2>3. OneDialer' BY <1>1, <1>3, DialerKept DEF shared, Label
  <2>4. CountsOK' BY <1>1, <1>3 DEF CountsOK
  <2>5. OrderInv' BY <1>1, <1>2, <1>3, OrderKept DEF buffers
  <2> QED BY <1>2, <2>1, <2>2, <2>3, <2>4, <2>5, TypePartsNext DEF IInv
<1>4. status \in {0, 1, 2, 4} /\ acks \in 0..MaxAcks BY <1>1 DEF ControlOK, CountsOK
<1>5. CASE Wake
  <2>1. ThreadOK(Poller, "check", "connect") BY DEF ThreadOK
  <2> QED BY <1>2, <1>3, <1>4, <1>5, <2>1 DEF Wake, Call, Goto, Job, source
<1>6. CASE Drain
  <2> DEFINE j == IF queue # <<>> THEN "packet" ELSE IF status # 0 THEN "ping" ELSE "receive"
  <2>1. ThreadOK(Poller, "check", j) BY DEF ThreadOK
  <2>2. j \in Job /\ (j = "packet" => queue # <<>>) BY DEF Job
  <2> QED BY <1>2, <1>3, <1>4, <1>6, <2>1, <2>2 DEF Drain, Call, Goto, source
<1>7. CASE Drop
  <2>1. ThreadOK(Poller, "rest", "none") BY DEF ThreadOK
  <2> QED BY <1>2, <1>3, <1>4, <1>7, <2>1 DEF Drop, Rest, Goto, Job, source
<1>8. ASSUME NEW a \in Acker, Ack(a) PROVE IInv'
  <2>1. ThreadOK(a, "check", "ack") BY DEF ThreadOK
  <2>2. acks' \in 0..MaxAcks BY <1>4, <1>8 DEF Ack
  <2> QED BY <1>3, <1>4, <1>8, <2>1, <2>2 DEF Ack, Call, Goto, Job
<1> QED BY <1>2, <1>5, <1>6, <1>7, <1>8 DEF PollerStep

(* AprsQueueXmitPacket: the new packet is the newest.                      *)
LEMMA QueueStep ==
    ASSUME IInv, AprsQueueXmitPacket PROVE IInv' /\ WireOK
<1>1. /\ TypeOK /\ ControlOK /\ OneDialer /\ OrderInv /\ CountsOK
      /\ SharedOK' /\ InputOK' /\ HistoryOK' /\ BuffersOK' /\ WireOK
      /\ UNCHANGED <<shared, buffers, history, control>>
  BY Parts, SameHistory DEF AprsQueueXmitPacket, SharedOK, InputOK, HistoryOK,
     BuffersOK, shared, input, history, buffers
<1>2. /\ queue \in Seq(1..MaxPackets) /\ queued \in Nat /\ queued' = queued + 1
      /\ queued' \in 1..MaxPackets /\ queue' = Append(queue, queued')
      /\ UNCHANGED acks
  BY <1>1 DEF TypeOK, AprsQueueXmitPacket
<1>3. queue' \in Seq(1..MaxPackets) /\ queue' # <<>>
  <2> DEFINE S == 1..MaxPackets
  <2>1. queue \in Seq(S) /\ queued' \in S BY <1>2
  <2> HIDE DEF S
  <2>2. Append(queue, queued') \in Seq(S) BY <2>1
  <2> QED BY <1>2, <2>2 DEF S
<1>4. \A i \in DOMAIN queue' :
         \/ i \in DOMAIN queue /\ queue'[i] = queue[i]
         \/ i = Len(queue) + 1 /\ queue'[i] = queued + 1
  BY <1>2
<1>5. ControlOK' BY <1>1, <1>3 DEF ControlOK, ThreadOK, control
<1>6. CountsOK' BY <1>1, <1>2 DEF CountsOK
<1>7. OneDialer' BY <1>1 DEF OneDialer, shared, control
<1>8. OrderInv'
  <2>1. \A i \in DOMAIN queue : queue[i] <= queued BY <1>1 DEF OrderInv
  <2>2. \A i \in DOMAIN queue' : queue'[i] <= queued' BY <1>2, <1>4, <2>1
  <2>3. \A i, j \in DOMAIN queue' : i < j => queue'[i] < queue'[j]
    BY <1>1, <1>2, <1>4, <2>1 DEF OrderInv
  <2>4. \A s \in Socket : wire[s] \in Seq(1..MaxPackets) BY <1>1 DEF TypeOK
  <2>5. \A s \in Socket : \A k \in DOMAIN wire[s] :
           /\ wire[s][k] \in Nat /\ wire[s][k] <= queued
           /\ \A i \in DOMAIN queue : wire[s][k] <= queue[i]
           /\ sendbuf # None /\ sendbuf.kind = "packet" => wire[s][k] <= sendbuf.n
    BY <1>1, <2>4 DEF OrderInv
  <2>6. \A s \in Socket : \A k \in DOMAIN wire[s] :
           /\ wire[s][k] <= queued'
           /\ \A i \in DOMAIN queue' : wire[s][k] <= queue'[i]
    BY <1>2, <1>4, <2>5
  <2>7. sendbuf # None /\ sendbuf.kind = "packet" =>
           /\ sendbuf.n \in Nat /\ sendbuf.n <= queued
           /\ \A i \in DOMAIN queue : sendbuf.n <= queue[i]
    BY <1>1 DEF OrderInv, TypeOK, Text
  <2>8. sendbuf # None /\ sendbuf.kind = "packet" =>
           sendbuf.n <= queued' /\ \A i \in DOMAIN queue' : sendbuf.n <= queue'[i]
    BY <1>2, <1>4, <2>7
  <2>9. /\ SentBuffer \in {None, sendbuf}
        /\ \A t \in Thread : pc[t] \in {"select", "send"} => sendbuf # None
    BY <1>1 DEF OrderInv
  <2> QED BY <1>1, <2>2, <2>3, <2>5, <2>6, <2>8, <2>9
        DEF OrderInv, buffers, history, control
<1> QED BY <1>1, <1>5, <1>6, <1>7, <1>8, TypePartsNext DEF IInv

(* Lose and Tick: the steps of the environment.                            *)
LEMMA NetworkStep ==
    ASSUME IInv, Tick \/ \E s \in Socket : Lose(s) PROVE IInv' /\ WireOK
<1>1. /\ TypeOK /\ ControlOK /\ OneDialer /\ OrderInv /\ CountsOK /\ SharedOK
      /\ UNCHANGED <<mysocket, hmtx, buffers, input, source, control, history>>
  BY Parts DEF Tick, Lose
<1>2. InputOK' /\ HistoryOK' /\ BuffersOK' /\ CountsOK' /\ WireOK
  BY <1>1, Parts, SameHistory DEF InputOK, HistoryOK, BuffersOK, CountsOK,
     input, history, buffers, source
<1>3. /\ SharedOK'
      /\ \A s \in Socket : conn'[s] = "made" => conn[s] = "made"
  BY <1>1 DEF SharedOK, Tick, Lose
<1>4. ControlOK' BY <1>1 DEF ControlOK, ThreadOK, control, source
<1>5. OneDialer' BY <1>1, <1>3 DEF OneDialer, control
<1>6. OrderInv' BY <1>1 DEF OrderInv, buffers, source, control, history
<1> QED BY <1>2, <1>3, <1>4, <1>5, <1>6, TypePartsNext DEF IInv

-----------------------------------------------------------------------------
(* Every step keeps the invariant.                                         *)
LEMMA NextStep ==
    ASSUME IInv, Next PROVE IInv' /\ WireOK
BY CheckStep, OpenStep, DialStep, ResendStep, StoreStep, SelectStep, SendStep,
   FrameStep, RecvStep, CallerStep, QueueStep, NetworkStep DEF Next, LinkStep

(* The inductive invariant holds in every state.                           *)
THEOREM Invariance == Spec => []IInv
<1>1. Init => IInv
  <2> SUFFICES ASSUME Init PROVE IInv OBVIOUS
  <2>1. ControlOK BY DEF Init, ControlOK, ThreadOK, Label, Job
  <2>2. TypeOK
    <3>1. \A S : <<>> \in Seq(S) OBVIOUS
    <3>2. HistoryOK BY <3>1 DEF Init, HistoryOK
    <3>3. InputOK BY <3>1 DEF Init, InputOK
    <3>4. SharedOK BY DEF Init, SharedOK
    <3>5. BuffersOK BY DEF Init, BuffersOK
    <3>6. CountsOK BY DEF Init, CountsOK
    <3> QED BY <2>1, <3>2, <3>3, <3>4, <3>5, <3>6, TypeParts
  <2>3. OneDialer BY DEF Init, OneDialer
  <2>4. OrderInv BY DEF Init, OrderInv
  <2> QED BY <2>1, <2>2, <2>3, <2>4 DEF IInv
<1>2. IInv /\ [Next]_vars => IInv'
  <2>1. CASE UNCHANGED vars
    BY <2>1 DEF IInv, TypeOK, ControlOK, ThreadOK, OneDialer, OrderInv, vars,
       shared,
       buffers, input, source, control, history
  <2> QED BY <2>1, NextStep
<1> QED BY <1>1, <1>2, PTL DEF Spec

(* Every variable keeps its type.                                          *)
THEOREM TypeCorrect == Spec => []TypeOK
BY Invariance, PTL DEF IInv

(* One thread dials at a time, and dials the current socket.               *)
THEOREM OneDialerAlways == Spec => []OneDialer
BY Invariance, PTL DEF IInv

(* Packets go on the wires in the order in which they were queued: all     *)
(* that is sent is sendbuf, and its packet is no older than any sent.      *)
THEOREM QueueOrderKept == Spec => QueueOrder
<1> DEFINE Ordered == \A s, r \in Socket : Sent(s) =>
              \A j \in DOMAIN wire[r] : wire[r][j] <= Newest(s)'
<1>1. IInv /\ [Next]_vars => [Ordered]_wire
  <2> SUFFICES ASSUME IInv, Next PROVE Ordered
    BY DEF vars, history
  <2>1. WireOK BY NextStep
  <2> SUFFICES ASSUME NEW s \in Socket, NEW r \in Socket, Sent(s),
                      NEW j \in DOMAIN wire[r]
               PROVE  wire[r][j] <= wire'[s][Len(wire'[s])]
    BY DEF Newest
  <2>2. wire[s] \in Seq(1..MaxPackets) BY DEF IInv, TypeOK
  <2>3. /\ sendbuf # None /\ sendbuf.kind = "packet"
        /\ wire'[s] = Append(wire[s], sendbuf.n)
    BY <2>1, <2>2 DEF WireOK, Sent
  <2>4. sendbuf.n \in 1..MaxPackets BY <2>3 DEF IInv, TypeOK, Text
  <2>5. wire'[s][Len(wire'[s])] = sendbuf.n BY <2>2, <2>3, <2>4
  <2> QED BY <2>3, <2>5 DEF IInv, OrderInv
<1>2. Spec => []IInv BY Invariance
<1> QED BY <1>1, <1>2, PTL DEF Spec, QueueOrder

-----------------------------------------------------------------------------
(* As long as no ack was sent the poller is alone with the link.  Then a   *)
(* packet leaves the queue with the one call that transmits it, and only   *)
(* SentBuffer can send it again.                                           *)
HeardInv == \A s \in Socket : heard[s] <= Len(wire[s])

AckersRest == \A a \in Acker : job[a] = "none"

BufferOfCall == pc[Poller] \in {"select", "send"} => sendbuf = Buffer(Poller)

BufferIsPast ==
    pc[Poller] \notin {"select", "send"} /\ sendbuf # None /\ sendbuf.kind = "packet" =>
        \A i \in DOMAIN queue : sendbuf.n < queue[i]

DialedIsNew ==
    pc[Poller] \in {"dial", "resend"} /\ mysocket \in Socket => wire[mysocket] = <<>>

QueueIsNew ==
    \A s \in Socket : \A k \in DOMAIN wire[s] : \A i \in DOMAIN queue :
        wire[s][k] < queue[i]

WiresGrow ==
    \A s \in Socket : \A j, k \in DOMAIN wire[s] : j < k => wire[s][j] < wire[s][k]

HeardIsPast ==
    SentBuffer # None /\ SentBuffer.kind = "packet" =>
        \A s \in Socket : \A j \in 1..heard[s] : wire[s][j] # SentBuffer.n

AloneInv ==
    /\ AckersRest /\ BufferOfCall /\ BufferIsPast /\ DialedIsNew
    /\ QueueIsNew /\ WiresGrow /\ HeardIsPast

OnceInv == HeardInv /\ (acks = MaxAcks => AloneInv)

(* What a step may send while the poller is alone: the packet in sendbuf,  *)
(* if the socket has had none as new, and none that was answered is it.    *)
GrownOK ==
    \A s \in Socket :
        \/ wire'[s] = wire[s]
        \/ /\ sendbuf # None /\ sendbuf.kind = "packet"
           /\ wire'[s] = Append(wire[s], sendbuf.n)
           /\ \A k \in DOMAIN wire[s] : wire[s][k] < sendbuf.n
           /\ \A r \in Socket : \A j \in 1..heard[r] : wire[r][j] # sendbuf.n

(* What NoneAfterAnswer says of a step.                                    *)
Unanswered ==
    \A s, r \in Socket : Sent(s) => \A j \in 1..heard[r] : wire[r][j] # Newest(s)'

(* A packet that is sent so was not answered.                              *)
LEMMA GrownUnanswered ==
    ASSUME TypeOK, GrownOK PROVE Unanswered
<1> SUFFICES ASSUME NEW s \in Socket, NEW r \in Socket, Sent(s), NEW j \in 1..heard[r]
             PROVE  wire[r][j] # wire'[s][Len(wire'[s])]
  BY DEF Unanswered, Newest
<1>1. wire[s] \in Seq(1..MaxPackets) /\ sendbuf \in Text \cup {None} BY DEF TypeOK
<1>2. /\ sendbuf # None /\ sendbuf.kind = "packet"
      /\ wire'[s] = Append(wire[s], sendbuf.n)
      /\ wire[r][j] # sendbuf.n
  BY <1>1 DEF GrownOK, Sent
<1>3. sendbuf.n \in 1..MaxPackets BY <1>1, <1>2 DEF Text
<1>4. wire'[s][Len(wire'[s])] = sendbuf.n BY <1>1, <1>2, <1>3
<1> QED BY <1>2, <1>4

(* What is in the queue after a packet was taken was there before, behind  *)
(* its head.                                                               *)
LEMMA TailOfQueue ==
    ASSUME queue \in Seq(1..MaxPackets), queue # <<>>, queue' = Tail(queue)
    PROVE  \A i \in DOMAIN queue' :
              i \in Nat /\ i + 1 \in DOMAIN queue /\ 1 \in DOMAIN queue /\ 1 < i + 1
              /\ queue'[i] = queue[i + 1]
OBVIOUS

(* The text of the poller's call.                                          *)
LEMMA BufferOfPoller ==
    ASSUME ControlOK, pc[Poller] \in {"store", "select", "send"}
    PROVE  /\ Buffer(Poller) \in Text
           /\ Buffer(Poller).kind = "packet" =>
                 /\ job[Poller] = "packet" /\ queue # <<>> /\ 1 \in DOMAIN queue
                 /\ Buffer(Poller).n = queue[1]
<1>1. /\ job[Poller] \in Transmits /\ queue \in Seq(1..MaxPackets)
      /\ job[Poller] = "packet" => queue # <<>>
  BY DEF ControlOK, ThreadOK
<1>2. job[Poller] = "packet" => Head(queue) \in 1..MaxPackets /\ Head(queue) = queue[1]
                                /\ 1 \in DOMAIN queue
  BY <1>1
<1> QED BY <1>1, <1>2 DEF Buffer, Text, Transmits

(* A step of the poller outside of select and send: the buffers stay, and  *)
(* a packet that was to be transmitted has left the queue.                 *)
LEMMA QuietKeeps ==
    ASSUME IInv, HeardInv, AloneInv, GrownOK, UNCHANGED <<heard, buffers>>,
           queue' = queue \/ (queue # <<>> /\ queue' = Tail(queue)),
           pc[Poller] \in {"select", "send"} /\ job[Poller] = "packet" => queue' = Tail(queue),
           pc'[Poller] \notin {"select", "send"}, DialedIsNew',
           \A a \in Acker : job'[a] = job[a]
    PROVE  AloneInv' /\ Unanswered
<1>1. /\ ControlOK /\ OrderInv /\ TypeOK
      /\ queue \in Seq(1..MaxPackets) /\ wire \in [Socket -> Seq(1..MaxPackets)]
      /\ sendbuf \in Text \cup {None} /\ SentBuffer \in Text \cup {None}
      /\ heard \in [Socket -> Nat]
  BY DEF IInv, TypeOK
<1>2. \A i \in DOMAIN queue' : \E j \in DOMAIN queue : queue'[i] = queue[j]
  <2>1. CASE queue' = queue BY <2>1
  <2>2. CASE queue # <<>> /\ queue' = Tail(queue) BY <1>1, <2>2, TailOfQueue
  <2> QED BY <2>1, <2>2
<1>3. sendbuf # None /\ sendbuf.kind = "packet" => \A i \in DOMAIN queue' : sendbuf.n < queue'[i]
  <2> SUFFICES ASSUME sendbuf # None, sendbuf.kind = "packet"
               PROVE  \A i \in DOMAIN queue' : sendbuf.n < queue'[i]
    OBVIOUS
  <2>1. CASE pc[Poller] \notin {"select", "send"}
    BY <1>2, <2>1 DEF AloneInv, BufferIsPast
  <2>2. CASE pc[Poller] \in {"select", "send"}
    <3>1. sendbuf = Buffer(Poller) BY <2>2 DEF AloneInv, BufferOfCall
    <3>2. job[Poller] = "packet" /\ queue # <<>> /\ sendbuf.n = queue[1]
      BY <1>1, <2>2, <3>1, BufferOfPoller
    <3>3. queue' = Tail(queue) BY <2>2, <3>2
    <3>4. \A i \in DOMAIN queue' :
             /\ i + 1 \in DOMAIN queue /\ 1 \in DOMAIN queue /\ 1 < i + 1
             /\ queue'[i] = queue[i + 1]
      BY <1>1, <3>2, <3>3, TailOfQueue
    <3> QED BY <1>1, <3>2, <3>4 DEF OrderInv
  <2> QED BY <2>1, <2>2
<1>4. \A s \in Socket : \A k \in DOMAIN wire'[s] :
         \/ k \in DOMAIN wire[s] /\ wire'[s][k] = wire[s][k]
         \/ /\ sendbuf # None /\ sendbuf.kind = "packet"
            /\ k = Len(wire[s]) + 1 /\ wire'[s][k] = sendbuf.n
            /\ \A j \in DOMAIN wire[s] : wire[s][j] < sendbuf.n
  <2> SUFFICES ASSUME NEW s \in Socket, NEW k \in DOMAIN wire'[s]
      PROVE  \/ k \in DOMAIN wire[s] /\ wire'[s][k] = wire[s][k]
             \/ /\ sendbuf # None /\ sendbuf.kind = "packet"
                /\ k = Len(wire[s]) + 1 /\ wire'[s][k] = sendbuf.n
                /\ \A j \in DOMAIN wire[s] : wire[s][j] < sendbuf.n
    OBVIOUS
  <2>1. wire[s] \in Seq(1..MaxPackets) BY <1>1
  <2>2. CASE wire'[s] = wire[s] BY <2>2
  <2>3. CASE /\ sendbuf # None /\ sendbuf.kind = "packet"
             /\ wire'[s] = Append(wire[s], sendbuf.n)
             /\ \A j \in DOMAIN wire[s] : wire[s][j] < sendbuf.n
    BY <2>1, <2>3
  <2> QED BY <2>2, <2>3 DEF GrownOK
<1>5. AckersRest' BY DEF AloneInv, AckersRest
<1>6. BufferOfCall' /\ BufferIsPast' /\ DialedIsNew'
  BY <1>3 DEF BufferOfCall, BufferIsPast, DialedIsNew, buffers
<1>7. QueueIsNew'
  <2> SUFFICES ASSUME NEW s \in Socket, NEW k \in DOMAIN wire'[s], NEW i \in DOMAIN queue'
               PROVE  wire'[s][k] < queue'[i]
    BY DEF QueueIsNew
  <2>1. CASE k \in DOMAIN wire[s] /\ wire'[s][k] = wire[s][k]
    BY <1>2, <2>1 DEF AloneInv, QueueIsNew
  <2>2. CASE sendbuf # None /\ sendbuf.kind = "packet" /\ wire'[s][k] = sendbuf.n
    BY <1>3, <2>2
  <2> QED BY <1>4, <2>1, <2>2
<1>8. WiresGrow'
  <2> SUFFICES ASSUME NEW s \in Socket, NEW j \in DOMAIN wire'[s], NEW k \in DOMAIN wire'[s],
                      j < k
               PROVE  wire'[s][j] < wire'[s][k]
    BY DEF WiresGrow
  <2>1. wire[s] \in Seq(1..MaxPackets) BY <1>1
  <2>2. j \in DOMAIN wire[s] /\ wire'[s][j] = wire[s][j]
    <3>1. k \in DOMAIN wire[s] \/ k = Len(wire[s]) + 1 BY <1>4
    <3>2. j \in DOMAIN wire[s] \/ j = Len(wire[s]) + 1 BY <1>4
    <3>3. j # Len(wire[s]) + 1 BY <2>1, <3>1
    <3> QED BY <1>4, <3>2, <3>3
  <2>3. CASE k \in DOMAIN wire[s] /\ wire'[s][k] = wire[s][k]
    BY <2>2, <2>3 DEF AloneInv, WiresGrow
  <2>4. CASE wire'[s][k] = sendbuf.n /\ \A i \in DOMAIN wire[s] : wire[s][i] < sendbuf.n
    BY <2>2, <2>4
  <2> QED BY <1>4, <2>3, <2>4
<1>9. HeardIsPast'
  <2> SUFFICES ASSUME SentBuffer # None, SentBuffer.kind = "packet",
                      NEW s \in Socket, NEW j \in 1..heard[s]
               PROVE  wire'[s][j] # SentBuffer.n
    BY DEF HeardIsPast, buffers
  <2>1. wire[s] \in Seq(1..MaxPackets) /\ heard[s] \in Nat /\ heard[s] <= Len(wire[s])
    BY <1>1 DEF HeardInv
  <2>2. wire'[s][j] = wire[s][j]
    <3>1. CASE wire'[s] = wire[s] BY <3>1
    <3>2. CASE wire'[s] = Append(wire[s], sendbuf.n) BY <2>1, <3>2
    <3> QED BY <3>1, <3>2 DEF GrownOK
  <2> QED BY <2>2 DEF AloneInv, HeardIsPast
<1> QED BY <1>1, <1>5, <1>6, <1>7, <1>8, <1>9, GrownUnanswered DEF AloneInv

(* A step of the poller leaves the other threads where they are.           *)
LEMMA OtherJobs ==
    ASSUME ControlOK, NEW j, job' = [job EXCEPT ![Poller] = j] \/ job' = job
    PROVE  \A a \in Acker : job'[a] = job[a]
BY DEF ControlOK

(* A call of the poller that returns.                                      *)
LEMMA ReturnKeeps ==
    ASSUME IInv, HeardInv, AloneInv, GrownOK, UNCHANGED <<heard, buffers>>,
           NEW r \in {0, 1, 2, 4}, Return(Poller, r),
           pc[Poller] \notin {"rest", "drain", "drop"}
    PROVE  AloneInv' /\ Unanswered
<1>1. ControlOK BY DEF IInv
<1>2. PICK l \in {"rest", "check", "drain", "drop"} : pc' = [pc EXCEPT ![Poller] = l]
  BY <1>1, ReturnControl
<1>3. /\ queue' = queue \/ (queue # <<>> /\ queue' = Tail(queue))
      /\ job[Poller] = "packet" => queue' = Tail(queue)
  BY <1>1, ReturnControl DEF Return
<1>4. pc'[Poller] = l BY <1>1, <1>2 DEF ControlOK
<1>5. \A a \in Acker : job'[a] = job[a]
  <2>1. \E j : job' = [job EXCEPT ![Poller] = j] \/ job' = job
    BY DEF Return, Call, Rest
  <2> QED BY <1>1, <2>1, OtherJobs
<1>6. DialedIsNew' BY <1>4 DEF DialedIsNew
<1> QED BY <1>3, <1>4, <1>5, <1>6, QuietKeeps

(* A step of the poller inside a call, before the buffer is filled or      *)
(* after all was sent.                                                     *)
LEMMA InsideKeeps ==
    ASSUME IInv, HeardInv, AloneInv, GrownOK, UNCHANGED <<heard, buffers, job, queue>>,
           NEW l \in Label \ {"select", "send"}, Goto(Poller, l), DialedIsNew',
           pc[Poller] \notin {"select", "send"}
    PROVE  AloneInv' /\ Unanswered
<1>1. pc'[Poller] = l BY DEF Goto, IInv, ControlOK
<1> QED BY <1>1, QuietKeeps

(* The poller has its connection.                                          *)
LEMMA ConnectedKeeps ==
    ASSUME IInv, HeardInv, AloneInv, GrownOK, UNCHANGED <<heard, buffers>>,
           Connected(Poller), pc[Poller] \in {"check", "resend"}
    PROVE  AloneInv' /\ Unanswered
<1>1. CASE job[Poller] = "connect"
  <2>1. Return(Poller, 0) BY <1>1 DEF Connected
  <2> QED BY <2>1, ReturnKeeps
<1>2. CASE job[Poller] # "connect"
  <2>1. PICK l \in {"frame", "store"} : Goto(Poller, l)
    BY <1>2 DEF Connected
  <2>2. UNCHANGED <<job, queue>> BY <1>2 DEF Connected, source
  <2>3. l \in Label \ {"select", "send"} BY DEF Label
  <2>4. DialedIsNew' BY <2>1 DEF DialedIsNew, Goto, IInv, ControlOK
  <2> QED BY <2>1, <2>2, <2>3, <2>4, InsideKeeps
<1> QED BY <1>1, <1>2

(* What the poller sends is the packet of sendbuf.                         *)
LEMMA OnWireGrows ==
    ASSUME TypeOK, OnWire(sendbuf), sendbuf # None, mysocket \in Socket,
           sendbuf.kind = "packet" =>
               /\ \A k \in DOMAIN wire[mysocket] : wire[mysocket][k] < sendbuf.n
               /\ \A r \in Socket : \A j \in 1..heard[r] : wire[r][j] # sendbuf.n
    PROVE  GrownOK
BY DEF OnWire, GrownOK, TypeOK

(* A step that sends nothing.                                              *)
LEMMA NothingGrows ==
    ASSUME UNCHANGED wire PROVE GrownOK
BY DEF GrownOK

-----------------------------------------------------------------------------
(* The steps of the poller alone: tcp_connect.                             *)
LEMMA AloneCheck ==
    ASSUME IInv, HeardInv, AloneInv, Check(Poller) PROVE AloneInv' /\ Unanswered
<1>1. GrownOK /\ UNCHANGED <<heard, buffers>> /\ pc[Poller] = "check"
  BY NothingGrows DEF Check, history
<1>2. CASE Connected(Poller) BY <1>1, <1>2, ConnectedKeeps
<1>3. CASE Goto(Poller, "wait") /\ UNCHANGED <<job, status, source>>
  <2>1. DialedIsNew' BY <1>3 DEF DialedIsNew, Goto, IInv, ControlOK
  <2>2. "wait" \in Label \ {"select", "send"} BY DEF Label
  <2>3. UNCHANGED <<job, queue>> BY <1>3 DEF source
  <2> QED BY <1>1, <1>3, <2>1, <2>2, <2>3, InsideKeeps
<1> QED BY <1>2, <1>3 DEF Check

(* A new socket has had nothing.                                           *)
LEMMA AloneOpen ==
    ASSUME IInv, HeardInv, AloneInv, Open(Poller) PROVE AloneInv' /\ Unanswered
<1>1. UNCHANGED buffers /\ pc[Poller] = "wait" BY DEF Open
<1>2. CASE Return(Poller, 2) /\ UNCHANGED history
  BY <1>1, <1>2, NothingGrows, ReturnKeeps DEF history
<1>3. CASE /\ \E s \in Socket :
                /\ mysocket' = s
                /\ wire' = [wire EXCEPT ![s] = <<>>]
                /\ heard' = [heard EXCEPT ![s] = 0]
           /\ Goto(Poller, "dial")
           /\ UNCHANGED <<job, source>>
  <2>1. PICK s \in Socket : /\ mysocket' = s
                            /\ wire' = [wire EXCEPT ![s] = <<>>]
                            /\ heard' = [heard EXCEPT ![s] = 0]
    BY <1>3
  <2>2. /\ wire \in [Socket -> Seq(1..MaxPackets)] /\ heard \in [Socket -> Nat]
        /\ pc'[Poller] = "dial" /\ UNCHANGED <<queue, job>>
    BY <1>3 DEF IInv, TypeOK, ControlOK, Goto, source
  <2>3. \A r \in Socket : \/ wire'[r] = wire[r] /\ heard'[r] = heard[r]
                          \/ wire'[r] = <<>> /\ heard'[r] = 0
    BY <2>1, <2>2
  <2>4. wire'[mysocket'] = <<>> BY <2>1, <2>2
  <2>5. AckersRest' /\ BufferOfCall' /\ BufferIsPast' /\ DialedIsNew'
    BY <1>1, <2>2, <2>4 DEF AloneInv, AckersRest, BufferOfCall, BufferIsPast,
       DialedIsNew, buffers
  <2>6. QueueIsNew' /\ WiresGrow'
    <3>1. \A r \in Socket : \A k \in DOMAIN wire'[r] : wire'[r] = wire[r]
      BY <2>3
    <3>2. QueueIsNew' BY <2>2, <3>1 DEF AloneInv, QueueIsNew
    <3>3. WiresGrow' BY <3>1 DEF AloneInv, WiresGrow
    <3> QED BY <3>2, <3>3
  <2>7. HeardIsPast' BY <1>1, <2>3 DEF AloneInv, HeardIsPast, buffers
  <2>8. Unanswered
    <3>1. \A r \in Socket : ~Sent(r) BY <2>2, <2>3 DEF Sent
    <3> QED BY <3>1 DEF Unanswered
  <2> QED BY <2>5, <2>6, <2>7, <2>8 DEF AloneInv
<1> QED BY <1>2, <1>3 DEF Open

(* connect() leaves the new socket as it is.                               *)
LEMMA AloneDial ==
    ASSUME IInv, HeardInv, AloneInv, Dial(Poller) PROVE AloneInv' /\ Unanswered
<1>1. GrownOK /\ UNCHANGED <<heard, wire, buffers>> /\ pc[Poller] = "dial"
  BY NothingGrows DEF Dial, history
<1>2. CASE Return(Poller, 2) BY <1>1, <1>2, ReturnKeeps
<1>3. CASE Goto(Poller, "resend") /\ UNCHANGED <<mysocket, job, status, source>>
  <2>1. DialedIsNew' BY <1>1, <1>3 DEF DialedIsNew, AloneInv
  <2>2. "resend" \in Label \ {"select", "send"} BY DEF Label
  <2>3. UNCHANGED <<job, queue>> BY <1>3 DEF source
  <2> QED BY <1>1, <1>3, <2>1, <2>2, <2>3, InsideKeeps
<1> QED BY <1>2, <1>3 DEF Dial

(* What was sent before goes to a socket that has had nothing.             *)
LEMMA AloneResend ==
    ASSUME IInv, HeardInv, AloneInv, Resend(Poller) PROVE AloneInv' /\ Unanswered
<1>1. /\ UNCHANGED <<heard, buffers>> /\ pc[Poller] = "resend"
      /\ TypeOK /\ OrderInv
  BY DEF Resend, OnWire, history, IInv
<1>2. CASE UNCHANGED history /\ (Connected(Poller) \/ Return(Poller, 2))
  BY <1>1, <1>2, NothingGrows, ConnectedKeeps, ReturnKeeps DEF history
<1>3. CASE SentBuffer # None /\ Current({"up", "lost"}) /\ OnWire(SentBuffer) /\ Connected(Poller)
  <2>1. SentBuffer = sendbuf /\ mysocket \in Socket BY <1>1, <1>3 DEF OrderInv, Current
  <2>2. wire[mysocket] = <<>> BY <1>1, <2>1 DEF AloneInv, DialedIsNew
  <2>3. sendbuf.kind = "packet" =>
            \A r \in Socket : \A j \in 1..heard[r] : wire[r][j] # sendbuf.n
    BY <1>3, <2>1 DEF AloneInv, HeardIsPast
  <2>4. GrownOK BY <1>1, <1>3, <2>1, <2>2, <2>3, OnWireGrows
  <2> QED BY <1>1, <1>3, <2>4, ConnectedKeeps
<1> QED BY <1>2, <1>3 DEF Resend

-----------------------------------------------------------------------------
(* tcp_transmit_buffer: what is stored is the head of the queue, which no  *)
(* socket has had.                                                         *)
LEMMA AloneStore ==
    ASSUME IInv, HeardInv, AloneInv, Store(Poller) PROVE AloneInv' /\ Unanswered
<1>1. /\ UNCHANGED <<wire, heard, queue, job>>
      /\ pc[Poller] = "store" /\ pc'[Poller] = "select"
      /\ sendbuf' = Buffer(Poller) /\ SentBuffer' = Buffer(Poller)
  BY DEF Store, Goto, IInv, ControlOK, source, history
<1>2. Buffer(Poller).kind = "packet" =>
          1 \in DOMAIN queue /\ Buffer(Poller).n = queue[1]
  BY <1>1, BufferOfPoller DEF IInv
<1>3. \A s \in Socket : \A j \in 1..heard[s] : j \in DOMAIN wire[s] /\ wire[s][j] \in Nat
  <2>1. \A s \in Socket : wire[s] \in Seq(1..MaxPackets) /\ heard[s] \in Nat
    BY DEF IInv, TypeOK
  <2> QED BY <2>1 DEF HeardInv
<1>4. HeardIsPast'
  <2>1. queue \in Seq(1..MaxPackets) BY DEF IInv, TypeOK
  <2>2. Buffer(Poller).kind = "packet" =>
            \A s \in Socket : \A j \in 1..heard[s] : wire[s][j] # Buffer(Poller).n
    BY <1>2, <1>3, <2>1 DEF AloneInv, QueueIsNew
  <2> QED BY <1>1, <2>2 DEF HeardIsPast
<1>5. BufferOfCall' BY <1>1 DEF BufferOfCall, Buffer
<1>6. AckersRest' /\ BufferIsPast' /\ DialedIsNew' /\ QueueIsNew' /\ WiresGrow'
  BY <1>1 DEF AloneInv, AckersRest, BufferIsPast, DialedIsNew, QueueIsNew, WiresGrow
<1>7. Unanswered BY <1>1, NothingGrows, GrownUnanswered DEF IInv
<1> QED BY <1>4, <1>5, <1>6, <1>7 DEF AloneInv

(* select() changes nothing, or the call returns.                          *)
LEMMA AloneSelect ==
    ASSUME IInv, HeardInv, AloneInv, Select(Poller) PROVE AloneInv' /\ Unanswered
<1>1. GrownOK /\ UNCHANGED <<wire, heard, buffers>> /\ pc[Poller] = "select"
  BY NothingGrows DEF Select, history
<1>2. CASE \E r \in {0, 1, 2, 4} : Return(Poller, r) BY <1>1, <1>2, ReturnKeeps
<1>3. CASE Goto(Poller, "send") /\ UNCHANGED <<job, status, source>>
  <2>1. /\ UNCHANGED <<wire, heard, queue, job, SentBuffer, sendbuf>>
        /\ pc'[Poller] = "send"
    BY <1>1, <1>3 DEF Goto, IInv, ControlOK, source, buffers
  <2>2. BufferOfCall' BY <1>1, <2>1 DEF AloneInv, BufferOfCall, Buffer
  <2>3. /\ AckersRest' /\ BufferIsPast' /\ DialedIsNew' /\ QueueIsNew'
        /\ WiresGrow' /\ HeardIsPast'
    BY <2>1 DEF AloneInv, AckersRest, BufferIsPast, DialedIsNew, QueueIsNew,
       WiresGrow, HeardIsPast
  <2>4. Unanswered BY <1>1, GrownUnanswered DEF IInv
  <2> QED BY <2>2, <2>3, <2>4 DEF AloneInv
<1> QED BY <1>2, <1>3 DEF Select

(* send() gives the head of the queue to a socket that has had only older  *)
(* packets.                                                                *)
LEMMA AloneSend ==
    ASSUME IInv, HeardInv, AloneInv, Send(Poller) PROVE AloneInv' /\ Unanswered
<1>1. /\ UNCHANGED <<heard, buffers>> /\ pc[Poller] = "send"
      /\ TypeOK /\ ControlOK /\ OrderInv
  BY DEF Send, OnWire, history, IInv
<1>2. CASE UNCHANGED history /\ Return(Poller, 2)
  BY <1>1, <1>2, NothingGrows, ReturnKeeps DEF history
<1>3. CASE Current({"up", "lost"}) /\ OnWire(sendbuf) /\ Return(Poller, 0)
  <2>1. sendbuf = Buffer(Poller) /\ sendbuf # None /\ mysocket \in Socket
    BY <1>1, <1>3 DEF AloneInv, BufferOfCall, OrderInv, Current
  <2>2. sendbuf.kind = "packet" => 1 \in DOMAIN queue /\ sendbuf.n = queue[1]
    BY <1>1, <2>1, BufferOfPoller
  <2>3. sendbuf.kind = "packet" =>
            \A s \in Socket : \A k \in DOMAIN wire[s] : wire[s][k] < sendbuf.n
    BY <2>2 DEF AloneInv, QueueIsNew
  <2>4. \A s \in Socket : wire[s] \in Seq(1..MaxPackets) /\ heard[s] \in Nat
    BY <1>1 DEF TypeOK
  <2>5. \A s \in Socket : \A j \in 1..heard[s] : j \in DOMAIN wire[s] /\ wire[s][j] \in Nat
    BY <2>4 DEF HeardInv
  <2>6. sendbuf.kind = "packet" =>
            \A r \in Socket : \A j \in 1..heard[r] : wire[r][j] # sendbuf.n
    BY <2>3, <2>5
  <2>7. GrownOK BY <1>1, <1>3, <2>1, <2>3, <2>6, OnWireGrows
  <2> QED BY <1>1, <1>3, <2>7, ReturnKeeps
<1> QED BY <1>2, <1>3 DEF Send

(* tcp_receive_buffer, before it receives.                                 *)
LEMMA AloneFrame ==
    ASSUME IInv, HeardInv, AloneInv, Frame(Poller) PROVE AloneInv' /\ Unanswered
<1>1. GrownOK /\ UNCHANGED <<heard, buffers>> /\ pc[Poller] = "frame"
  BY NothingGrows DEF Frame, history
<1>2. CASE \E r \in {0, 1, 2, 4} : Return(Poller, r) BY <1>1, <1>2, ReturnKeeps
<1>3. CASE Goto(Poller, "recv") /\ UNCHANGED <<job, status, source>>
  <2>1. DialedIsNew' BY <1>3 DEF DialedIsNew, Goto, IInv, ControlOK
  <2>2. "recv" \in Label \ {"select", "send"} BY DEF Label
  <2>3. UNCHANGED <<job, queue>> BY <1>3 DEF source
  <2> QED BY <1>1, <1>3, <2>1, <2>2, <2>3, InsideKeeps
<1>4. \/ \E r \in {0, 1, 2, 4} : Return(Poller, r)
      \/ Goto(Poller, "recv") /\ UNCHANGED <<job, status, source>>
  BY DEF Frame
<1> QED BY <1>2, <1>3, <1>4

(* recv(): the text that was sent is not sent again.                       *)
LEMMA AloneRecv ==
    ASSUME IInv, HeardInv, AloneInv, Recv(Poller) PROVE AloneInv' /\ Unanswered
<1>1. GrownOK /\ UNCHANGED <<sendbuf, wire>> /\ pc[Poller] = "recv"
  BY NothingGrows DEF Recv
<1>2. CASE Return(Poller, 2) /\ UNCHANGED <<SentBuffer, heard>>
  BY <1>1, <1>2, ReturnKeeps DEF buffers
<1>3. CASE SentBuffer' = None /\ Goto(Poller, "frame") /\ UNCHANGED <<job, source>>
  <2>1. UNCHANGED <<queue, job>> /\ pc'[Poller] = "frame"
    BY <1>3 DEF Goto, IInv, ControlOK, source
  <2>2. /\ AckersRest' /\ BufferOfCall' /\ BufferIsPast' /\ DialedIsNew'
        /\ QueueIsNew' /\ WiresGrow' /\ HeardIsPast'
    BY <1>1, <1>3, <2>1 DEF AloneInv, AckersRest, BufferOfCall, BufferIsPast,
       DialedIsNew, QueueIsNew, WiresGrow, HeardIsPast
  <2>3. Unanswered BY <1>1, GrownUnanswered DEF IInv
  <2> QED BY <2>2, <2>3 DEF AloneInv
<1> QED BY <1>2, <1>3 DEF Recv

-----------------------------------------------------------------------------
(* AprsPoller between its calls.                                           *)
LEMMA AloneCaller ==
    ASSUME IInv, HeardInv, AloneInv, PollerStep PROVE AloneInv' /\ Unanswered
<1>1. /\ GrownOK /\ UNCHANGED <<heard, buffers, queue>>
      /\ pc[Poller] \in {"rest", "drain", "drop"}
      /\ \E l \in {"rest", "check"} : pc' = [pc EXCEPT ![Poller] = l]
      /\ \E j : job' = [job EXCEPT ![Poller] = j]
  BY NothingGrows DEF PollerStep, Wake, Drain, Drop, Call, Rest, Goto, history, source
<1>2. pc'[Poller] \in {"rest", "check"} BY <1>1 DEF IInv, ControlOK
<1>3. \A a \in Acker : job'[a] = job[a] BY <1>1, OtherJobs DEF IInv
<1>4. DialedIsNew' BY <1>2 DEF DialedIsNew
<1> QED BY <1>1, <1>2, <1>3, <1>4, QuietKeeps

(* A packet that is queued is newer than all before.                       *)
LEMMA AloneQueue ==
    ASSUME IInv, HeardInv, AloneInv, AprsQueueXmitPacket PROVE AloneInv' /\ Unanswered
<1>1. /\ UNCHANGED <<SentBuffer, sendbuf, wire, heard, mysocket, pc, job>>
      /\ queue' = Append(queue, queued + 1)
      /\ TypeOK /\ ControlOK /\ OrderInv
  BY DEF AprsQueueXmitPacket, shared, buffers, control, history, IInv
<1>2. queue \in Seq(1..MaxPackets) /\ queued \in Nat BY <1>1 DEF TypeOK
<1>3. \A i \in DOMAIN queue' :
         \/ i \in DOMAIN queue /\ queue'[i] = queue[i]
         \/ queue'[i] = queued + 1
  BY <1>1, <1>2
<1>4. \A s \in Socket : \A k \in DOMAIN wire[s] : wire[s][k] \in Nat /\ wire[s][k] <= queued
  <2>1. \A s \in Socket : wire[s] \in Seq(1..MaxPackets) BY <1>1 DEF TypeOK
  <2>2. \A s \in Socket : \A k \in DOMAIN wire[s] : wire[s][k] \in Nat BY <2>1
  <2> QED BY <1>1, <2>2 DEF OrderInv
<1>5. QueueIsNew'
  <2> SUFFICES ASSUME NEW s \in Socket, NEW k \in DOMAIN wire[s], NEW i \in DOMAIN queue'
               PROVE  wire[s][k] < queue'[i]
    BY <1>1 DEF QueueIsNew
  <2>1. CASE i \in DOMAIN queue /\ queue'[i] = queue[i]
    BY <2>1 DEF AloneInv, QueueIsNew
  <2>2. CASE queue'[i] = queued + 1 BY <1>2, <1>4, <2>2
  <2> QED BY <1>3, <2>1, <2>2
<1>6. BufferIsPast'
  <2> SUFFICES ASSUME pc[Poller] \notin {"select", "send"},
                      sendbuf # None, sendbuf.kind = "packet", NEW i \in DOMAIN queue'
               PROVE  sendbuf.n < queue'[i]
    BY <1>1 DEF BufferIsPast
  <2>1. sendbuf.n \in Nat /\ sendbuf.n <= queued
    BY <1>1 DEF TypeOK, Text, OrderInv
  <2>2. CASE i \in DOMAIN queue /\ queue'[i] = queue[i]
    BY <2>2 DEF AloneInv, BufferIsPast
  <2>3. CASE queue'[i] = queued + 1 BY <1>2, <2>1, <2>3
  <2> QED BY <1>3, <2>2, <2>3
<1>7. BufferOfCall'
  <2>1. job[Poller] = "packet" /\ pc[Poller] \in {"select", "send"} =>
            Head(queue') = Head(queue)
    <3> SUFFICES ASSUME queue # <<>> PROVE Head(queue') = Head(queue)
      BY <1>1 DEF ControlOK
    <3> QED BY <1>1, <1>2
  <2> QED BY <1>1, <2>1 DEF AloneInv, BufferOfCall, Buffer
<1>8. AckersRest' /\ DialedIsNew' /\ WiresGrow' /\ HeardIsPast'
  BY <1>1 DEF AloneInv, AckersRest, DialedIsNew, WiresGrow, HeardIsPast
<1>9. Unanswered BY <1>1, NothingGrows, GrownUnanswered
<1> QED BY <1>5, <1>6, <1>7, <1>8, <1>9 DEF AloneInv

(* Lose and Tick change nothing of this.                                   *)
LEMMA AloneNetwork ==
    ASSUME IInv, HeardInv, AloneInv,
           UNCHANGED <<mysocket, buffers, source, control, history>>
    PROVE  AloneInv' /\ Unanswered
<1>1. UNCHANGED <<mysocket, SentBuffer, sendbuf, queue, pc, job, wire, heard>>
  BY DEF buffers, source, control, history
<1>2. BufferOfCall' BY <1>1 DEF AloneInv, BufferOfCall, Buffer
<1>3. /\ AckersRest' /\ BufferIsPast' /\ DialedIsNew' /\ QueueIsNew'
      /\ WiresGrow' /\ HeardIsPast'
  BY <1>1 DEF AloneInv, AckersRest, BufferIsPast, DialedIsNew, QueueIsNew,
     WiresGrow, HeardIsPast
<1>4. Unanswered BY <1>1, NothingGrows, GrownUnanswered DEF IInv
<1> QED BY <1>2, <1>3, <1>4 DEF AloneInv

-----------------------------------------------------------------------------
(* A call never gives an ack back, and its history is that of a new        *)
(* socket, of a text sent or of a receive.                                 *)
LEMMA CallHistory ==
    ASSUME NEW t \in Thread, LinkStep(t)
    PROVE  /\ pc[t] # "rest" /\ UNCHANGED acks
           /\ \/ UNCHANGED history
              \/ \E s \in Socket : wire' = [wire EXCEPT ![s] = <<>>]
                                   /\ heard' = [heard EXCEPT ![s] = 0]
              \/ \E i : mysocket \in Socket /\ (i \in Text \/ i = sendbuf \/ i = SentBuffer) /\ OnWire(i)
              \/ UNCHANGED wire /\ mysocket \in Socket
                 /\ heard' = [heard EXCEPT ![mysocket] = Len(wire[mysocket])]
<1>1. CASE Check(t) BY <1>1 DEF Check, Connected, Return, source
<1>2. CASE Open(t)
  <2>1. pc[t] # "rest" /\ UNCHANGED acks BY <1>2 DEF Open, Return, source
  <2> QED BY <1>2, <2>1 DEF Open
<1>3. CASE Dial(t) BY <1>3 DEF Dial, Return, source
<1>4. CASE Resend(t)
  <2>1. pc[t] # "rest" /\ UNCHANGED acks
    BY <1>4 DEF Resend, Connected, Return, source
  <2> QED BY <1>4, <2>1 DEF Resend, Current
<1>5. CASE Store(t) BY <1>5 DEF Store, source
<1>6. CASE Select(t) BY <1>6 DEF Select, Return, source
<1>7. CASE Send(t)
  <2>1. pc[t] # "rest" /\ UNCHANGED acks BY <1>7 DEF Send, Return
  <2> QED BY <1>7, <2>1 DEF Send, Current
<1>8. CASE Frame(t)
  <2>1. pc[t] # "rest" /\ UNCHANGED history BY <1>8 DEF Frame
  <2>2. UNCHANGED acks BY <1>8 DEF Frame, Return, source
  <2> QED BY <2>1, <2>2
<1>9. CASE Recv(t)
  <2>1. pc[t] # "rest" /\ UNCHANGED acks BY <1>9 DEF Recv, Return, source
  <2>2. CASE UNCHANGED <<wire, heard>> BY <2>1, <2>2 DEF history
  <2>3. CASE /\ Current({"up"}) /\ UNCHANGED wire
             /\ heard' = [heard EXCEPT ![mysocket] = Len(wire[mysocket])]
    BY <2>1, <2>3 DEF Current
  <2> QED BY <1>9, <2>2, <2>3 DEF Recv
<1> QED BY <1>1, <1>2, <1>3, <1>4, <1>5, <1>6, <1>7, <1>8, <1>9 DEF LinkStep

(* No receive hears of more than was sent.                                 *)
LEMMA HeardKept ==
    ASSUME IInv, HeardInv, Next PROVE HeardInv'
<1>1. /\ wire \in [Socket -> Seq(1..MaxPackets)] /\ heard \in [Socket -> Nat]
      /\ \A s \in Socket : heard[s] <= Len(wire[s]) /\ Len(wire[s]) \in Nat
  BY DEF IInv, TypeOK, HeardInv
<1>2. CASE UNCHANGED history BY <1>2 DEF HeardInv, history
<1>3. CASE \E s \in Socket : wire' = [wire EXCEPT ![s] = <<>>]
                             /\ heard' = [heard EXCEPT ![s] = 0]
  <2>1. \A r \in Socket : \/ wire'[r] = wire[r] /\ heard'[r] = heard[r]
                          \/ wire'[r] = <<>> /\ heard'[r] = 0
    BY <1>1, <1>3
  <2>2. Len(<<>>) = 0 OBVIOUS
  <2> QED BY <1>1, <2>1, <2>2 DEF HeardInv
<1>4. CASE \E i : mysocket \in Socket /\ OnWire(i)
  <2>1. PICK i : mysocket \in Socket /\ OnWire(i) BY <1>4
  <2>2. \A r \in Socket : heard'[r] = heard[r]
            /\ (wire'[r] = wire[r] \/ wire'[r] = Append(wire[r], i.n))
    BY <1>1, <2>1 DEF OnWire
  <2>3. \A r \in Socket : Len(Append(wire[r], i.n)) = Len(wire[r]) + 1 BY <1>1
  <2>4. \A r \in Socket : wire'[r] = wire[r] \/ Len(wire'[r]) = Len(wire[r]) + 1
    BY <2>2, <2>3
  <2> QED BY <1>1, <2>2, <2>4 DEF HeardInv
<1>5. CASE UNCHANGED wire /\ mysocket \in Socket
           /\ heard' = [heard EXCEPT ![mysocket] = Len(wire[mysocket])]
  <2>1. \A r \in Socket : wire'[r] = wire[r]
            /\ (heard'[r] = heard[r] \/ heard'[r] = Len(wire[r]))
    BY <1>1, <1>5
  <2> QED BY <1>1, <2>1 DEF HeardInv
<1>6. CASE \E t \in Thread : LinkStep(t)
  <2>1. PICK t \in Thread : LinkStep(t) BY <1>6
  <2> QED BY <2>1, CallHistory, <1>2, <1>3, <1>4, <1>5
<1>7. CASE ~\E t \in Thread : LinkStep(t)
  <2>1. UNCHANGED history
    BY <1>7 DEF Next, PollerStep, Wake, Drain, Drop, Ack, AprsQueueXmitPacket, Lose, Tick
  <2> QED BY <2>1, <1>2
<1> QED BY <1>6, <1>7

(* While no ack was sent, the poller is alone: what it does keeps it so,   *)
(* and sends nothing that was answered.                                    *)
LEMMA AloneKept ==
    ASSUME IInv, OnceInv, Next, acks = MaxAcks, acks' = MaxAcks
    PROVE  AloneInv' /\ Unanswered
<1>1. HeardInv /\ AloneInv BY DEF OnceInv
<1>2. CASE \E t \in Thread : LinkStep(t)
  <2>1. PICK t \in Thread : LinkStep(t) BY <1>2
  <2>2. pc[t] # "rest" BY <2>1, CallHistory
  <2>3. t = Poller
    <3>1. \A a \in Acker : pc[a] = "rest"
      BY <1>1 DEF AloneInv, AckersRest, IInv, ControlOK, ThreadOK
    <3> QED BY <2>2, <3>1
  <2> QED BY <1>1, <2>1, <2>3, AloneCheck, AloneOpen, AloneDial, AloneResend,
          AloneStore, AloneSelect, AloneSend, AloneFrame, AloneRecv DEF LinkStep
<1>3. CASE PollerStep BY <1>1, <1>3, AloneCaller
<1>4. CASE \E a \in Acker : Ack(a)
  <2>1. acks' = acks - 1 BY <1>4 DEF Ack
  <2> QED BY <2>1 DEF IInv, TypeOK
<1>5. CASE AprsQueueXmitPacket BY <1>1, <1>5, AloneQueue
<1>6. CASE Tick \/ \E s \in Socket : Lose(s)
  <2>1. UNCHANGED <<mysocket, buffers, source, control, history>>
    BY <1>6 DEF Tick, Lose
  <2> QED BY <1>1, <2>1, AloneNetwork
<1> QED BY <1>2, <1>3, <1>4, <1>5, <1>6 DEF Next

(* An ack that was sent is not given back.                                 *)
LEMMA AcksFall ==
    ASSUME IInv, Next, acks' = MaxAcks PROVE acks = MaxAcks
<1>1. acks \in 0..MaxAcks BY DEF IInv, TypeOK
<1>2. CASE \E t \in Thread : LinkStep(t) BY <1>2, CallHistory
<1>3. CASE \E a \in Acker : Ack(a)
  <2>1. acks' = acks - 1 BY <1>3 DEF Ack
  <2> QED BY <1>1, <2>1
<1>4. CASE PollerStep \/ AprsQueueXmitPacket \/ Tick \/ \E s \in Socket : Lose(s)
  BY <1>4 DEF PollerStep, Wake, Drain, Drop, AprsQueueXmitPacket, Tick, Lose, source
<1> QED BY <1>2, <1>3, <1>4 DEF Next

(* The strengthened invariant holds in every state.                        *)
THEOREM OnceInvariance == Spec => []OnceInv
<1>1. Init => OnceInv
  <2> SUFFICES ASSUME Init PROVE OnceInv OBVIOUS
  <2>1. HeardInv BY DEF Init, HeardInv
  <2>2. AloneInv
    BY DEF Init, AloneInv, AckersRest, BufferOfCall, BufferIsPast, DialedIsNew,
       QueueIsNew, WiresGrow, HeardIsPast
  <2> QED BY <2>1, <2>2 DEF OnceInv
<1>2. IInv /\ OnceInv /\ [Next]_vars => OnceInv'
  <2>1. CASE UNCHANGED vars
    <3>1. UNCHANGED <<mysocket, SentBuffer, sendbuf, queue, acks, pc, job, wire, heard>>
      BY <2>1 DEF vars, shared, buffers, source, control, history
    <3>2. HeardInv' <=> HeardInv BY <3>1 DEF HeardInv
    <3>3. BufferOfCall' <=> BufferOfCall BY <3>1 DEF BufferOfCall, Buffer
    <3>4. AloneInv' <=> AloneInv
      BY <3>1, <3>3 DEF AloneInv, AckersRest, BufferIsPast, DialedIsNew, QueueIsNew,
         WiresGrow, HeardIsPast
    <3> QED BY <3>1, <3>2, <3>4 DEF OnceInv
  <2>2. ASSUME IInv, OnceInv, Next PROVE OnceInv'
    <3>1. HeardInv' BY <2>2, HeardKept DEF OnceInv
    <3> QED BY <2>2, <3>1, AcksFall, AloneKept DEF OnceInv
  <2> QED BY <2>1, <2>2
<1> QED BY <1>1, <1>2, Invariance, PTL DEF Spec

(* As long as no ack was sent no packet is sent twice on a connection:     *)
(* what a socket took grows strictly.                                      *)
THEOREM OncePerConnectionAlways == Spec => []OncePerConnection
<1>1. IInv /\ OnceInv => OncePerConnection
  <2> SUFFICES ASSUME IInv, OnceInv, acks = MaxAcks, NEW s \in Socket,
                      NEW j \in DOMAIN wire[s], NEW k \in DOMAIN wire[s],
                      wire[s][j] = wire[s][k]
               PROVE  j = k
    BY DEF OncePerConnection
  <2>1. wire[s] \in Seq(1..MaxPackets) BY DEF IInv, TypeOK
  <2>2. /\ j \in Nat /\ k \in Nat
        /\ wire[s][j] \in Nat /\ wire[s][k] \in Nat
    BY <2>1
  <2>3. ~(j < k) /\ ~(k < j) BY <2>2 DEF OnceInv, AloneInv, WiresGrow
  <2> QED BY <2>2, <2>3
<1> QED BY <1>1, Invariance, OnceInvariance, PTL

(* As long as no ack was sent no packet is sent again after something was  *)
(* received on the connection it was sent on: then SentBuffer is empty, or *)
(* holds a packet that no answered part of a wire has.                     *)
THEOREM NoneAfterAnswerAlways == Spec => NoneAfterAnswer
<1> DEFINE Answered == \A s, r \in Socket : Sent(s) /\ acks = MaxAcks =>
              \A j \in 1..heard[r] : wire[r][j] # Newest(s)'
<1>1. IInv /\ OnceInv /\ [Next]_vars => [Answered]_wire
  <2> SUFFICES ASSUME IInv, OnceInv, Next, wire' # wire, acks = MaxAcks PROVE Unanswered
    BY DEF vars, history, Unanswered
  <2>1. acks' = MaxAcks
    <3>1. CASE \E t \in Thread : LinkStep(t) BY <3>1, CallHistory
    <3>2. CASE ~\E t \in Thread : LinkStep(t)
      <4>1. UNCHANGED wire
        BY <3>2 DEF Next, PollerStep, Wake, Drain, Drop, Ack, AprsQueueXmitPacket,
           Lose, Tick, history
      <4> QED BY <4>1
    <3> QED BY <3>1, <3>2
  <2> QED BY <2>1, AloneKept
<1> QED BY <1>1, Invariance, OnceInvariance, PTL DEF Spec, NoneAfterAnswer
=============================================================================
