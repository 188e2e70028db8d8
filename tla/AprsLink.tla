------------------------------ MODULE AprsLink ------------------------------
(***************************************************************************)
(* The link to the APRS-IS server: tcputil.c, which keeps one connection   *)
(* in static variables, and its two users in aprs.c.  AprsPoller logs in,  *)
(* receives lines and transmits the packets of APRSXmitQueue; a service    *)
(* thread that parses a message for this station transmits its ack         *)
(* (myMessageCallback).  Only tcp_connect takes a lock, so every other     *)
(* test and use of the socket is a step of its own.                        *)
(*                                                                         *)
(* A line is at most as long as the buffers.  Time is the 15 seconds that  *)
(* SLOW_CONNECT puts between two attempts to connect; every wait with a    *)
(* timeout may end with it.                                                *)
(***************************************************************************)
EXTENDS Integers, Sequences, FiniteSets

CONSTANTS Poller,       \* the thread that runs AprsPoller
          Acker,        \* the threads that may run myMessageCallback
          Socket,       \* the handles socket() can return
          DISCONNECTED, \* no socket
          None,         \* no lock owner, an empty SentBuffer
          MaxPackets,   \* bound: packets ever queued
          MaxAcks,      \* bound: acks ever sent
          MaxLines      \* bound: lines the server ever sends

ASSUME ThreadAssumption == Poller \notin Acker /\ None \notin Acker \cup {Poller}
ASSUME SocketAssumption == DISCONNECTED \notin Socket
ASSUME LinkBounds == MaxPackets \in Nat /\ MaxAcks \in Nat /\ MaxLines \in Nat

Thread == {Poller} \cup Acker

(* What is transmitted.  Only packets are told apart, by their place in    *)
(* the order in which they were queued.                                    *)
Text == [kind : {"login", "filter", "ping", "ack"}, n : {0}]
            \cup [kind : {"packet"}, n : 1..MaxPackets]

ASSUME NoneIsNoText == None \notin Text

(* What recv() hands over: the head of a line, its rest with the newline,  *)
(* or a newline alone (the second character of a CR LF).                   *)
Fragment == [part : {"head", "end"}, line : 1..MaxLines]
                \cup {[part |-> "newline", line |-> 0]}

VARIABLES
    mysocket,   \* the socket of the connection
    conn,       \* state of every socket, seen from outside the program
    hmtx,       \* owner of the mutex of tcp_connect
    slow,       \* TRUE until NextConnect is reached
    SentBuffer, \* the text to send again on the next connection
    sendbuf,    \* static buffer of tcp_transmit_buffer
    recvbuf,    \* static buffer of tcp_receive_buffer, its pending part
    InBuf,      \* the line last returned to the poller
    status,     \* the poller's variable, between its value and its test
    queue,      \* APRSXmitQueue
    queued,     \* packets queued so far
    acks,       \* acks still to come
    pc,         \* where each thread is in tcputil.c
    job,        \* what it is there for
    wire,       \* per socket: the packets the network took since it opened
    heard,      \* per socket: how much of that preceded the last recv
    partial,    \* per socket: the line the server is in the middle of
    lines       \* lines the server has begun so far

shared  == <<mysocket, conn, hmtx, slow>>
buffers == <<SentBuffer, sendbuf>>
input   == <<recvbuf, InBuf, partial, lines>>
source  == <<queue, queued, acks>>
control == <<pc, job, status>>
history == <<wire, heard>>
vars    == <<shared, buffers, input, source, control, history>>

Job == {"none", "connect", "login", "filter", "packet", "ping", "receive", "ack"}
Label == {"rest", "check", "wait", "dial", "resend", "store", "select", "send",
          "frame", "recv", "drain", "drop"}

Init ==
    /\ mysocket = DISCONNECTED
    /\ conn = [s \in Socket |-> "closed"]
    /\ hmtx = None
    /\ slow = FALSE
    /\ SentBuffer = None
    /\ sendbuf = None
    /\ recvbuf = <<>>
    /\ InBuf = <<>>
    /\ status = 0
    /\ queue = <<>> /\ queued = 0 /\ acks = MaxAcks
    /\ pc = [t \in Thread |-> "rest"]
    /\ job = [t \in Thread |-> "none"]
    /\ wire = [s \in Socket |-> <<>>]
    /\ heard = [s \in Socket |-> 0]
    /\ partial = [s \in Socket |-> 0]
    /\ lines = 0

-----------------------------------------------------------------------------
(* Operators with a name of the form <Definition>_<Fault> are the          *)
(* definition with a plausible fault of the code: each shows that a        *)
(* property can fail.  No specification uses them.                         *)

Goto(t, label) == pc' = [pc EXCEPT ![t] = label]

(* A call of tcputil.c for job j; each begins with tcp_connect.            *)
Call(t, j) == Goto(t, "check") /\ job' = [job EXCEPT ![t] = j]

(* Back to rest: the poller's sleep, the end of the callback.              *)
Rest(t) == Goto(t, "rest") /\ job' = [job EXCEPT ![t] = "none"]

Return_KeepsFailed(t, r) ==
    LET next == CASE job[t] = "connect" -> "login"
                  [] job[t] = "login"   -> "filter"
                  [] OTHER              -> "receive"
        toDrain == \/ job[t] = "packet"
                   \/ job[t] = "receive" /\ r \in {0, 1}
    IN  /\ IF toDrain THEN Goto(t, "drain") /\ UNCHANGED job
           ELSE IF job[t] \in {"connect", "login", "filter", "ping"} /\ r = 0
                THEN Call(t, next)
           ELSE IF job[t] \in {"login", "filter", "ping"}
                THEN Goto(t, "drop") /\ UNCHANGED job
           ELSE Rest(t)
        /\ queue' = IF job[t] = "packet" /\ r = 0 THEN Tail(queue) ELSE queue
        /\ status' = IF toDrain THEN r ELSE status
        /\ UNCHANGED <<queued, acks>>

(* The caller gets result r.  The poller logs in, then receives; between   *)
(* two receives it drains the queue, and the packet it took is gone        *)
(* whatever r is; what it cannot transmit otherwise makes it disconnect.   *)
Return(t, r) ==
    LET next == CASE job[t] = "connect" -> "login"
                  [] job[t] = "login"   -> "filter"
                  [] OTHER              -> "receive"
        toDrain == \/ job[t] = "packet"
                   \/ job[t] = "receive" /\ r \in {0, 1}
    IN  /\ IF toDrain THEN Goto(t, "drain") /\ UNCHANGED job
           ELSE IF job[t] \in {"connect", "login", "filter", "ping"} /\ r = 0
                THEN Call(t, next)
           ELSE IF job[t] \in {"login", "filter", "ping"}
                THEN Goto(t, "drop") /\ UNCHANGED job
           ELSE Rest(t)
        /\ queue' = IF job[t] = "packet" THEN Tail(queue) ELSE queue
        /\ status' = IF toDrain THEN r ELSE status
        /\ UNCHANGED <<queued, acks>>

tcp_disconnect_Zero ==
    /\ mysocket' = None
    /\ conn' = IF mysocket = DISCONNECTED THEN conn
               ELSE [conn EXCEPT ![mysocket] = "closed"]

(* soclose(mysocket); mysocket = DISCONNECTED.                             *)
tcp_disconnect ==
    /\ mysocket' = DISCONNECTED
    /\ conn' = IF mysocket = DISCONNECTED THEN conn
               ELSE [conn EXCEPT ![mysocket] = "closed"]

Current(states) == mysocket \in {s \in Socket : conn[s] \in states}

(* TCP accepts text i on the current connection.                           *)
OnWire(i) ==
    /\ wire' = IF i.kind # "packet" THEN wire
               ELSE [wire EXCEPT ![mysocket] = Append(@, i.n)]
    /\ UNCHANGED heard

-----------------------------------------------------------------------------
(* tcp_connect.                                                            *)

Connected(t) ==
    IF job[t] = "connect" THEN Return(t, 0)
    ELSE /\ Goto(t, IF job[t] = "receive" THEN "frame" ELSE "store")
         /\ UNCHANGED <<job, status, source>>

(* The test for a connection that exists, made without the mutex.          *)
Check(t) ==
    /\ pc[t] = "check"
    /\ IF mysocket # DISCONNECTED THEN Connected(t)
       ELSE Goto(t, "wait") /\ UNCHANGED <<job, status, source>>
    /\ UNCHANGED <<shared, buffers, input, history>>

Open_TakesTimeout(t) ==
    /\ pc[t] = "wait"
    /\ \/ /\ slow
          /\ Return(t, 2)
          /\ UNCHANGED <<shared, history, partial>>
       \/ /\ ~slow /\ slow' = TRUE
          /\ Return(t, 2)
          /\ mysocket' \in {mysocket, DISCONNECTED}
          /\ UNCHANGED <<conn, hmtx, history, partial>>
       \/ /\ ~slow /\ slow' = TRUE
          /\ \E s \in Socket :
                /\ conn[s] = "closed"
                /\ mysocket' = s
                /\ conn' = [conn EXCEPT ![s] = "made"]
                /\ wire' = [wire EXCEPT ![s] = <<>>]
                /\ heard' = [heard EXCEPT ![s] = 0]
                /\ partial' = [partial EXCEPT ![s] = 0]
          /\ hmtx' = t
          /\ Goto(t, "dial")
          /\ UNCHANGED <<job, status, source>>
    /\ UNCHANGED <<buffers, recvbuf, InBuf, lines>>

(* The mutex is taken (its owner would get it again).  Within 15 seconds   *)
(* of the last attempt, when the host cannot be resolved or when socket()  *)
(* fails, the call fails; else there is a new socket, whatever mysocket    *)
(* holds by now.                                                           *)
Open(t) ==
    /\ pc[t] = "wait" /\ hmtx \in {None, t}
    /\ \/ /\ slow
          /\ Return(t, 2)
          /\ UNCHANGED <<shared, history, partial>>
       \/ /\ ~slow /\ slow' = TRUE
          /\ Return(t, 2)
          /\ mysocket' \in {mysocket, DISCONNECTED}
          /\ UNCHANGED <<conn, hmtx, history, partial>>
       \/ /\ ~slow /\ slow' = TRUE
          /\ \E s \in Socket :
                /\ conn[s] = "closed"
                /\ mysocket' = s
                /\ conn' = [conn EXCEPT ![s] = "made"]
                /\ wire' = [wire EXCEPT ![s] = <<>>]
                /\ heard' = [heard EXCEPT ![s] = 0]
                /\ partial' = [partial EXCEPT ![s] = 0]
          /\ hmtx' = t
          /\ Goto(t, "dial")
          /\ UNCHANGED <<job, status, source>>
    /\ UNCHANGED <<buffers, recvbuf, InBuf, lines>>

(* connect(), which may take longer than the 15 seconds.                   *)
Dial(t) ==
    /\ pc[t] = "dial"
    /\ \/ /\ Current({"made"})
          /\ conn' = [conn EXCEPT ![mysocket] = "up"]
          /\ Goto(t, "resend")
          /\ UNCHANGED <<mysocket, hmtx, slow, job, status, source>>
       \/ /\ tcp_disconnect
          /\ hmtx' = None
          /\ UNCHANGED slow
          /\ Return(t, 2)
    /\ UNCHANGED <<buffers, input, history>>

(* What was sent before the connection was lost is sent again.             *)
Resend(t) ==
    /\ pc[t] = "resend"
    /\ hmtx' = None
    /\ \/ /\ SentBuffer = None
          /\ Connected(t)
          /\ UNCHANGED <<mysocket, conn, slow, history>>
       \/ /\ SentBuffer # None
          /\ Current({"up", "lost"})
          /\ OnWire(SentBuffer)
          /\ Connected(t)
          /\ UNCHANGED <<mysocket, conn, slow>>
       \/ /\ SentBuffer # None
          /\ ~Current({"up"})
          /\ tcp_disconnect
          /\ Return(t, 2)
          /\ UNCHANGED <<slow, history>>
    /\ UNCHANGED <<buffers, input>>

-----------------------------------------------------------------------------
(* tcp_transmit_buffer.                                                    *)

Buffer(t) == IF job[t] = "packet" THEN [kind |-> "packet", n |-> Head(queue)]
             ELSE [kind |-> job[t], n |-> 0]

Store_KeepsFirst(t) ==
    /\ pc[t] = "store"
    /\ sendbuf' = Buffer(t)
    /\ SentBuffer' = IF SentBuffer = None THEN Buffer(t) ELSE SentBuffer
    /\ Goto(t, "select")
    /\ UNCHANGED <<shared, input, source, job, status, history>>

(* The text goes to the static sendbuf, and a copy to SentBuffer.          *)
Store(t) ==
    /\ pc[t] = "store"
    /\ sendbuf' = Buffer(t)
    /\ SentBuffer' = Buffer(t)
    /\ Goto(t, "select")
    /\ UNCHANGED <<shared, input, source, job, status, history>>

(* select() for writing: an error on no socket, or a timeout.              *)
Select(t) ==
    /\ pc[t] = "select"
    /\ \/ mysocket = DISCONNECTED /\ Return(t, 4)
       \/ mysocket # DISCONNECTED /\ Return(t, 1)
       \/ /\ Current({"up", "lost"})
          /\ Goto(t, "send") /\ UNCHANGED <<job, status, source>>
    /\ UNCHANGED <<shared, buffers, input, history>>

(* send() of sendbuf as it is now, on mysocket as it is now.               *)
Send(t) ==
    /\ pc[t] = "send"
    /\ \/ /\ Current({"up", "lost"})
          /\ OnWire(sendbuf)
          /\ Return(t, 0)
          /\ UNCHANGED shared
       \/ /\ ~Current({"up"})
          /\ tcp_disconnect
          /\ Return(t, 2)
          /\ UNCHANGED <<hmtx, slow, history>>
    /\ UNCHANGED <<buffers, input>>

-----------------------------------------------------------------------------
(* tcp_receive_buffer, called by the poller only.                          *)

Ends(f) == f.part \in {"end", "newline"}

(* A line that is complete in recvbuf is returned.  If none is, select()   *)
(* waits for more.                                                         *)
Frame(t) ==
    /\ pc[t] = "frame"
    /\ IF \E k \in DOMAIN recvbuf : Ends(recvbuf[k])
       THEN \E k \in DOMAIN recvbuf :
               /\ Ends(recvbuf[k]) /\ \A j \in 1..(k - 1) : ~Ends(recvbuf[j])
               /\ InBuf' = SubSeq(recvbuf, 1, k)
               /\ recvbuf' = SubSeq(recvbuf, k + 1, Len(recvbuf))
               /\ Return(t, 0)
       ELSE /\ \/ mysocket = DISCONNECTED /\ Return(t, 4)
               \/ mysocket # DISCONNECTED /\ Return(t, 1)
               \/ /\ Current({"up", "lost"})
                  /\ Goto(t, "recv") /\ UNCHANGED <<job, status, source>>
            /\ UNCHANGED <<InBuf, recvbuf>>
    /\ UNCHANGED <<shared, buffers, partial, lines, history>>

(* The next piece of the server's stream on socket s: up to two fragments. *)
Piece(s) ==
    LET end == [part |-> "end", line |-> partial[s]]
        head == [part |-> "head", line |-> lines + 1]
        tail == [part |-> "end", line |-> lines + 1]
        newline == [part |-> "newline", line |-> 0]
    IN  {p \in IF partial[s] # 0 THEN {<<end>>, <<end, head>>}
                ELSE {<<newline>>, <<head>>, <<head, tail>>} :
            p[Len(p)].line <= MaxLines}

Recv_KeepsSent(t) ==
    /\ pc[t] = "recv"
    /\ \/ /\ Current({"up"})
          /\ \E p \in Piece(mysocket) :
                LET f == p[Len(p)]
                IN  /\ recvbuf' = recvbuf \o p
                    /\ partial' = [partial EXCEPT ![mysocket] =
                                      IF f.part = "head" THEN f.line ELSE 0]
                    /\ lines' = IF f.line > lines THEN f.line ELSE lines
          /\ UNCHANGED SentBuffer
          /\ heard' = [heard EXCEPT ![mysocket] = Len(wire[mysocket])]
          /\ Goto(t, "frame")
          /\ UNCHANGED <<shared, job, status, source>>
       \/ /\ ~Current({"up"})
          /\ tcp_disconnect
          /\ Return(t, 2)
          /\ UNCHANGED <<hmtx, slow, recvbuf, partial, lines, SentBuffer, heard>>
    /\ UNCHANGED <<sendbuf, InBuf, wire>>

(* recv().  Whatever arrives, the last text sent counts as delivered.      *)
Recv(t) ==
    /\ pc[t] = "recv"
    /\ \/ /\ Current({"up"})
          /\ \E p \in Piece(mysocket) :
                LET f == p[Len(p)]
                IN  /\ recvbuf' = recvbuf \o p
                    /\ partial' = [partial EXCEPT ![mysocket] =
                                      IF f.part = "head" THEN f.line ELSE 0]
                    /\ lines' = IF f.line > lines THEN f.line ELSE lines
          /\ SentBuffer' = None
          /\ heard' = [heard EXCEPT ![mysocket] = Len(wire[mysocket])]
          /\ Goto(t, "frame")
          /\ UNCHANGED <<shared, job, status, source>>
       \/ /\ ~Current({"up"})
          /\ tcp_disconnect
          /\ Return(t, 2)
          /\ UNCHANGED <<hmtx, slow, recvbuf, partial, lines, SentBuffer, heard>>
    /\ UNCHANGED <<sendbuf, InBuf, wire>>

-----------------------------------------------------------------------------
(* The callers.                                                            *)

(* AprsPoller: the sleep of 30 seconds is over.                            *)
Wake ==
    /\ pc[Poller] = "rest"
    /\ Call(Poller, "connect")
    /\ UNCHANGED <<shared, buffers, input, source, status, history>>

(* AprsPoller, after a receive and after every packet: the next packet of  *)
(* the queue, a ping if there was an error or a timeout, or else the line  *)
(* is logged and the next one received.  Each gives status a new value.    *)
Drain ==
    /\ pc[Poller] = "drain"
    /\ Call(Poller, IF queue # <<>> THEN "packet"
                    ELSE IF status # 0 THEN "ping" ELSE "receive")
    /\ status' = 0
    /\ UNCHANGED <<shared, buffers, input, source, history>>

(* AprsPoller gives the connection up and sleeps.                          *)
Drop ==
    /\ pc[Poller] = "drop"
    /\ tcp_disconnect
    /\ Rest(Poller)
    /\ UNCHANGED <<hmtx, slow, buffers, input, source, status, history>>

(* myMessageCallback, for a message that asks for an ack.                  *)
Ack(a) ==
    /\ pc[a] = "rest" /\ acks > 0
    /\ acks' = acks - 1
    /\ Call(a, "ack")
    /\ UNCHANGED <<shared, buffers, input, queue, queued, status, history>>

(* Any thread queues a packet.                                             *)
AprsQueueXmitPacket ==
    /\ queued < MaxPackets
    /\ queued' = queued + 1
    /\ queue' = Append(queue, queued + 1)
    /\ UNCHANGED <<shared, buffers, input, acks, control, history>>

LinkStep(t) ==
    \/ Check(t) \/ Open(t) \/ Dial(t) \/ Resend(t)
    \/ Store(t) \/ Select(t) \/ Send(t) \/ Frame(t) \/ Recv(t)

PollerStep == Wake \/ Drain \/ Drop

(* The network: a connection is lost.                                      *)
Lose(s) ==
    /\ conn[s] = "up"
    /\ conn' = [conn EXCEPT ![s] = "lost"]
    /\ UNCHANGED <<mysocket, hmtx, slow, buffers, input, source, control,
                   history>>

(* The 15 seconds are over.                                                *)
Tick ==
    /\ slow /\ slow' = FALSE
    /\ UNCHANGED <<mysocket, conn, hmtx, buffers, input, source, control,
                   history>>

Next ==
    \/ \E t \in Thread : LinkStep(t)
    \/ PollerStep
    \/ \E a \in Acker : Ack(a)
    \/ AprsQueueXmitPacket
    \/ \E s \in Socket : Lose(s)
    \/ Tick

Spec == Init /\ [][Next]_vars

(* Every call of the sockets library ends by itself or by its timeout, and *)
(* a mutex queues its waiters.  Nothing is assumed of the network.         *)
Fairness ==
    /\ WF_vars(PollerStep)
    /\ \A t \in Thread : SF_vars(LinkStep(t))

FairSpec == Spec /\ Fairness

-----------------------------------------------------------------------------
(* Properties.                                                             *)

TypeOK ==
    /\ mysocket \in Socket \cup {DISCONNECTED}
    /\ conn \in [Socket -> {"closed", "made", "up", "lost"}]
    /\ hmtx \in Thread \cup {None}
    /\ slow \in BOOLEAN
    /\ SentBuffer \in Text \cup {None}
    /\ sendbuf \in Text \cup {None}
    /\ recvbuf \in Seq(Fragment)
    /\ InBuf \in Seq(Fragment)
    /\ status \in {0, 1, 2, 4}
    /\ queue \in Seq(1..MaxPackets)
    /\ queued \in 0..MaxPackets
    /\ acks \in 0..MaxAcks
    /\ pc \in [Thread -> Label]
    /\ job \in [Thread -> Job]
    /\ wire \in [Socket -> Seq(1..MaxPackets)]
    /\ heard \in [Socket -> Nat]
    /\ partial \in [Socket -> 0..MaxLines]
    /\ lines \in 0..MaxLines

(* The socket that is being connected is mysocket, and the thread that     *)
(* connects it owns the mutex: although any thread may disconnect at any   *)
(* moment, no two threads dial at a time and none dials a socket that is   *)
(* not the current one.                                                    *)
OneDialer ==
    /\ \A s \in Socket : conn[s] = "made" =>
          mysocket = s /\ \E t \in Thread : hmtx = t /\ pc[t] = "dial"
    /\ \A t \in Thread : pc[t] \in {"dial", "resend"} <=> hmtx = t

(* Packets leave in the order in which they were queued: what goes on a    *)
(* wire, be it sent again after a reconnect or sent from the buffer that   *)
(* two threads share, is never older than a packet sent before.            *)
Sent(s) == Len(wire'[s]) > Len(wire[s])
Newest(s) == wire[s][Len(wire[s])]

QueueOrder ==
    [][\A s, r \in Socket : Sent(s) =>
          \A j \in DOMAIN wire[r] : wire[r][j] <= Newest(s)']_wire

(* As long as no ack was sent, that is for the poller alone, no packet is  *)
(* sent twice on a connection ...                                          *)
OncePerConnection ==
    acks = MaxAcks => \A s \in Socket : \A j, k \in DOMAIN wire[s] :
        wire[s][j] = wire[s][k] => j = k

(* ... and none is sent again after something was received on the          *)
(* connection it was sent on.                                              *)
NoneAfterAnswer ==
    [][\A s, r \in Socket : Sent(s) /\ acks = MaxAcks =>
          \A j \in 1..heard[r] : wire[r][j] # Newest(s)']_wire

(* Every call returns: the poller comes back to rest or to its receive, an *)
(* ack to its service, whatever the network does.                          *)
CallsReturn ==
    \A t \in Thread : []<>(pc[t] = "rest" \/ job[t] = "receive")

(* "Establishes a connection [...] if a connection does not already exist" *)
(* (tcp_connect).                                                          *)
OneConnection ==
    Cardinality({s \in Socket : conn[s] # "closed"}) <= 1

(* "A packet is defined as being delimited with newlines" that the host    *)
(* appends (tcp_receive_buffer).                                           *)
WholeLines ==
    Len(InBuf) > 1 => InBuf[1].part = "head" /\ InBuf[1].line = InBuf[2].line
=============================================================================
