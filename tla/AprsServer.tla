------------------------------ MODULE AprsServer ------------------------------
(***************************************************************************)
(* The APRS-IS port of the server (server.c): a table cs of client slots   *)
(* that no lock protects.  AprsServerListen accepts a client into a free   *)
(* slot and starts a thread that reads from it (RfbDedicatedReader).       *)
(* UDPListener, one thread, sends every packet it got to the clients of    *)
(* all slots (AprsForwardPacket).  Any of them disconnects a slot when a   *)
(* call on its socket fails.  What clients send is ignored.                *)
(*                                                                         *)
(* Winsock may give the handle of a closed socket to the next connection.  *)
(* A thread blocked in a call on a socket that is closed gets an error.    *)
(***************************************************************************)
EXTENDS Integers, Sequences

CONSTANTS MAX_CLIENT,   \* number of slots
          Socket,       \* the handles accept() can return
          NoSocket,     \* 0, the socket of a free slot
          Reader,       \* bound: the threads that run RfbDedicatedReader
          UDPListener,  \* the thread that forwards packets
          MaxPackets    \* bound: packets forwarded

ASSUME ServerBounds == MAX_CLIENT \in Nat \ {0} /\ MaxPackets \in Nat
ASSUME NoSocketAssumption == NoSocket \notin Socket
ASSUME UDPListenerAssumption == UDPListener \notin Reader

Slot == 1..MAX_CLIENT
Thread == Reader \cup {UDPListener}

VARIABLES
    cs,      \* cs[c].s: the socket in every slot
    p,       \* cs[c].p: the name of the partner
    conn,    \* state of every socket, seen from outside the program
    got,     \* per socket: what the client was sent since it connected
    lpc,     \* AprsServerListen: where it is
    lslot,   \* AprsServerListen: c
    ls,      \* AprsServerListen: s
    pc,      \* reader, UDPListener: where it is
    slot,    \* reader, UDPListener: c
    sock,    \* reader, UDPListener: the socket of its call, or s of Disconnect
    sent,    \* number of the packet being forwarded, or forwarded last
    due,     \* history: connections that were in a slot when that packet came
             \* and since then were not left by the client nor disconnected
    cutOff,  \* history: those of due that have lost their slot to the
             \* Disconnect of another connection
    stray,   \* history: TRUE once a handle was reused that is still to be closed
    running  \* FALSE once the process has ended

table    == <<cs, p>>
network  == <<conn, got, stray>>
listener == <<lpc, lslot, ls>>
threads  == <<pc, slot, sock>>
packets  == <<sent, due, cutOff>>
vars     == <<table, network, listener, threads, packets, running>>

(* "gone": the client has left, the program has yet to close the socket.   *)
ConnState == {"closed", "open", "gone"}
ListenerPc == {"select", "scan", "accept", "greeting", "logresp", "publish",
               "free", "name"}
ThreadPc == {"idle", "test", "call", "recv", "send", "failed", "take", "zero",
             "close"}

Init ==
    /\ cs = [c \in Slot |-> NoSocket]
    /\ p = [c \in Slot |-> "null"]
    /\ conn = [s \in Socket |-> "closed"]
    /\ got = [s \in Socket |-> <<>>]
    /\ lpc = "select" /\ lslot = 1 /\ ls = NoSocket
    /\ pc = [t \in Thread |-> "idle"]
    /\ slot = [t \in Thread |-> 1]
    /\ sock = [t \in Thread |-> NoSocket]
    /\ sent = 0 /\ due = {} /\ cutOff = {}
    /\ stray = FALSE
    /\ running = TRUE

-----------------------------------------------------------------------------
(* Operators with a name of the form <Definition>_<Fault> are the          *)
(* definition with a plausible fault of the code: each shows that a        *)
(* property can fail.  No specification uses them.                         *)

Goto(t, label) == pc' = [pc EXCEPT ![t] = label]

(* KILLPROC, or a read through NULL.                                       *)
Die == running' = FALSE

(* AprsForwardPacket goes to its next slot, a reader to its loop's test.   *)
Continue(t) ==
    /\ slot' = IF t = UDPListener THEN [slot EXCEPT ![t] = @ + 1] ELSE slot
    /\ sock' = [sock EXCEPT ![t] = NoSocket]

-----------------------------------------------------------------------------
(* AprsServerListen.                                                       *)

(* select().  A failure ends the process.                                  *)
Select ==
    /\ running /\ lpc = "select"
    /\ \/ Die /\ UNCHANGED lpc
       \/ lpc' = "scan" /\ UNCHANGED running
    /\ UNCHANGED <<table, network, lslot, ls, threads, packets>>

Scan_TakesLast ==
    /\ running /\ lpc = "scan"
    /\ \/ /\ lslot < MAX_CLIENT /\ cs[lslot] # NoSocket
          /\ lslot' = lslot + 1 /\ UNCHANGED lpc
       \/ /\ lslot = MAX_CLIENT \/ cs[lslot] = NoSocket
          /\ lpc' = "accept" /\ UNCHANGED lslot
    /\ UNCHANGED <<table, network, ls, threads, packets, running>>

(* The first free slot; if there is none the client is accepted and closed *)
(* at once.                                                                *)
Scan ==
    /\ running /\ lpc = "scan"
    /\ \/ /\ lslot > MAX_CLIENT
          /\ lpc' = "select" /\ lslot' = 1
       \/ /\ lslot \in Slot /\ cs[lslot] # NoSocket
          /\ lslot' = lslot + 1 /\ UNCHANGED lpc
       \/ /\ lslot \in Slot /\ cs[lslot] = NoSocket
          /\ lpc' = "accept" /\ UNCHANGED lslot
    /\ UNCHANGED <<table, network, ls, threads, packets, running>>

Accept_IntoSlot ==
    /\ running /\ lpc = "accept" /\ \E r \in Reader : pc[r] = "idle"
    /\ \/ Die /\ UNCHANGED <<table, network, listener>>
       \/ \E s \in Socket :
             /\ conn[s] = "closed"
             /\ conn' = [conn EXCEPT ![s] = "open"]
             /\ stray' = (stray \/ \E t \in Thread :
                                      pc[t] \in {"zero", "close"} /\ sock[t] = s)
             /\ ls' = s /\ lpc' = "greeting"
             /\ cs' = [cs EXCEPT ![lslot] = s]
             /\ UNCHANGED <<got, p, lslot, running>>
    /\ UNCHANGED <<threads, packets>>

(* accept().  A failure ends the process.                                  *)
Accept ==
    /\ running /\ lpc = "accept" /\ \E r \in Reader : pc[r] = "idle"
    /\ \/ Die /\ UNCHANGED <<network, listener>>
       \/ \E s \in Socket :
             /\ conn[s] = "closed"
             /\ conn' = [conn EXCEPT ![s] = "open"]
             /\ stray' = (stray \/ \E t \in Thread :
                                      pc[t] \in {"zero", "close"} /\ sock[t] = s)
             /\ ls' = s /\ lpc' = "greeting"
             /\ UNCHANGED <<got, lslot, running>>
    /\ UNCHANGED <<table, threads, packets>>

(* The greeting, then the login response; failures are only logged.        *)
Greet ==
    /\ running /\ lpc \in {"greeting", "logresp"}
    /\ got' = IF conn[ls] = "open" THEN [got EXCEPT ![ls] = Append(@, 0)]
              ELSE got
    /\ lpc' = IF lpc = "greeting" THEN "logresp" ELSE "publish"
    /\ UNCHANGED <<table, conn, stray, lslot, ls, threads, packets, running>>

(* The slot is in use as soon as its socket is there.                      *)
Publish ==
    /\ running /\ lpc = "publish"
    /\ cs' = [cs EXCEPT ![lslot] = ls]
    /\ lpc' = "free"
    /\ UNCHANGED <<p, network, lslot, ls, threads, packets, running>>

FreeName ==
    /\ running /\ lpc = "free"
    /\ p' = [p EXCEPT ![lslot] = IF @ = "null" THEN "null" ELSE "freed"]
    /\ lpc' = "name"
    /\ UNCHANGED <<cs, network, lslot, ls, threads, packets, running>>

(* The partner's name is set, and a thread to read from the slot starts.   *)
StartReader ==
    /\ running /\ lpc = "name"
    /\ p' = [p EXCEPT ![lslot] = "set"]
    /\ lpc' = "select" /\ lslot' = 1 /\ ls' = NoSocket
    /\ \E r \in Reader :
          /\ pc[r] = "idle"
          /\ Goto(r, "test")
          /\ slot' = [slot EXCEPT ![r] = lslot]
    /\ UNCHANGED <<cs, network, sock, packets, running>>

ListenerStep ==
    Select \/ Scan \/ Accept \/ Greet \/ Publish \/ FreeName \/ StartReader

-----------------------------------------------------------------------------
(* RfbDedicatedReader and AprsForwardPacket.                               *)

(* UDPListener has a packet to forward.                                    *)
AprsForwardPacket ==
    /\ running /\ pc[UDPListener] = "idle" /\ sent < MaxPackets
    /\ sent' = sent + 1
    /\ due' = {s \in Socket : conn[s] = "open" /\ \E c \in Slot : cs[c] = s}
    /\ cutOff' = {}
    /\ Goto(UDPListener, "test")
    /\ UNCHANGED <<table, network, listener, slot, sock, running>>

ForwardTest_Break ==
    /\ running /\ pc[UDPListener] = "test"
    /\ LET c == slot[UDPListener]
       IN  \/ /\ c > MAX_CLIENT
              /\ slot' = [slot EXCEPT ![UDPListener] = 1] /\ Goto(UDPListener, "idle")
           \/ /\ c \in Slot /\ cs[c] = NoSocket
              /\ slot' = [slot EXCEPT ![UDPListener] = 1] /\ Goto(UDPListener, "idle")
           \/ /\ c \in Slot /\ cs[c] # NoSocket
              /\ Goto(UDPListener, "call") /\ UNCHANGED slot
    /\ UNCHANGED <<table, network, listener, sock, packets, running>>

ForwardTest_OneMore ==
    /\ running /\ pc[UDPListener] = "test"
    /\ LET c == slot[UDPListener]
       IN  \/ /\ c > MAX_CLIENT + 1
              /\ slot' = [slot EXCEPT ![UDPListener] = 1] /\ Goto(UDPListener, "idle")
           \/ /\ (c \in Slot => cs[c] = NoSocket) /\ c <= MAX_CLIENT + 1
              /\ slot' = [slot EXCEPT ![UDPListener] = c + 1] /\ UNCHANGED pc
           \/ /\ c \in Slot /\ cs[c] # NoSocket
              /\ Goto(UDPListener, "call") /\ UNCHANGED slot
    /\ UNCHANGED <<table, network, listener, sock, packets, running>>

(* "if (cs[c].s)" for one slot after the other.                            *)
ForwardTest ==
    /\ running /\ pc[UDPListener] = "test"
    /\ LET c == slot[UDPListener]
       IN  \/ /\ c > MAX_CLIENT
              /\ slot' = [slot EXCEPT ![UDPListener] = 1] /\ Goto(UDPListener, "idle")
           \/ /\ c \in Slot /\ cs[c] = NoSocket
              /\ slot' = [slot EXCEPT ![UDPListener] = c + 1] /\ UNCHANGED pc
           \/ /\ c \in Slot /\ cs[c] # NoSocket
              /\ Goto(UDPListener, "call") /\ UNCHANGED slot
    /\ UNCHANGED <<table, network, listener, sock, packets, running>>

(* "while (cs[c].s)".                                                      *)
ReadTest(r) ==
    /\ running /\ pc[r] = "test"
    /\ \/ /\ cs[slot[r]] = NoSocket
          /\ Goto(r, "idle") /\ slot' = [slot EXCEPT ![r] = 1]
       \/ /\ cs[slot[r]] # NoSocket
          /\ Goto(r, "call") /\ UNCHANGED slot
    /\ UNCHANGED <<table, network, listener, sock, packets, running>>

(* recv() or send() is called, on the socket the slot has by now.          *)
CallSocket(t) ==
    /\ running /\ pc[t] = "call"
    /\ sock' = [sock EXCEPT ![t] = cs[slot[t]]]
    /\ Goto(t, IF cs[slot[t]] \notin {s \in Socket : conn[s] # "closed"}
               THEN "failed" ELSE IF t = UDPListener THEN "send" ELSE "recv")
    /\ UNCHANGED <<table, network, listener, slot, packets, running>>

Recv_ZeroIsData(r) ==
    /\ running /\ pc[r] = "recv"
    /\ Goto(r, "test")
    /\ sock' = [sock EXCEPT ![r] = NoSocket]
    /\ UNCHANGED <<table, network, listener, slot, packets, running>>

(* ProcessRead: what the client sent is ignored; nothing more will come    *)
(* from one that is gone.                                                  *)
Recv(r) ==
    /\ running /\ pc[r] = "recv"
    /\ Goto(r, IF conn[sock[r]] = "gone" THEN "failed" ELSE "test")
    /\ sock' = [sock EXCEPT ![r] = NoSocket]
    /\ UNCHANGED <<table, network, listener, slot, packets, running>>

(* The client gets the packet.  What is sent to one that is gone may be    *)
(* accepted for a while.                                                   *)
Send ==
    LET s == sock[UDPListener]
    IN  /\ running /\ pc[UDPListener] = "send"
        /\ \/ /\ conn[s] = "open"
              /\ got' = [got EXCEPT ![s] = Append(@, sent)]
              /\ Goto(UDPListener, "test") /\ Continue(UDPListener)
           \/ /\ conn[s] = "gone"
              /\ Goto(UDPListener, "test") /\ Continue(UDPListener)
              /\ UNCHANGED got
           \/ /\ conn[s] = "gone"
              /\ Goto(UDPListener, "failed")
              /\ sock' = [sock EXCEPT ![UDPListener] = NoSocket]
              /\ UNCHANGED <<slot, got>>
        /\ UNCHANGED <<table, conn, stray, listener, packets, running>>

-----------------------------------------------------------------------------
(* Disconnect.                                                             *)

(* strdup(cs[c].p): NULL ends the process, freed memory may.               *)
ReadName(t) ==
    /\ running /\ pc[t] = "failed"
    /\ \/ p[slot[t]] # "set" /\ Die /\ UNCHANGED pc
       \/ p[slot[t]] # "null" /\ Goto(t, "take") /\ UNCHANGED running
    /\ UNCHANGED <<table, network, listener, slot, sock, packets>>

TakeSocket(t) ==
    /\ running /\ pc[t] = "take"
    /\ sock' = [sock EXCEPT ![t] = cs[slot[t]]]
    /\ Goto(t, "zero")
    /\ UNCHANGED <<table, network, listener, slot, packets, running>>

(* The slot is freed whatever socket is in it by now.  A new client whose  *)
(* socket that is stays connected, without a slot.                         *)
FreeSlot(t) ==
    /\ running /\ pc[t] = "zero"
    /\ cs' = [cs EXCEPT ![slot[t]] = NoSocket]
    /\ due' = due \ {sock[t]}
    /\ cutOff' = (cutOff \cup (due \cap {cs[slot[t]]})) \ {sock[t]}
    /\ Goto(t, "close")
    /\ UNCHANGED <<p, network, listener, slot, sock, sent, running>>

(* "if (s) soclose(s)", of the connection that has this handle by now.     *)
CloseSocket(t) ==
    /\ running /\ pc[t] = "close"
    /\ conn' = [s \in Socket |-> IF s = sock[t] THEN "closed" ELSE conn[s]]
    /\ got' = [s \in Socket |-> IF s = sock[t] THEN <<>> ELSE got[s]]
    /\ due' = due \ {sock[t]}
    /\ cutOff' = cutOff \ {sock[t]}
    /\ pc' = [u \in Thread |->
                 IF u = t THEN "test"
                 ELSE IF pc[u] \in {"recv", "send"} /\ sock[u] = sock[t]
                 THEN "failed" ELSE pc[u]]
    /\ Continue(t)
    /\ UNCHANGED <<table, stray, listener, sent, running>>

Disconnect(t) == ReadName(t) \/ TakeSocket(t) \/ FreeSlot(t) \/ CloseSocket(t)

ReaderStep(r) == ReadTest(r) \/ CallSocket(r) \/ Recv(r) \/ Disconnect(r)

ForwarderStep ==
    \/ ForwardTest \/ CallSocket(UDPListener) \/ Send
    \/ Disconnect(UDPListener)

-----------------------------------------------------------------------------
(* The clients.                                                            *)

Leave(s) ==
    /\ running /\ conn[s] = "open"
    /\ conn' = [conn EXCEPT ![s] = "gone"]
    /\ due' = due \ {s}
    /\ cutOff' = cutOff \ {s}
    /\ UNCHANGED <<table, got, stray, listener, threads, sent, running>>

Next ==
    \/ ListenerStep
    \/ AprsForwardPacket \/ ForwarderStep
    \/ \E r \in Reader : ReaderStep(r)
    \/ \E s \in Socket : Leave(s)

Spec == Init /\ [][Next]_vars

(* The listener and the readers run until they block.  Nothing is assumed  *)
(* of UDPListener: send() may wait for ever for a client that does not     *)
(* read.                                                                   *)
Fairness ==
    /\ WF_vars(ListenerStep)
    /\ \A r \in Reader : WF_vars(ReaderStep(r))

FairSpec == Spec /\ Fairness

-----------------------------------------------------------------------------
(* Properties.                                                             *)

TypeOK ==
    /\ cs \in [Slot -> Socket \cup {NoSocket}]
    /\ p \in [Slot -> {"null", "freed", "set"}]
    /\ conn \in [Socket -> ConnState]
    /\ got \in [Socket -> Seq(0..MaxPackets)]
    /\ lpc \in ListenerPc
    /\ lslot \in 1..(MAX_CLIENT + 1)
    /\ ls \in Socket \cup {NoSocket}
    /\ pc \in [Thread -> ThreadPc]
    /\ slot \in [Thread -> 1..(MAX_CLIENT + 1)]
    /\ sock \in [Thread -> Socket \cup {NoSocket}]
    /\ sent \in 0..MaxPackets
    /\ due \subseteq Socket /\ cutOff \subseteq due
    /\ stray \in BOOLEAN
    /\ running \in BOOLEAN

(* No client loses its slot to another: although the slot was found free   *)
(* several calls before, and without a lock, it still is when the new      *)
(* client's socket is put there.                                           *)
NoneDisplaced ==
    [][\A c \in Slot : cs[c] # NoSocket => cs'[c] \in {cs[c], NoSocket}]_cs

(* What a client is sent begins with the greeting and the login response,  *)
(* then come packets, in order and none twice - until the first time a     *)
(* handle is reused that another thread is about to close.                 *)
ClientStream ==
    ~stray => \A s \in Socket : \A j, k \in DOMAIN got[s] :
        /\ j <= 2 <=> got[s][j] = 0
        /\ 2 < j /\ j < k => got[s][j] < got[s][k]

(* When AprsForwardPacket returns, each connection that was in a slot when *)
(* the packet came, and that neither its client nor its own Disconnect has *)
(* ended since, was sent it, whoever else came, left or failed.  One is    *)
(* excepted: Disconnect reads cs[c].s and zeroes it in two steps, and a    *)
(* new client whose slot it zeroes between them stays connected but gets   *)
(* no packet.                                                              *)
EveryClientServed ==
    pc[UDPListener] = "idle" =>
        \A s \in due \ cutOff : \E k \in DOMAIN got[s] : got[s][k] = sent

(* The slot of a client that is gone is freed, as long as the process      *)
(* runs: every socket in a slot has a reader of its own.                   *)
GoneIsFreed ==
    \A c \in Slot, s \in Socket :
        cs[c] = s /\ conn[s] \in {"gone", "closed"} ~> cs[c] # s \/ ~running
=============================================================================
