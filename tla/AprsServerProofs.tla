--------------------------- MODULE AprsServerProofs ---------------------------
(* What TLAPS proves of AprsServer, for any number of slots, handles,      *)
(* readers and packets.                                                    *)
EXTENDS AprsServer, TLAPS

(* A slot the listener chose is free until the listener fills it, and a    *)
(* thread inside the loop has a slot.                                      *)
SlotInv ==
    /\ lpc \in {"accept", "greeting", "logresp", "publish"} =>
          lslot \in Slot /\ cs[lslot] = NoSocket
    /\ lpc \in {"free", "name"} => lslot \in Slot
    /\ lpc \in {"greeting", "logresp", "publish"} => ls \in Socket
    /\ \A r \in Reader : slot[r] \in Slot
    /\ pc[UDPListener] \notin {"idle", "test"} => slot[UDPListener] \in Slot
    /\ pc[UDPListener] = "idle" => slot[UDPListener] = 1
    /\ pc[UDPListener] # "idle" => sent > 0
    /\ \A r \in Reader : pc[r] # "send"
    /\ pc[UDPListener] # "recv"
    /\ \A t \in Thread : pc[t] \in {"recv", "send"} =>
          sock[t] \in Socket /\ conn[sock[t]] # "closed"

(* A connection that is due a packet is open, and as long as no other one's *)
(* Disconnect takes its slot it was sent the packet or AprsForwardPacket   *)
(* has yet to send it to the slot.                                         *)
Has(s) == \E k \in DOMAIN got[s] : got[s][k] = sent

Yet(c, s) ==
    /\ pc[UDPListener] # "idle"
    /\ \/ c > slot[UDPListener]
       \/ /\ c = slot[UDPListener]
          /\ \/ pc[UDPListener] \in {"test", "call"}
             \/ pc[UDPListener] = "send" /\ sock[UDPListener] = s

DueInv ==
    /\ \A s \in due : conn[s] = "open"
    /\ \A s \in due \ cutOff :
          \E c \in Slot : cs[c] = s /\ (Has(s) \/ Yet(c, s))

(* Until a handle that is still to be closed is reused, a connection has   *)
(* one owner: the listener, a slot, or the thread that disconnects it.     *)
OwnerInv ==
    /\ \A c, d \in Slot : cs[c] = cs[d] /\ cs[c] # NoSocket => c = d
    /\ \A c \in Slot : cs[c] # NoSocket => conn[cs[c]] # "closed"
    /\ lpc \in {"greeting", "logresp", "publish"} =>
          /\ \A c \in Slot : cs[c] # ls
          /\ conn[ls] # "closed"
          /\ \A t \in Thread : pc[t] \in {"zero", "close", "send"} => sock[t] # ls
    /\ \A t \in Thread, c \in Slot : sock[t] # NoSocket /\ cs[c] = sock[t] =>
          /\ pc[t] \in {"zero", "send"} => c = slot[t]
          /\ pc[t] # "close"

(* How far the stream of each client has come.                             *)
StreamInv ==
    /\ \A s \in Socket : conn[s] = "closed" => got[s] = <<>>
    /\ \A s \in Socket : \A k \in DOMAIN got[s] : got[s][k] <= sent
    /\ \A s \in Socket : conn[s] = "open" /\ Len(got[s]) < 2 =>
          /\ \A c \in Slot : cs[c] # s
          /\ \A t \in Thread : pc[t] = "send" => sock[t] # s
    /\ lpc \in {"greeting", "logresp", "publish"} =>
          /\ \A k \in DOMAIN got[ls] : got[ls][k] = 0
          /\ Len(got[ls]) <= CASE lpc = "greeting" -> 0 [] lpc = "logresp" -> 1
                               [] OTHER -> 2
          /\ conn[ls] = "open" /\ lpc = "publish" => Len(got[ls]) = 2
          /\ conn[ls] = "open" /\ lpc = "logresp" => Len(got[ls]) = 1
    /\ \A s \in Socket : pc[UDPListener] # "idle" /\ Has(s) =>
          /\ \A c \in Slot : cs[c] = s => c < slot[UDPListener]
          /\ pc[UDPListener] = "send" => sock[UDPListener] # s

OneStream == ~stray => OwnerInv /\ StreamInv

IInv == TypeOK /\ SlotInv /\ DueInv /\ OneStream /\ ClientStream

USE ServerBounds, NoSocketAssumption, UDPListenerAssumption DEF Slot, Thread

-----------------------------------------------------------------------------
(* TypeOK and SlotInv need no other part.                                  *)

(* A step of AprsServerListen keeps the types, and the slot it chose.      *)
LEMMA ListenerSlot ==
    ASSUME TypeOK, SlotInv, ListenerStep PROVE TypeOK' /\ SlotInv'
<1>1. CASE Select
  BY <1>1 DEF TypeOK, SlotInv, Select, Die, table, network, threads, packets,
     ListenerPc
<1>2. CASE Scan
  BY <1>2 DEF TypeOK, SlotInv, Scan, table, network, threads, packets,
     ListenerPc
<1>3. CASE Accept
  <2>1. TypeOK' BY <1>3 DEF TypeOK, Accept, Die, table, network, listener,
     threads, packets, ListenerPc, ConnState
  <2>2. SlotInv' BY <1>3 DEF TypeOK, SlotInv, Accept, Die, table, network,
     listener, threads, packets, ListenerPc, ConnState
  <2> QED BY <2>1, <2>2
<1>4. CASE Greet
  <2>1. got' \in [Socket -> Seq(0..MaxPackets)]
    BY <1>4 DEF TypeOK, SlotInv, Greet
  <2> QED BY <1>4, <2>1 DEF TypeOK, SlotInv, Greet, table, threads, packets,
     ListenerPc
<1>5. CASE Publish
  BY <1>5 DEF TypeOK, SlotInv, Publish, network, threads, packets, ListenerPc
<1>6. CASE FreeName
  BY <1>6 DEF TypeOK, SlotInv, FreeName, network, threads, packets, ListenerPc
<1>7. CASE StartReader
  BY <1>7 DEF TypeOK, SlotInv, StartReader, Goto, network, packets, ListenerPc,
     ThreadPc
<1> QED BY <1>1, <1>2, <1>3, <1>4, <1>5, <1>6, <1>7 DEF ListenerStep

(* So does a step of Disconnect.                                           *)
LEMMA DisconnectSlot ==
    ASSUME TypeOK, SlotInv, NEW t \in Thread, Disconnect(t)
    PROVE  TypeOK' /\ SlotInv'
<1>1. CASE ReadName(t)
  BY <1>1 DEF TypeOK, SlotInv, ReadName, Die, Goto, table, network, listener,
     packets, ThreadPc
<1>2. CASE TakeSocket(t)
  BY <1>2 DEF TypeOK, SlotInv, TakeSocket, Goto, table, network, listener,
     packets, ThreadPc
<1>3. CASE FreeSlot(t)
  BY <1>3 DEF TypeOK, SlotInv, FreeSlot, Goto, network, listener, ThreadPc
<1>4. CASE CloseSocket(t)
  <2>1. /\ pc' \in [Thread -> ThreadPc]
        /\ got' \in [Socket -> Seq(0..MaxPackets)]
        /\ conn' \in [Socket -> ConnState]
    <3>1. pc' \in [Thread -> ThreadPc] BY <1>4 DEF TypeOK, CloseSocket, ThreadPc
    <3>2. conn' \in [Socket -> ConnState] BY <1>4 DEF TypeOK, CloseSocket, ConnState
    <3>3. <<>> \in Seq(0..MaxPackets) OBVIOUS
    <3>4. got' \in [Socket -> Seq(0..MaxPackets)]
      BY <1>4, <3>3 DEF TypeOK, CloseSocket
    <3> QED BY <3>1, <3>2, <3>4
  <2>2. /\ slot' \in [Thread -> 1..(MAX_CLIENT + 1)]
        /\ sock' \in [Thread -> Socket \cup {NoSocket}]
    BY <1>4 DEF TypeOK, SlotInv, CloseSocket, Continue
  <2>3. due' \subseteq Socket /\ cutOff' \subseteq due'
    BY <1>4 DEF TypeOK, CloseSocket
  <2>4. TypeOK'
    BY <1>4, <2>1, <2>2, <2>3 DEF TypeOK, CloseSocket, table, listener
  <2>5. \A u \in Thread : pc'[u] \in {"recv", "send"} =>
           sock'[u] \in Socket /\ conn'[sock'[u]] # "closed"
    BY <1>4, <2>4 DEF TypeOK, SlotInv, CloseSocket, Continue
  <2>6. SlotInv'
    BY <1>4, <2>4, <2>5 DEF TypeOK, SlotInv, CloseSocket, Continue, table,
       listener
  <2> QED BY <2>4, <2>6
<1> QED BY <1>1, <1>2, <1>3, <1>4 DEF Disconnect

(* And every other step of the readers and of UDPListener.                 *)
LEMMA ThreadSlot ==
    ASSUME TypeOK, SlotInv,
           AprsForwardPacket \/ ForwardTest \/ Send
              \/ (\E t \in Thread : CallSocket(t))
              \/ (\E r \in Reader : ReadTest(r) \/ Recv(r))
              \/ (\E s \in Socket : Leave(s))
    PROVE  TypeOK' /\ SlotInv'
<1>1. CASE AprsForwardPacket
  BY <1>1 DEF TypeOK, SlotInv, AprsForwardPacket, Goto, table, network,
     listener,
     ThreadPc
<1>2. CASE ForwardTest
  BY <1>2 DEF TypeOK, SlotInv, ForwardTest, Goto, table, network, listener,
     packets, ThreadPc
<1>3. CASE Send
  <2>1. got' \in [Socket -> Seq(0..MaxPackets)]
    <3>1. Append(got[sock[UDPListener]], sent) \in Seq(0..MaxPackets)
      BY <1>3 DEF TypeOK, SlotInv, Send
    <3> QED BY <1>3, <3>1 DEF TypeOK, SlotInv, Send
  <2>2. TypeOK'
    BY SMTT(30), <1>3, <2>1
    DEF TypeOK, SlotInv, Send, Goto, Continue, table, listener,
       packets, ThreadPc
  <2>3. SlotInv'
    BY <1>3 DEF TypeOK, SlotInv, Send, Goto, Continue, table, listener,
       packets, ThreadPc
  <2> QED BY <2>2, <2>3
<1>4. ASSUME NEW t \in Thread, CallSocket(t) PROVE TypeOK' /\ SlotInv'
  BY <1>4 DEF TypeOK, SlotInv, CallSocket, Goto, table, network, listener,
     packets, ThreadPc
<1>5. ASSUME NEW r \in Reader, ReadTest(r) PROVE TypeOK' /\ SlotInv'
  <2>1. /\ pc' \in [Thread -> ThreadPc] /\ slot' \in [Thread -> 1..(MAX_CLIENT + 1)]
        /\ slot'[r] \in Slot
    <3>1. 1 \in Slot OBVIOUS
    <3>2. CASE slot' = [slot EXCEPT ![r] = 1] /\ pc' = [pc EXCEPT ![r] = "idle"]
      BY <3>1, <3>2 DEF TypeOK, SlotInv, ThreadPc
    <3>3. CASE slot' = slot /\ pc' = [pc EXCEPT ![r] = "call"]
      BY <3>3 DEF TypeOK, SlotInv, ThreadPc
    <3> QED BY <1>5, <3>2, <3>3 DEF ReadTest, Goto
  <2>2. TypeOK'
    BY <1>5, <2>1 DEF TypeOK, ReadTest, table, network, listener, packets
  <2>3. SlotInv'
    <3>1. /\ UNCHANGED <<cs, conn, lpc, lslot, ls, sock, sent>>
          /\ pc'[r] \in {"idle", "call"} /\ r # UDPListener
          /\ \A u \in Thread : u # r => pc'[u] = pc[u] /\ slot'[u] = slot[u]
      BY <1>5 DEF ReadTest, Goto, table, network, listener, packets, TypeOK
    <3> QED BY <2>1, <3>1 DEF SlotInv
  <2> QED BY <2>2, <2>3
<1>6. ASSUME NEW r \in Reader, Recv(r) PROVE TypeOK' /\ SlotInv'
  BY <1>6 DEF TypeOK, SlotInv, Recv, Goto, table, network, listener,
     packets, ThreadPc
<1>7. ASSUME NEW s \in Socket, Leave(s) PROVE TypeOK' /\ SlotInv'
  BY <1>7 DEF TypeOK, SlotInv, Leave, table, listener, threads, ConnState
<1> QED BY <1>1, <1>2, <1>3, <1>4, <1>5, <1>6, <1>7

-----------------------------------------------------------------------------
(* Every step is one of these.                                             *)
LEMMA Steps ==
    ASSUME Next
    PROVE  \/ ListenerStep \/ AprsForwardPacket \/ ForwardTest \/ Send
           \/ \E t \in Thread : CallSocket(t) \/ Disconnect(t)
           \/ \E r \in Reader : ReadTest(r) \/ Recv(r)
           \/ \E s \in Socket : Leave(s)
BY DEF Next, ForwarderStep, ReaderStep

(* Every step keeps the types and the slots.                               *)
LEMMA SlotStep ==
    ASSUME TypeOK, SlotInv, [Next]_vars PROVE TypeOK' /\ SlotInv'
<1>1. CASE UNCHANGED vars
  BY <1>1 DEF vars, table, network, listener, threads, packets, TypeOK, SlotInv
<1>2. CASE Next
  BY <1>2, Steps, ListenerSlot, DisconnectSlot, ThreadSlot
<1> QED BY <1>1, <1>2

(* A slot changes only from free to taken, by the listener, or from taken  *)
(* to free.                                                                *)
LEMMA SlotKept ==
    ASSUME TypeOK, SlotInv, [Next]_vars
    PROVE  \A c \in Slot : cs[c] # NoSocket => cs'[c] \in {cs[c], NoSocket}
<1>1. CASE UNCHANGED vars BY <1>1 DEF vars, table
<1>2. CASE ListenerStep
  BY <1>2 DEF ListenerStep, Select, Scan, Accept, Greet, Publish, FreeName,
     StartReader, SlotInv, TypeOK, table
<1>3. ASSUME NEW t \in Thread, CallSocket(t) \/ Disconnect(t)
      PROVE  \A c \in Slot : cs[c] # NoSocket => cs'[c] \in {cs[c], NoSocket}
  BY <1>3 DEF CallSocket, Disconnect, ReadName, TakeSocket, FreeSlot,
     CloseSocket,
     TypeOK, table
<1>4. CASE \/ AprsForwardPacket \/ ForwardTest \/ Send
           \/ \E r \in Reader : ReadTest(r) \/ Recv(r)
           \/ \E s \in Socket : Leave(s)
  BY <1>4 DEF AprsForwardPacket, ForwardTest, Send, ReadTest, Recv, Leave,
     table
<1> QED BY <1>1, <1>2, <1>3, <1>4, Steps

-----------------------------------------------------------------------------
(* DueInv.                                                                 *)

(* A step keeps DueInv if it leaves the slots of the connections that are  *)
(* due alone, and those AprsForwardPacket has yet to reach stay ahead or   *)
(* are sent the packet.                                                    *)
LEMMA DueKept ==
    ASSUME DueInv, due' \subseteq due,
           \A s \in due' : conn'[s] = "open",
           \A s \in due' \ cutOff' :
              /\ s \notin cutOff
              /\ Has(s) => Has(s)'
              /\ \A c \in Slot : cs[c] = s =>
                    cs'[c] = s /\ (Yet(c, s) => Yet(c, s)' \/ Has(s)')
    PROVE  DueInv'
<1> SUFFICES ASSUME NEW s \in due' \ cutOff'
             PROVE  \E c \in Slot : cs'[c] = s /\ (Has(s)' \/ Yet(c, s)')
  BY DEF DueInv
<1>1. PICK c \in Slot : cs[c] = s /\ (Has(s) \/ Yet(c, s)) BY DEF DueInv
<1>2. cs'[c] = s /\ (Has(s)' \/ Yet(c, s)') BY <1>1
<1> QED BY <1>2

(* What the listener does: it opens connections, and puts them into slots  *)
(* that are free.                                                          *)
LEMMA ListenerDue ==
    ASSUME TypeOK, SlotInv, DueInv, ListenerStep PROVE DueInv'
<1>1. /\ UNCHANGED <<due, cutOff, sent, sock>>
      /\ UNCHANGED <<pc[UDPListener], slot[UDPListener]>>
  BY DEF ListenerStep, Select, Scan, Accept, Greet, Publish, FreeName,
     StartReader, Goto, threads, packets, TypeOK
<1>2. \A s \in Socket : conn[s] = "open" => conn'[s] = "open"
  BY DEF ListenerStep, Select, Scan, Accept, Greet, Publish, FreeName,
     StartReader, network, TypeOK
<1>3. \A c \in Slot : cs[c] # NoSocket => cs'[c] = cs[c]
  BY DEF ListenerStep, Select, Scan, Accept, Greet, Publish, FreeName,
     StartReader, table, SlotInv, TypeOK
<1>4. \A s \in Socket : Has(s) => Has(s)'
  <2>1. CASE got' = got BY <1>1, <2>1 DEF Has
  <2>2. CASE got' = [got EXCEPT ![ls] = Append(@, 0)]
    <3>1. \A s \in Socket : \A k \in DOMAIN got[s] :
             k \in DOMAIN got'[s] /\ got'[s][k] = got[s][k]
      BY <2>2 DEF TypeOK
    <3> QED BY <1>1, <3>1 DEF Has
  <2> QED
    BY <2>1, <2>2 DEF ListenerStep, Select, Scan, Accept, Greet, Publish,
       FreeName, StartReader, network
<1>5. \A s, c : Yet(c, s) => Yet(c, s)' BY <1>1 DEF Yet
<1>6. \A s \in due : s \in Socket /\ conn[s] = "open" BY DEF TypeOK, DueInv
<1> QED BY <1>1, <1>2, <1>3, <1>4, <1>5, <1>6, DueKept

(* Disconnect takes its own connection from due, and one whose slot it     *)
(* frees is cut off.                                                       *)
LEMMA DisconnectDue ==
    ASSUME TypeOK, SlotInv, DueInv, NEW t \in Thread, Disconnect(t)
    PROVE  DueInv'
<1>0. \A s \in due : s \in Socket /\ s # NoSocket /\ conn[s] = "open"
  BY DEF TypeOK, DueInv
<1>1. CASE ReadName(t) \/ TakeSocket(t)
  <2>1. /\ UNCHANGED <<cs, conn, got, due, cutOff, sent, slot>>
        /\ \A u \in Thread : u # t => pc'[u] = pc[u] /\ sock'[u] = sock[u]
        /\ pc[t] \in {"failed", "take"}
        /\ pc'[t] \in {"failed", "take", "zero"}
    BY <1>1 DEF ReadName, TakeSocket, Goto, table, network, packets, TypeOK
  <2>2. \A s : Has(s) => Has(s)' BY <2>1 DEF Has
  <2>3. \A s, c : Yet(c, s) => Yet(c, s)' BY <2>1 DEF Yet
  <2> QED BY <1>0, <2>1, <2>2, <2>3, DueKept
<1>2. CASE FreeSlot(t)
  <2>1. /\ UNCHANGED <<conn, got, sent, slot, sock>>
        /\ due' \subseteq due
        /\ \A s \in due' \ cutOff' : s \notin cutOff /\ s # cs[slot[t]]
        /\ \A c \in Slot : c # slot[t] => cs'[c] = cs[c]
        /\ \A u \in Thread : u # t => pc'[u] = pc[u]
        /\ pc[t] = "zero" /\ pc'[t] = "close"
    BY <1>2 DEF FreeSlot, Goto, network, TypeOK
  <2>2. \A s : Has(s) => Has(s)' BY <2>1 DEF Has
  <2>3. \A s, c : Yet(c, s) => Yet(c, s)' BY <2>1 DEF Yet
  <2> QED BY <1>0, <2>1, <2>2, <2>3, DueKept
<1>3. CASE CloseSocket(t)
  <2>1. /\ cs' = cs /\ sent' = sent /\ due' \subseteq due
        /\ \A s \in due' : s # sock[t] /\ got'[s] = got[s] /\ conn'[s] = conn[s]
        /\ \A s \in due' \ cutOff' : s \notin cutOff
    BY <1>0, <1>3 DEF CloseSocket, table
  <2>2. /\ pc[t] = "close" /\ pc'[t] = "test"
        /\ t = UDPListener => slot'[t] = slot[t] + 1
        /\ \A u \in Thread \ {t} :
              /\ slot'[u] = slot[u] /\ sock'[u] = sock[u]
              /\ \/ pc'[u] = pc[u]
                 \/ pc[u] \in {"recv", "send"} /\ sock[u] = sock[t] /\ pc'[u] = "failed"
    BY <1>3 DEF CloseSocket, Continue, TypeOK
  <2>3. \A s \in due' : Has(s) => Has(s)' BY <2>1 DEF Has
  <2>4. ASSUME NEW s \in due', NEW c \in Slot, Yet(c, s) PROVE Yet(c, s)'
    <3>1. CASE t = UDPListener
      <4>1. c > slot[t] /\ slot[t] \in Int /\ c \in Int
        BY <2>2, <2>4, <3>1 DEF Yet, TypeOK
      <4>2. c > slot[t] + 1 \/ c = slot[t] + 1 BY <4>1
      <4> QED BY <2>2, <3>1, <4>2 DEF Yet
    <3>2. CASE t # UDPListener
      BY <2>1, <2>2, <2>4, <3>2 DEF Yet
    <3> QED BY <3>1, <3>2
  <2> QED BY <1>0, <2>1, <2>3, <2>4, DueKept
<1> QED BY <1>1, <1>2, <1>3 DEF Disconnect

(* AprsForwardPacket and the other steps.                                  *)
LEMMA ThreadDue ==
    ASSUME TypeOK, SlotInv, DueInv,
           AprsForwardPacket \/ ForwardTest \/ Send
              \/ (\E t \in Thread : CallSocket(t))
              \/ (\E r \in Reader : ReadTest(r) \/ Recv(r))
              \/ (\E s \in Socket : Leave(s))
    PROVE  DueInv'
<1>0. \A s \in due : s \in Socket /\ s # NoSocket /\ conn[s] = "open"
  BY DEF TypeOK, DueInv
<1>1. CASE AprsForwardPacket
  <2>1. /\ conn' = conn /\ cs' = cs /\ slot'[UDPListener] = 1
        /\ pc'[UDPListener] = "test"
        /\ \A s \in due' : conn[s] = "open" /\ \E c \in Slot : cs[c] = s
    BY <1>1 DEF AprsForwardPacket, Goto, SlotInv, TypeOK, table, network
  <2>2. \A s : \A c \in Slot : Yet(c, s)'
    <3>1. \A c \in Slot : c > 1 \/ c = 1 OBVIOUS
    <3> QED BY <2>1, <3>1 DEF Yet
  <2> QED BY <2>1, <2>2 DEF DueInv
<1>2. CASE ForwardTest
  <2>1. UNCHANGED <<due, cutOff, sent, got, conn, cs, sock>>
    BY <1>2 DEF ForwardTest, table, network, packets
  <2>2. /\ pc[UDPListener] = "test" /\ slot[UDPListener] \in 1..(MAX_CLIENT + 1)
        /\ \/ slot[UDPListener] > MAX_CLIENT
           \/ /\ cs[slot[UDPListener]] = NoSocket
              /\ pc'[UDPListener] = "test"
              /\ slot'[UDPListener] = slot[UDPListener] + 1
           \/ /\ pc'[UDPListener] = "call"
              /\ slot'[UDPListener] = slot[UDPListener]
    BY <1>2 DEF ForwardTest, Goto, TypeOK
  <2>3. \A s : Has(s) => Has(s)' BY <2>1 DEF Has
  <2>4. ASSUME NEW s \in due, NEW c \in Slot, cs[c] = s, Yet(c, s)
        PROVE  Yet(c, s)'
    <3>1. /\ c > slot[UDPListener] \/ c = slot[UDPListener]
          /\ c \in Int /\ c <= MAX_CLIENT /\ cs[c] # NoSocket
      BY <1>0, <2>4 DEF Yet
    <3>2. CASE cs[slot[UDPListener]] = NoSocket
               /\ pc'[UDPListener] = "test"
               /\ slot'[UDPListener] = slot[UDPListener] + 1
      <4>1. c > slot[UDPListener] + 1 \/ c = slot[UDPListener] + 1
        BY <2>2, <3>1, <3>2
      <4> QED BY <3>2, <4>1 DEF Yet
    <3>3. CASE pc'[UDPListener] = "call" /\ slot'[UDPListener] = slot[UDPListener]
      BY <3>1, <3>3 DEF Yet
    <3>4. ~(slot[UDPListener] > MAX_CLIENT) BY <2>2, <3>1
    <3> QED BY <2>2, <3>2, <3>3, <3>4
  <2> QED BY <1>0, <2>1, <2>3, <2>4, DueKept
<1>3. CASE Send
  <2>0. PICK s \in Socket : s = sock[UDPListener]
    BY <1>3 DEF Send, SlotInv
  <2>1. /\ UNCHANGED <<due, cutOff, sent, conn, cs>>
        /\ pc[UDPListener] = "send" /\ slot[UDPListener] \in Int
    BY <1>3 DEF Send, TypeOK, table, packets
  <2>2. /\ \/ pc'[UDPListener] = "test" /\ slot'[UDPListener] = slot[UDPListener] + 1
           \/ pc'[UDPListener] = "failed" /\ slot'[UDPListener] = slot[UDPListener]
        /\ IF conn[s] = "open" THEN got' = [got EXCEPT ![s] = Append(@, sent)]
           ELSE got' = got
    BY <1>3, <2>0 DEF Send, Goto, Continue, TypeOK
  <2>3. \A u \in Socket : Has(u) => Has(u)'
    <3>1. CASE got' = got BY <2>1, <3>1 DEF Has
    <3>2. CASE got' = [got EXCEPT ![s] = Append(@, sent)]
      <4>1. \A u \in Socket : \A k \in DOMAIN got[u] :
               k \in DOMAIN got'[u] /\ got'[u][k] = got[u][k]
        BY <3>2 DEF TypeOK
      <4> QED BY <2>1, <4>1 DEF Has
    <3> QED BY <2>2, <3>1, <3>2
  <2>4. conn[s] = "open" => Has(s)'
    <3>1. conn[s] = "open" => /\ Len(got[s]) + 1 \in DOMAIN got'[s]
                              /\ got'[s][Len(got[s]) + 1] = sent
      BY SMTT(30), <2>0, <2>2 DEF TypeOK
    <3> QED BY <2>1, <3>1 DEF Has
  <2>5. ASSUME NEW u \in due, NEW c \in Slot, Yet(c, u)
        PROVE  Yet(c, u)' \/ Has(u)'
    <3>1. CASE c > slot[UDPListener]
      <4>1. c > slot[UDPListener] + 1 \/ c = slot[UDPListener] + 1 BY <2>1, <3>1
      <4> QED BY <2>2, <3>1, <4>1 DEF Yet
    <3>2. CASE u = s BY <1>0, <2>4, <3>2
    <3> QED BY <2>0, <2>1, <2>5, <3>1, <3>2 DEF Yet
  <2> QED BY <1>0, <2>1, <2>3, <2>5, DueKept
<1>4. ASSUME NEW t \in Thread, CallSocket(t) PROVE DueInv'
  <2>1. /\ UNCHANGED <<cs, conn, got, due, cutOff, sent, slot>>
        /\ \A u \in Thread : u # t => pc'[u] = pc[u] /\ sock'[u] = sock[u]
        /\ pc[t] = "call" /\ sock'[t] = cs[slot[t]] /\ pc'[t] # "idle"
        /\ t = UDPListener /\ cs[slot[t]] \in Socket /\ conn[cs[slot[t]]] = "open"
              => pc'[t] = "send"
    BY <1>4 DEF CallSocket, Goto, table, network, packets, TypeOK
  <2>2. \A s : Has(s) => Has(s)' BY <2>1 DEF Has
  <2>3. \A s \in due : \A c \in Slot : cs[c] = s /\ Yet(c, s) => Yet(c, s)'
    BY <1>0, <2>1 DEF Yet
  <2> QED BY <1>0, <2>1, <2>2, <2>3, DueKept
<1>5. ASSUME NEW r \in Reader, ReadTest(r) \/ Recv(r) PROVE DueInv'
  <2>1. /\ UNCHANGED <<cs, conn, got, due, cutOff, sent>>
        /\ pc'[UDPListener] = pc[UDPListener]
        /\ slot'[UDPListener] = slot[UDPListener]
        /\ sock'[UDPListener] = sock[UDPListener]
    BY <1>5 DEF ReadTest, Recv, Goto, table, network, packets, TypeOK
  <2>2. \A s : Has(s) => Has(s)' BY <2>1 DEF Has
  <2>3. \A s, c : Yet(c, s) => Yet(c, s)' BY <2>1 DEF Yet
  <2> QED BY <1>0, <2>1, <2>2, <2>3, DueKept
<1>6. ASSUME NEW u \in Socket, Leave(u) PROVE DueInv'
  <2>1. /\ UNCHANGED <<cs, got, sent, pc, slot, sock>>
        /\ due' = due \ {u} /\ cutOff' = cutOff \ {u}
        /\ \A s \in Socket : s # u => conn'[s] = conn[s]
    BY <1>6 DEF Leave, table, threads, TypeOK
  <2>2. \A s : Has(s) => Has(s)' BY <2>1 DEF Has
  <2>3. \A s, c : Yet(c, s) => Yet(c, s)' BY <2>1 DEF Yet
  <2> QED BY <1>0, <2>1, <2>2, <2>3, DueKept
<1> QED BY <1>1, <1>2, <1>3, <1>4, <1>5, <1>6

(* Every step keeps DueInv.                                                *)
LEMMA DueStep ==
    ASSUME TypeOK, SlotInv, DueInv, [Next]_vars PROVE DueInv'
<1>1. CASE UNCHANGED vars
  BY <1>1 DEF vars, table, network, listener, threads, packets, DueInv,
     Yet, Has
<1>2. CASE Next
  BY <1>2, Steps, ListenerDue, DisconnectDue, ThreadDue
<1> QED BY <1>1, <1>2

-----------------------------------------------------------------------------
(* OwnerInv.                                                               *)

(* The listener opens a connection that has no owner, and hands it over to *)
(* the slot.                                                               *)
LEMMA ListenerOwner ==
    ASSUME TypeOK, SlotInv, OwnerInv, ListenerStep, ~stray' PROVE OwnerInv'
<1>1. CASE Select \/ Scan \/ FreeName
  BY <1>1 DEF Select, Scan, FreeName, OwnerInv, table, network, threads,
     ListenerPc
<1>2. CASE Accept
  <2>1. CASE UNCHANGED <<network, listener>>
    BY <1>2, <2>1 DEF Accept, OwnerInv, table, network, listener, threads
  <2>2. ASSUME NEW s \in Socket, conn[s] = "closed",
               conn' = [conn EXCEPT ![s] = "open"], ls' = s,
               ~(\E t \in Thread : pc[t] \in {"zero", "close"} /\ sock[t] = s)
        PROVE  OwnerInv'
    <3>1. UNCHANGED <<cs, pc, slot, sock>> BY <1>2 DEF Accept, table, threads
    <3>2. \A u \in Socket : conn[u] # "closed" => conn'[u] # "closed"
      BY <2>2 DEF TypeOK
    <3>3. conn'[s] # "closed" BY <2>2 DEF TypeOK
    <3>4. \A c \in Slot : cs[c] # s BY <2>2 DEF OwnerInv
    <3>5. \A t \in Thread : pc[t] = "send" => sock[t] # s BY <2>2 DEF SlotInv
    <3>6. \A c \in Slot : cs[c] # NoSocket => conn'[cs[c]] # "closed"
      BY <3>2 DEF OwnerInv, TypeOK
    <3> QED BY <2>2, <3>1, <3>3, <3>4, <3>5, <3>6 DEF OwnerInv
  <2> QED BY <1>2, <2>1, <2>2 DEF Accept
<1>3. CASE Greet
  BY <1>3 DEF Greet, OwnerInv, table, threads
<1>4. CASE Publish
  <2>1. /\ UNCHANGED <<conn, pc, slot, sock>> /\ lpc' = "free"
        /\ lslot \in Slot /\ ls \in Socket
        /\ cs' = [cs EXCEPT ![lslot] = ls]
        /\ conn[ls] # "closed" /\ \A c \in Slot : cs[c] # ls
        /\ \A t \in Thread : pc[t] \in {"zero", "close", "send"} => sock[t] # ls
    BY <1>4 DEF Publish, network, threads, SlotInv, OwnerInv
  <2>2. cs'[lslot] = ls /\ \A c \in Slot : c # lslot => cs'[c] = cs[c]
    BY <2>1 DEF TypeOK
  <2>3. \A c, d \in Slot : cs'[c] = cs'[d] /\ cs'[c] # NoSocket => c = d
    BY <2>1, <2>2 DEF OwnerInv
  <2>4. \A c \in Slot : cs'[c] # NoSocket => conn[cs'[c]] # "closed"
    BY <2>1, <2>2 DEF OwnerInv
  <2>5. \A t \in Thread, c \in Slot : sock[t] # NoSocket /\ cs'[c] = sock[t] =>
           /\ pc[t] \in {"zero", "send"} => c = slot[t]
           /\ pc[t] # "close"
    BY <2>1, <2>2 DEF OwnerInv
  <2> QED BY <2>1, <2>3, <2>4, <2>5 DEF OwnerInv
<1>5. CASE StartReader
  BY <1>5 DEF StartReader, Goto, OwnerInv, network, TypeOK
<1> QED BY <1>1, <1>2, <1>3, <1>4, <1>5 DEF ListenerStep

(* A thread takes the socket of its slot, frees the slot, then closes.     *)
LEMMA DisconnectOwner ==
    ASSUME TypeOK, SlotInv, OwnerInv, NEW t \in Thread,
           CallSocket(t) \/ Disconnect(t)
    PROVE  OwnerInv'
<1>1. CASE ReadName(t)
  <2>1. /\ UNCHANGED <<cs, conn, lpc, ls, slot, sock>>
        /\ pc'[t] \in {"failed", "take"}
        /\ \A u \in Thread : u # t => pc'[u] = pc[u]
    BY <1>1 DEF ReadName, Goto, table, network, listener, TypeOK
  <2> QED BY <2>1 DEF OwnerInv
<1>2. CASE CallSocket(t) \/ TakeSocket(t)
  <2>1. /\ UNCHANGED <<cs, conn, lpc, ls, slot>>
        /\ sock'[t] = cs[slot[t]] /\ slot[t] \in Slot /\ pc'[t] # "close"
        /\ \A u \in Thread : u # t => sock'[u] = sock[u] /\ pc'[u] = pc[u]
    BY <1>2 DEF CallSocket, TakeSocket, Goto, table, network, listener, TypeOK,
       SlotInv
  <2> QED BY <2>1 DEF OwnerInv
<1>3. CASE FreeSlot(t)
  <2>1. /\ UNCHANGED <<conn, lpc, ls, slot, sock>>
        /\ slot[t] \in Slot /\ pc[t] = "zero" /\ pc'[t] = "close"
        /\ \A u \in Thread : u # t => pc'[u] = pc[u]
        /\ cs'[slot[t]] = NoSocket
        /\ \A c \in Slot : c # slot[t] => cs'[c] = cs[c]
    BY <1>3 DEF FreeSlot, Goto, network, listener, TypeOK, SlotInv
  <2>2. \A c \in Slot : sock[t] # NoSocket => cs'[c] # sock[t]
    BY <2>1 DEF OwnerInv
  <2>3. \A c \in Slot : cs'[c] \in {cs[c], NoSocket} BY <2>1
  <2>4. /\ \A c, d \in Slot : cs'[c] = cs'[d] /\ cs'[c] # NoSocket => c = d
        /\ \A c \in Slot : cs'[c] # NoSocket => conn'[cs'[c]] # "closed"
    BY <2>1, <2>3 DEF OwnerInv
  <2>5. lpc \in {"greeting", "logresp", "publish"} => \A c \in Slot : cs'[c] # ls
    BY <2>3 DEF OwnerInv, SlotInv
  <2>6. \A u \in Thread, c \in Slot : sock[u] # NoSocket /\ cs'[c] = sock[u] =>
           /\ pc'[u] \in {"zero", "send"} => c = slot[u]
           /\ pc'[u] # "close"
    BY <2>1, <2>2, <2>3 DEF OwnerInv
  <2>7. lpc \in {"greeting", "logresp", "publish"} => conn[ls] # "closed" /\
           \A u \in Thread : pc'[u] \in {"zero", "close", "send"} => sock[u] # ls
    BY <2>1 DEF OwnerInv
  <2> QED BY <2>1, <2>4, <2>5, <2>6, <2>7 DEF OwnerInv
<1>4. CASE CloseSocket(t)
  <2>1. /\ UNCHANGED <<cs, lpc, ls>> /\ pc[t] = "close"
        /\ sock'[t] = NoSocket /\ pc'[t] = "test"
        /\ \A s \in Socket : s # sock[t] => conn'[s] = conn[s]
        /\ \A u \in Thread : u # t =>
              /\ sock'[u] = sock[u] /\ slot'[u] = slot[u]
              /\ pc'[u] \in {pc[u], "failed"}
    BY <1>4 DEF CloseSocket, Continue, table, listener, TypeOK
  <2>2. \A c \in Slot : cs[c] # NoSocket => cs[c] # sock[t] BY <2>1 DEF OwnerInv
  <2>3. lpc \in {"greeting", "logresp", "publish"} => ls # sock[t] /\ ls \in Socket
    BY <2>1 DEF OwnerInv, SlotInv
  <2>4. \A c \in Slot : cs[c] # NoSocket => conn'[cs[c]] # "closed"
    BY <2>1, <2>2 DEF OwnerInv, TypeOK
  <2>5. lpc \in {"greeting", "logresp", "publish"} => conn'[ls] # "closed"
    BY <2>1, <2>3 DEF OwnerInv
  <2>6. \A u \in Thread, c \in Slot : sock'[u] # NoSocket /\ cs[c] = sock'[u] =>
           /\ pc'[u] \in {"zero", "send"} => c = slot'[u]
           /\ pc'[u] # "close"
    BY <2>1 DEF OwnerInv
  <2>7. lpc \in {"greeting", "logresp", "publish"} =>
           \A u \in Thread : pc'[u] \in {"zero", "close", "send"} => sock'[u] # ls
    BY <2>1 DEF OwnerInv
  <2> QED BY <2>1, <2>4, <2>5, <2>6, <2>7 DEF OwnerInv
<1> QED BY <1>1, <1>2, <1>3, <1>4 DEF Disconnect

(* Every step keeps one owner, as long as no such handle is reused.        *)
LEMMA OwnerStep ==
    ASSUME TypeOK, SlotInv, OwnerInv, [Next]_vars, ~stray' PROVE OwnerInv'
<1>1. CASE UNCHANGED vars
  BY <1>1 DEF vars, table, network, listener, threads, OwnerInv
<1>2. CASE AprsForwardPacket \/ ForwardTest
  BY SMTT(30), <1>2
  DEF AprsForwardPacket, ForwardTest, Goto, table, network, listener,
     OwnerInv, TypeOK
<1>3. CASE Send
  <2>1. /\ UNCHANGED <<cs, conn, lpc, ls>>
        /\ pc'[UDPListener] \in {"test", "failed"}
        /\ \A u \in Thread : u # UDPListener =>
              sock'[u] = sock[u] /\ pc'[u] = pc[u] /\ slot'[u] = slot[u]
    BY <1>3 DEF Send, Goto, Continue, table, listener, TypeOK
  <2> QED BY <2>1 DEF OwnerInv
<1>4. ASSUME NEW r \in Reader, ReadTest(r) \/ Recv(r) PROVE OwnerInv'
  <2>1. /\ UNCHANGED <<cs, conn, lpc, ls>>
        /\ pc'[r] \in {"idle", "call", "test", "failed"}
        /\ \A u \in Thread : u # r =>
              sock'[u] = sock[u] /\ pc'[u] = pc[u] /\ slot'[u] = slot[u]
    BY <1>4 DEF ReadTest, Recv, Goto, table, network, listener, TypeOK
  <2> QED BY <2>1 DEF OwnerInv
<1>5. ASSUME NEW s \in Socket, Leave(s) PROVE OwnerInv'
  <2>1. /\ UNCHANGED <<cs, lpc, ls, pc, slot, sock>>
        /\ \A u \in Socket : conn'[u] = "closed" => conn[u] = "closed"
    BY <1>5 DEF Leave, table, listener, threads, TypeOK
  <2>2. \A c \in Slot : cs[c] # NoSocket => cs[c] \in Socket BY DEF TypeOK
  <2>3. lpc \in {"greeting", "logresp", "publish"} => ls \in Socket BY DEF SlotInv
  <2> QED BY <2>1, <2>2, <2>3 DEF OwnerInv
<1> QED BY <1>1, <1>2, <1>3, <1>4, <1>5, Steps, ListenerOwner, DisconnectOwner

-----------------------------------------------------------------------------
(* StreamInv and ClientStream.                                             *)

Shape(g) ==
    \A j, k \in DOMAIN g :
        /\ j <= 2 <=> g[j] = 0
        /\ 2 < j /\ j < k => g[j] < g[k]

Greeting == {"greeting", "logresp", "publish"}

(* A step that sends nothing, opens nothing and calls no send().           *)
LEMMA QuietStep ==
    ASSUME StreamInv, UNCHANGED <<got, sent>>,
           lpc' \notin Greeting \/ (UNCHANGED <<lpc, ls>>),
           \A s \in Socket : /\ conn'[s] = "closed" => conn[s] = "closed"
                             /\ conn'[s] = "open" => conn[s] = "open",
           lpc' \in Greeting => ls \in Socket,
           \A c \in Slot : cs'[c] \in {cs[c], NoSocket},
           slot'[UDPListener] = slot[UDPListener],
           pc[UDPListener] = "idle" => pc'[UDPListener] = "idle",
           \A t \in Thread : pc'[t] = "send" => pc[t] = "send" /\ sock'[t] = sock[t]
    PROVE  StreamInv'
<1>1. \A s \in Socket : Has(s)' <=> Has(s) BY DEF Has
<1>2. \A s \in Socket, c \in Slot : cs'[c] = s => cs[c] = s OBVIOUS
<1>3. /\ \A s \in Socket : conn'[s] = "closed" => got'[s] = <<>>
      /\ \A s \in Socket : \A k \in DOMAIN got'[s] : got'[s][k] <= sent'
  BY DEF StreamInv
<1>4. \A s \in Socket : conn'[s] = "open" /\ Len(got'[s]) < 2 =>
          /\ \A c \in Slot : cs'[c] # s
          /\ \A t \in Thread : pc'[t] = "send" => sock'[t] # s
  BY <1>2 DEF StreamInv
<1>5. \A s \in Socket : pc'[UDPListener] # "idle" /\ Has(s)' =>
          /\ \A c \in Slot : cs'[c] = s => c < slot'[UDPListener]
          /\ pc'[UDPListener] = "send" => sock'[UDPListener] # s
  BY <1>1, <1>2 DEF StreamInv
<1>6. CASE lpc' \notin Greeting
  BY <1>3, <1>4, <1>5, <1>6 DEF StreamInv, Greeting
<1>7. CASE lpc' \in Greeting /\ UNCHANGED <<lpc, ls>>
  <2>1. conn'[ls] = "open" => conn[ls] = "open" BY <1>7
  <2> QED BY <1>3, <1>4, <1>5, <1>7, <2>1 DEF StreamInv, Greeting
<1> QED BY <1>6, <1>7

(* The listener tells a client the greeting and the login response before  *)
(* it has a slot.                                                          *)
LEMMA ListenerStream ==
    ASSUME TypeOK, SlotInv, OwnerInv, StreamInv, ListenerStep,
           \A s \in Socket : Shape(got[s])
    PROVE  StreamInv' /\ \A s \in Socket : Shape(got'[s])
<1>1. CASE Select \/ Scan \/ FreeName \/ StartReader
  <2>1. /\ UNCHANGED <<got, conn, sent, cs, sock>> /\ lpc' \notin Greeting
        /\ slot'[UDPListener] = slot[UDPListener]
        /\ pc'[UDPListener] = pc[UDPListener]
        /\ \A t \in Thread : pc'[t] = "send" => pc[t] = "send"
    BY <1>1 DEF Select, Scan, FreeName, StartReader, Goto, table, network,
       threads,
       packets, TypeOK, Greeting
  <2> QED BY <2>1, QuietStep
<1>2. CASE Accept
  <2>1. CASE UNCHANGED <<network, listener>>
    <3>1. UNCHANGED <<got, conn, sent, cs, pc, slot, sock, lpc, ls>>
      BY <1>2, <2>1 DEF Accept, table, network, listener, threads, packets
    <3> QED BY <3>1, QuietStep DEF SlotInv, Greeting
  <2>2. ASSUME NEW s \in Socket, conn[s] = "closed", ls' = s, lpc' = "greeting",
               conn' = [conn EXCEPT ![s] = "open"]
        PROVE  StreamInv'
    <3>1. UNCHANGED <<cs, pc, slot, sock, got, sent>>
      <4>1. got' = got BY <1>2, <2>2 DEF Accept, network
      <4> QED BY <1>2, <4>1 DEF Accept, table, threads, packets
    <3>2. \A u \in Socket : Has(u)' <=> Has(u) BY <3>1 DEF Has
    <3>3. /\ got[s] = <<>> /\ conn'[s] = "open"
          /\ \A u \in Socket : u # s => conn'[u] = conn[u]
      BY <2>2 DEF StreamInv, TypeOK
    <3>4. /\ \A c \in Slot : cs[c] # s
          /\ \A t \in Thread : pc[t] = "send" => sock[t] # s
      BY <2>2 DEF OwnerInv, SlotInv
    <3>5. Len(got[s]) = 0 /\ DOMAIN got[s] = {} BY <3>3
    <3> QED BY <2>2, <3>1, <3>2, <3>3, <3>4, <3>5 DEF StreamInv
  <2>3. got' = got BY <1>2 DEF Accept, network
  <2> QED BY <1>2, <2>1, <2>2, <2>3 DEF Accept
<1>3. CASE Greet
  <2>1. /\ UNCHANGED <<conn, cs, pc, slot, sock, sent, ls>> /\ ls \in Socket
        /\ lpc \in {"greeting", "logresp"}
        /\ lpc' = IF lpc = "greeting" THEN "logresp" ELSE "publish"
        /\ \A s \in Socket : s # ls => got'[s] = got[s]
        /\ conn[ls] # "closed" /\ \A c \in Slot : cs[c] # ls
        /\ \A t \in Thread : pc[t] = "send" => sock[t] # ls
        /\ sent \in Nat
    BY <1>3 DEF Greet, table, threads, packets, TypeOK, SlotInv, OwnerInv
  <2>2. /\ Len(got[ls]) <= IF lpc = "greeting" THEN 0 ELSE 1
        /\ conn[ls] = "open" => Len(got[ls]) = IF lpc = "greeting" THEN 0 ELSE 1
        /\ got[ls] \in Seq(0..MaxPackets)
        /\ \A k \in DOMAIN got[ls] : got[ls][k] = 0
    BY <2>1 DEF StreamInv, TypeOK
  <2>3. /\ Len(got'[ls]) <= IF lpc = "greeting" THEN 1 ELSE 2
        /\ conn[ls] = "open" => Len(got'[ls]) = IF lpc = "greeting" THEN 1 ELSE 2
        /\ \A k \in DOMAIN got'[ls] : got'[ls][k] = 0
        /\ got'[ls] \in Seq(0..MaxPackets)
    <3>1. CASE conn[ls] = "open"
      <4>1. got'[ls] = Append(got[ls], 0) BY <1>3, <2>1, <3>1 DEF Greet, TypeOK
      <4> QED BY <2>1, <2>2, <3>1, <4>1
    <3>2. CASE conn[ls] # "open"
      <4>1. got'[ls] = got[ls] BY <1>3, <3>2 DEF Greet
      <4> QED BY <2>1, <2>2, <3>2, <4>1
    <3> QED BY <3>1, <3>2
  <2>4. \A s \in Socket : s # ls => (Has(s)' <=> Has(s)) BY <2>1 DEF Has
  <2>5. pc[UDPListener] # "idle" => ~Has(ls)' BY <2>1, <2>3 DEF Has, SlotInv
  <2>6. \A k \in DOMAIN got'[ls] : got'[ls][k] <= sent BY <2>1, <2>3
  <2>7. StreamInv'
    BY <2>1, <2>3, <2>4, <2>5, <2>6 DEF StreamInv
  <2>8. Shape(got'[ls]) BY <2>3 DEF Shape
  <2> QED BY <2>1, <2>7, <2>8
<1>4. CASE Publish
  <2>1. /\ UNCHANGED <<got, conn, pc, slot, sock, sent>> /\ lpc' = "free"
        /\ ls \in Socket /\ lpc = "publish"
        /\ \A c \in Slot : cs'[c] \in {cs[c], ls}
    BY <1>4 DEF Publish, network, threads, packets, TypeOK, SlotInv
  <2>2. /\ \A k \in DOMAIN got[ls] : got[ls][k] = 0
        /\ conn[ls] = "open" => Len(got[ls]) = 2
    BY <2>1 DEF StreamInv
  <2>3. pc[UDPListener] # "idle" => ~Has(ls)
    BY <2>2 DEF Has, SlotInv
  <2>4. \A u \in Socket : Has(u)' <=> Has(u) BY <2>1 DEF Has
  <2> QED BY SMTT(30), <2>1, <2>2, <2>3, <2>4 DEF StreamInv
<1> QED BY <1>1, <1>2, <1>3, <1>4 DEF ListenerStep

(* AprsForwardPacket: the new packet is one nobody has.                    *)
LEMMA ForwardStream ==
    ASSUME TypeOK, SlotInv, OwnerInv, StreamInv, AprsForwardPacket \/ ForwardTest
    PROVE  StreamInv' /\ got' = got
<1>1. CASE AprsForwardPacket
  <2>1. /\ UNCHANGED <<got, conn, cs, slot, sock, lpc, ls>>
        /\ sent' = sent + 1 /\ sent \in Nat
        /\ \A t \in Thread : pc'[t] = "send" => pc[t] = "send"
    BY <1>1 DEF AprsForwardPacket, Goto, table, network, listener, TypeOK
  <2>2. \A s \in Socket : \A k \in DOMAIN got[s] :
           got[s][k] \in Nat /\ got[s][k] <= sent
    BY DEF StreamInv, TypeOK
  <2>3. \A s \in Socket : \A k \in DOMAIN got[s] :
           got[s][k] <= sent + 1 /\ got[s][k] # sent + 1
    BY <2>1, <2>2
  <2>4. \A s \in Socket : ~Has(s)' BY <2>1, <2>3 DEF Has
  <2> QED BY <2>1, <2>3, <2>4 DEF StreamInv
<1>2. CASE ForwardTest
  <2>1. /\ UNCHANGED <<got, conn, cs, sock, lpc, ls, sent>>
        /\ \A t \in Thread : pc'[t] = "send" => pc[t] = "send"
        /\ pc[UDPListener] = "test"
        /\ pc'[UDPListener] # "idle" =>
              slot'[UDPListener] \in {slot[UDPListener], slot[UDPListener] + 1}
        /\ slot[UDPListener] \in Nat
    BY <1>2 DEF ForwardTest, Goto, table, network, listener, packets, TypeOK
  <2>2. \A u \in Socket : Has(u)' <=> Has(u) BY <2>1 DEF Has
  <2>3. ASSUME pc'[UDPListener] # "idle", NEW s \in Socket, Has(s),
               NEW c \in Slot, cs[c] = s
        PROVE  c < slot'[UDPListener]
    <3>1. c < slot[UDPListener] BY <2>1, <2>3 DEF StreamInv
    <3> QED BY <2>1, <2>3, <3>1
  <2>4. pc'[UDPListener] # "send" BY <2>1
  <2> QED BY <2>1, <2>2, <2>3, <2>4 DEF StreamInv
<1> QED BY <1>1, <1>2

(* A thread calls send() or recv().                                        *)
LEMMA CallStream ==
    ASSUME TypeOK, SlotInv, OwnerInv, StreamInv, NEW t \in Thread, CallSocket(t)
    PROVE  StreamInv' /\ got' = got
<1>1. /\ UNCHANGED <<got, conn, cs, slot, lpc, ls, sent>>
      /\ sock'[t] = cs[slot[t]] /\ slot[t] \in Slot /\ pc[t] = "call"
      /\ \A u \in Thread : u # t => sock'[u] = sock[u] /\ pc'[u] = pc[u]
      /\ pc'[t] # "idle" /\ (pc'[t] = "send" => t = UDPListener)
  BY DEF CallSocket, Goto, table, network, listener, packets, TypeOK, SlotInv
<1>2. \A u \in Socket : Has(u)' <=> Has(u) BY <1>1 DEF Has
<1>3. \A s \in Socket : conn[s] = "open" /\ Len(got[s]) < 2 =>
         \A u \in Thread : pc'[u] = "send" => sock'[u] # s
  BY <1>1 DEF StreamInv
<1>4. \A s \in Socket :
         pc'[UDPListener] # "idle" /\ Has(s) /\ pc'[UDPListener] = "send" =>
            sock'[UDPListener] # s
  <2>1. slot[t] \in Int BY <1>1
  <2>2. ASSUME NEW s \in Socket, Has(s), t = UDPListener PROVE cs[slot[t]] # s
    BY <1>1, <2>1, <2>2 DEF StreamInv
  <2> QED BY <1>1, <2>2 DEF StreamInv
<1>5. \A s \in Socket : pc'[UDPListener] # "idle" /\ Has(s) =>
         \A c \in Slot : cs[c] = s => c < slot[UDPListener]
  BY <1>1 DEF StreamInv
<1> QED BY <1>1, <1>2, <1>3, <1>4, <1>5 DEF StreamInv

(* A client is sent a packet that is newer than all it was sent before.    *)
LEMMA SendStream ==
    ASSUME TypeOK, SlotInv, OwnerInv, StreamInv, Send,
           \A s \in Socket : Shape(got[s])
    PROVE  StreamInv' /\ \A s \in Socket : Shape(got'[s])
<1>0. PICK s \in Socket : s = sock[UDPListener] BY DEF Send, SlotInv
<1>1. /\ UNCHANGED <<conn, cs, lpc, ls, sent>>
      /\ pc[UDPListener] = "send" /\ pc'[UDPListener] \in {"test", "failed"}
      /\ \A t \in Thread : t # UDPListener => pc'[t] = pc[t]
      /\ slot[UDPListener] \in Nat /\ sent \in 1..MaxPackets
  BY DEF Send, Goto, table, listener, packets, TypeOK, SlotInv
<1>2. /\ \A c \in Slot : cs[c] = s => c = slot[UDPListener]
      /\ lpc \in Greeting => ls # s
  BY <1>0, <1>1 DEF OwnerInv, SlotInv, Greeting
<1>3. CASE conn[s] = "open"
  <2>1. /\ got'[s] = Append(got[s], sent) /\ got[s] \in Seq(0..MaxPackets)
        /\ \A u \in Socket : u # s => got'[u] = got[u]
        /\ slot'[UDPListener] = slot[UDPListener] + 1
        /\ pc'[UDPListener] = "test"
    BY <1>0, <1>3 DEF Send, Goto, Continue, TypeOK
  <2>2. Len(got[s]) >= 2 BY <1>0, <1>1, <1>3, <2>1 DEF StreamInv
  <2>3. \A k \in DOMAIN got[s] : got[s][k] \in Nat /\ got[s][k] < sent
    <3>1. ~Has(s) BY <1>0, <1>1 DEF StreamInv
    <3>2. \A k \in DOMAIN got[s] : got[s][k] \in Nat /\ got[s][k] <= sent
             /\ got[s][k] # sent
      BY <2>1, <3>1 DEF StreamInv, Has
    <3> QED BY <1>1, <3>2
  <2>4. Shape(got'[s])
    <3>1. /\ DOMAIN got'[s] = 1..(Len(got[s]) + 1) /\ Len(got[s]) \in Nat
          /\ DOMAIN got[s] = 1..Len(got[s])
          /\ got'[s][Len(got[s]) + 1] = sent
          /\ \A k \in DOMAIN got[s] : got'[s][k] = got[s][k]
      BY <2>1
    <3>2. Shape(got[s]) OBVIOUS
    <3>3. ASSUME NEW j \in DOMAIN got'[s], NEW k \in DOMAIN got'[s]
          PROVE  /\ j <= 2 <=> got'[s][j] = 0
                 /\ 2 < j /\ j < k => got'[s][j] < got'[s][k]
      <4>1. CASE j \in DOMAIN got[s] /\ k \in DOMAIN got[s]
        BY <3>1, <3>2, <4>1 DEF Shape
      <4>2. CASE j = Len(got[s]) + 1
        BY <1>1, <2>2, <3>1, <3>3, <4>2
      <4>3. CASE j \in DOMAIN got[s] /\ k = Len(got[s]) + 1
        <5>1. j <= 2 <=> got[s][j] = 0 BY <3>2, <4>3 DEF Shape
        <5> QED BY <2>3, <3>1, <4>3, <5>1
      <4> QED BY <3>1, <3>3, <4>1, <4>2, <4>3
    <3> QED BY <3>3 DEF Shape
  <2>5. \A k \in DOMAIN got'[s] : got'[s][k] <= sent BY <1>1, <2>1, <2>3
  <2>6. Len(got'[s]) >= 2 /\ ~(Len(got'[s]) < 2) BY <2>1, <2>2
  <2>7. \A u \in Socket : u # s => (Has(u)' <=> Has(u)) BY <1>1, <2>1 DEF Has
  <2>8. ASSUME NEW u \in Socket, Has(u)', NEW c \in Slot, cs[c] = u
        PROVE  c < slot'[UDPListener]
    <3>1. CASE u = s BY <1>1, <1>2, <2>1, <2>8, <3>1
    <3>2. CASE u # s
      <4>1. c < slot[UDPListener] BY <1>1, <2>7, <2>8, <3>2 DEF StreamInv
      <4> QED BY <1>1, <2>1, <4>1
    <3> QED BY <3>1, <3>2
  <2>9. /\ \A u \in Socket : conn'[u] = "closed" => got'[u] = <<>>
        /\ \A u \in Socket : \A k \in DOMAIN got'[u] : got'[u][k] <= sent'
    BY <1>1, <1>3, <2>1, <2>5 DEF StreamInv
  <2>10. \A u \in Socket : conn'[u] = "open" /\ Len(got'[u]) < 2 =>
            /\ \A c \in Slot : cs'[c] # u
            /\ \A t \in Thread : pc'[t] # "send"
    <3>1. \A t \in Thread : pc'[t] # "send" BY <1>1 DEF SlotInv
    <3>2. ASSUME NEW u \in Socket, conn'[u] = "open", Len(got'[u]) < 2
          PROVE  \A c \in Slot : cs'[c] # u
      <4>1. u # s BY <2>6, <3>2
      <4> QED BY <1>1, <2>1, <3>2, <4>1 DEF StreamInv
    <3> QED BY <3>1, <3>2
  <2>11. lpc \in Greeting => got'[ls] = got[ls]
    BY <1>2, <2>1 DEF SlotInv, Greeting
  <2>12. StreamInv'
    BY <1>1, <2>1, <2>8, <2>9, <2>10, <2>11 DEF StreamInv, Greeting
  <2> QED BY <2>1, <2>4, <2>12
<1>4. CASE conn[s] # "open"
  <2>1. /\ got' = got
        /\ slot'[UDPListener] \in {slot[UDPListener], slot[UDPListener] + 1}
    BY <1>0, <1>4 DEF Send, Continue, TypeOK
  <2>2. \A u \in Socket : Has(u)' <=> Has(u) BY <1>1, <2>1 DEF Has
  <2>3. ASSUME NEW u \in Socket, Has(u), NEW c \in Slot, cs[c] = u
        PROVE  c < slot'[UDPListener]
    <3>1. c < slot[UDPListener] BY <1>1, <2>3 DEF StreamInv
    <3> QED BY <1>1, <2>1, <3>1
  <2>4. \A t \in Thread : pc'[t] # "send" BY <1>1 DEF SlotInv
  <2> QED BY <1>1, <2>1, <2>2, <2>3, <2>4 DEF StreamInv
<1> QED BY <1>3, <1>4

(* A closed connection's stream is over.                                   *)
LEMMA CloseStream ==
    ASSUME TypeOK, SlotInv, OwnerInv, StreamInv, NEW t \in Thread, CloseSocket(t),
           \A s \in Socket : Shape(got[s])
    PROVE  StreamInv' /\ \A s \in Socket : Shape(got'[s])
<1>1. /\ UNCHANGED <<cs, lpc, ls, sent>> /\ pc[t] = "close" /\ pc'[t] = "test"
      /\ slot'[UDPListener] \in {slot[UDPListener], slot[UDPListener] + 1}
      /\ slot[UDPListener] \in Nat
      /\ \A u \in Thread : pc'[u] = "send" =>
            u # t /\ pc[u] = "send" /\ sock'[u] = sock[u]
      /\ pc[UDPListener] = "idle" => pc'[UDPListener] = "idle"
  BY DEF CloseSocket, Continue, table, listener, TypeOK
<1>2. \A s \in Socket :
         IF s = sock[t] THEN got'[s] = <<>> /\ conn'[s] = "closed"
         ELSE got'[s] = got[s] /\ conn'[s] = conn[s]
  BY DEF CloseSocket
<1>3. lpc \in Greeting => ls # sock[t] /\ ls \in Socket
  BY <1>1 DEF OwnerInv, SlotInv, Greeting
<1>4. \A u \in Socket : Has(u)' => Has(u) BY <1>1, <1>2 DEF Has
<1>5. ASSUME NEW u \in Socket, pc'[UDPListener] # "idle", Has(u)', NEW c \in Slot,
             cs[c] = u
      PROVE  c < slot'[UDPListener]
  <2>1. c < slot[UDPListener] BY <1>1, <1>4, <1>5 DEF StreamInv
  <2> QED BY <1>1, <2>1
<1>6. \A u \in Socket :
         pc'[UDPListener] # "idle" /\ Has(u)' /\ pc'[UDPListener] = "send" =>
            sock'[UDPListener] # u
  BY <1>1, <1>4 DEF StreamInv
<1>7. /\ \A u \in Socket : conn'[u] = "closed" => got'[u] = <<>>
      /\ \A u \in Socket : \A k \in DOMAIN got'[u] : got'[u][k] <= sent'
  BY <1>1, <1>2 DEF StreamInv
<1>8. \A u \in Socket : conn'[u] = "open" /\ Len(got'[u]) < 2 =>
         /\ \A c \in Slot : cs'[c] # u
         /\ \A v \in Thread : pc'[v] = "send" => sock'[v] # u
  BY <1>1, <1>2 DEF StreamInv
<1>9. lpc \in Greeting => got'[ls] = got[ls] /\ conn'[ls] = conn[ls]
  BY <1>2, <1>3
<1>10. StreamInv' BY <1>1, <1>5, <1>6, <1>7, <1>8, <1>9 DEF StreamInv, Greeting
<1>11. \A s \in Socket : Shape(got'[s]) BY <1>2 DEF Shape
<1> QED BY <1>10, <1>11

(* Every step keeps the streams in shape.                                  *)
LEMMA StreamStep ==
    ASSUME TypeOK, SlotInv, OwnerInv, StreamInv, [Next]_vars,
           \A s \in Socket : Shape(got[s])
    PROVE  StreamInv' /\ \A s \in Socket : Shape(got'[s])
<1>1. CASE UNCHANGED vars
  BY <1>1 DEF vars, table, network, listener, threads, packets, StreamInv, Has
<1>2. ASSUME NEW t \in Thread, ReadName(t) \/ TakeSocket(t) \/ FreeSlot(t)
      PROVE  StreamInv' /\ got' = got
  <2>1. /\ UNCHANGED <<got, conn, sent, lpc, ls, slot>>
        /\ \A c \in Slot : cs'[c] \in {cs[c], NoSocket}
        /\ pc[t] # "idle" /\ pc'[t] # "send"
        /\ \A u \in Thread : u # t => pc'[u] = pc[u] /\ sock'[u] = sock[u]
    BY <1>2 DEF ReadName, TakeSocket, FreeSlot, Goto, table, network, listener,
       packets, TypeOK
  <2>2. lpc' \in Greeting => ls \in Socket BY <2>1 DEF SlotInv, Greeting
  <2> QED BY <2>1, <2>2, QuietStep
<1>3. ASSUME NEW r \in Reader, ReadTest(r) \/ Recv(r) PROVE StreamInv' /\ got' = got
  <2>1. /\ UNCHANGED <<got, conn, sent, lpc, ls, cs>>
        /\ pc'[r] # "send" /\ r # UDPListener
        /\ slot'[UDPListener] = slot[UDPListener]
        /\ \A u \in Thread : u # r => pc'[u] = pc[u] /\ sock'[u] = sock[u]
    BY <1>3 DEF ReadTest, Recv, Goto, table, network, listener, packets, TypeOK
  <2>2. lpc' \in Greeting => ls \in Socket BY <2>1 DEF SlotInv, Greeting
  <2> QED BY <2>1, <2>2, QuietStep
<1>4. ASSUME NEW s \in Socket, Leave(s) PROVE StreamInv' /\ got' = got
  <2>1. /\ UNCHANGED <<got, sent, lpc, ls, cs, pc, slot, sock>>
        /\ \A u \in Socket : /\ conn'[u] = "closed" => conn[u] = "closed"
                             /\ conn'[u] = "open" => conn[u] = "open"
    BY <1>4 DEF Leave, table, listener, threads, TypeOK
  <2>2. lpc' \in Greeting => ls \in Socket BY <2>1 DEF SlotInv, Greeting
  <2> QED BY <2>1, <2>2, QuietStep
<1> QED
  BY <1>1, <1>2, <1>3, <1>4, Steps, ListenerStream, ForwardStream, CallStream,
     SendStream, CloseStream DEF Disconnect

-----------------------------------------------------------------------------
(* IInv holds of the initial states and is kept by every step.             *)
THEOREM Invariance == Spec => []IInv
<1>1. Init => IInv
  <2> SUFFICES ASSUME Init PROVE IInv
    OBVIOUS
  <2>1. TypeOK
    <3>1. /\ <<>> \in Seq(0..MaxPackets)
          /\ 1 \in 1..(MAX_CLIENT + 1)
          /\ 0 \in 0..MaxPackets
      BY ServerBounds
    <3>2. /\ got \in [Socket -> Seq(0..MaxPackets)]
          /\ slot \in [Thread -> 1..(MAX_CLIENT + 1)]
          /\ lslot \in 1..(MAX_CLIENT + 1)
          /\ sent \in 0..MaxPackets
      BY <3>1 DEF Init
    <3>3. /\ cs \in [Slot -> Socket \cup {NoSocket}]
          /\ p \in [Slot -> {"null", "freed", "set"}]
          /\ conn \in [Socket -> ConnState]
          /\ lpc \in ListenerPc
          /\ ls \in Socket \cup {NoSocket}
          /\ pc \in [Thread -> ThreadPc]
          /\ sock \in [Thread -> Socket \cup {NoSocket}]
      BY DEF Init, ConnState, ListenerPc, ThreadPc
    <3>4. /\ due \subseteq Socket /\ cutOff \subseteq due
          /\ stray \in BOOLEAN /\ running \in BOOLEAN
      BY DEF Init
    <3> QED BY <3>2, <3>3, <3>4 DEF TypeOK
  <2>2. SlotInv BY DEF Init, SlotInv
  <2>3. DueInv BY DEF Init, DueInv
  <2>4. OwnerInv BY DEF Init, OwnerInv
  <2>5. StreamInv BY DEF Init, StreamInv
  <2>6. ClientStream BY DEF Init, ClientStream
  <2> QED BY <2>1, <2>2, <2>3, <2>4, <2>5, <2>6 DEF IInv, OneStream
<1>2. IInv /\ [Next]_vars => IInv'
  <2> SUFFICES ASSUME IInv, [Next]_vars PROVE IInv'
    OBVIOUS
  <2>1. TypeOK' /\ SlotInv' /\ DueInv' BY SlotStep, DueStep DEF IInv
  <2>2. ASSUME ~stray' PROVE OwnerInv' /\ StreamInv' /\ \A s \in Socket : Shape(got'[s])
    <3>1. ~stray
      BY <2>2, Steps DEF ListenerStep, Select, Scan, Accept, Greet, Publish,
         FreeName, StartReader, AprsForwardPacket, ForwardTest, Send, CallSocket,
         Disconnect, ReadName, TakeSocket, FreeSlot, CloseSocket, ReadTest, Recv,
         Leave, network, vars
    <3>2. \A s \in Socket : Shape(got[s]) BY <3>1 DEF IInv, ClientStream, Shape
    <3> QED BY <2>2, <3>1, <3>2, OwnerStep, StreamStep DEF IInv, OneStream
  <2> QED BY <2>1, <2>2 DEF IInv, OneStream, ClientStream, Shape
<1> QED BY <1>1, <1>2, PTL DEF Spec

(* Every variable keeps its type, whatever the number of slots, handles,   *)
(* reader threads and packets.                                             *)
THEOREM TypeCorrect == Spec => []TypeOK
BY Invariance, PTL DEF IInv

(* No client loses its slot to another.                                    *)
THEOREM SlotsAreKept == Spec => NoneDisplaced
<1>1. IInv /\ [Next]_vars =>
         [\A c \in Slot : cs[c] # NoSocket => cs'[c] \in {cs[c], NoSocket}]_cs
  BY SlotKept DEF IInv
<1> QED BY <1>1, Invariance, PTL DEF Spec, NoneDisplaced

(* Greeting, login response, then packets in order, until a handle that is *)
(* still to be closed is reused.                                           *)
THEOREM StreamsInOrder == Spec => []ClientStream
BY Invariance, PTL DEF IInv

(* AprsForwardPacket sends its packet to every connection that was in a    *)
(* slot when the packet came and is still open, but for one that lost the  *)
(* slot to the Disconnect of another connection.                           *)
THEOREM ServedAlways == Spec => []EveryClientServed
<1>1. IInv => EveryClientServed
  <2> SUFFICES ASSUME IInv, pc[UDPListener] = "idle", NEW s \in due \ cutOff
               PROVE  \E k \in DOMAIN got[s] : got[s][k] = sent
    BY DEF EveryClientServed
  <2> QED BY DEF IInv, DueInv, Yet, Has
<1> QED BY <1>1, Invariance, PTL
=============================================================================
