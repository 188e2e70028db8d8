-------------------------- MODULE PacketStoreProofs --------------------------
(***************************************************************************)
(* Proofs about PacketStore, for every value of its constants: the types,  *)
(* and that no PositionIndex stored in a Station, Packet or Hop row is     *)
(* left dangling by the purger.                                            *)
(***************************************************************************)
EXTENDS PacketStore, TLAPS

(* The inductive invariant.  ParseLock is owned by the one handler that is *)
(* not idle; the lock of PosTable is held exactly while the purger works   *)
(* on its hash.                                                            *)
PurgingPositions == {"scanStations", "scanPackets", "scanHops", "deletePos"}

LocksInv ==
    /\ \A h \in Handler : pc[h] # "idle" <=> parseLock = h
    /\ posLock <=> ppc \in PurgingPositions
    /\ ~posLock => hash = {}

(* What is in the hash is still in the table, and still old: touching it   *)
(* takes the lock.                                                         *)
HashInv == \A i \in hash : i \in LivePos /\ pos[i].old

(* A row whose position is in the hash is still to be reached by a scan.   *)
ScanInv ==
    /\ \A c \in Call : station[c] # NoRow /\ station[c].pos \in hash =>
          ppc = "scanStations" /\ c \in scan
    /\ \A i \in LivePkt : packet[i].pos \in hash =>
          ppc \in {"scanStations", "scanPackets"}
    /\ \A k \in hops : k.pos \in hash => ppc # "deletePos"

(* A position a handler has touched and not yet stored is in the table and *)
(* not old, so it never enters the hash.                                   *)
Fresh(i) == i \in LivePos /\ ~pos[i].old

HoldOk(h) ==
    /\ pc[h] # "idle" => req[h] \in Input
    /\ pc[h] \in {"getPos", "getPos2", "station"} => req[h].where \in Coord
    /\ pc[h] \in {"idle", "getPos", "touch"} => pktPos[h] = 0
    /\ pc[h] \in Holding /\ pktPos[h] # 0 => Fresh(pktPos[h])
    /\ pc[h] = "station" => /\ stnPos[h] # 0 /\ Fresh(stnPos[h])
                            /\ pos[stnPos[h]].where = req[h].where

HoldInv == \A h \in Handler : HoldOk(h)

(* Between reading a station's position and storing it in a hop, ParseLock *)
(* keeps the station where it is, and so keeps its position referenced.    *)
HopOk(h) ==
    /\ pc[h] \in {"insert", "hops", "putHop"} => pktIdx[h] # 0
    /\ pc[h] = "putHop" =>
          /\ todo[h] # <<>>
          /\ hopPos[h] # 0 => /\ station[Head(todo[h])] # NoRow
                              /\ station[Head(todo[h])].pos = hopPos[h]

HopInv == \A h \in Handler : HopOk(h)

(* No index at or above a generator's next one is in use.                  *)
NextInv == 
    /\ nextPos # 0 => \A i \in LivePos : i < nextPos
    /\ nextPkt # 0 => \A i \in LivePkt : i < nextPkt
    /\ \A h \in Handler : pc[h] = "insert" =>
          pktIdx[h] \notin LivePkt /\ pktIdx[h] < nextPkt

IInv == /\ TypeOK /\ LocksInv /\ HashInv /\ ScanInv /\ HoldInv /\ HopInv
        /\ NextInv /\ RefsResolve /\ StationAtLast /\ OneRowPerCoordinate

-----------------------------------------------------------------------------

USE DEF PosRow, StationRow, PacketRow, HopRow, PosIndex, PktIndex, LivePos, LivePkt

(* What a call of AprsGetPositionIndex gives its caller: the index of a    *)
(* position row with the coordinate asked for, just touched.  In reach of  *)
(* the invariant the insert loop succeeds at its first try.                *)
LEMMA GetPositionIndexFacts ==
    ASSUME IInv, NEW w \in Coord, NEW i \in PosIndex, GetPositionIndex(w, i)
    PROVE  /\ pos' \in [PosIndex -> PosRow \cup {NoRow}]
           /\ pos'[i] = [where |-> w, old |-> FALSE]
           /\ pos'[i] # NoRow
           /\ \A j \in PosIndex : j # i => pos'[j] = pos[j]
           /\ i \in LivePos => pos[i].where = w
           /\ \A j \in LivePos : pos[j].where = w => j = i
           /\ nextPos' \in Nat
           /\ nextPos' # 0 => \A j \in LivePos' : j < nextPos'
           /\ hash = {} /\ ~posLock
<1> DEFINE row == [where |-> w, old |-> FALSE]
<1>1. /\ hash = {} /\ ~posLock
      /\ pos \in [PosIndex -> PosRow \cup {NoRow}]
      /\ nextPos \in Nat
  BY DEF IInv, LocksInv, TypeOK, GetPositionIndex
<1>r. row \in PosRow OBVIOUS
<1>n. row # NoRow BY <1>r, NoRowAssumption
<1>2. CASE i \in At(w) /\ pos' = [pos EXCEPT ![i] = row] /\ UNCHANGED nextPos
  <2>1. i \in LivePos /\ pos[i].where = w BY <1>2 DEF At
  <2>2. LivePos' = LivePos BY <1>1, <1>r, <1>n, <1>2, <2>1
  <2>3. \A j \in LivePos : pos[j].where = w => j = i
    BY <2>1 DEF IInv, OneRowPerCoordinate
  <2> QED BY <1>1, <1>r, <1>n, <1>2, <2>1, <2>2, <2>3 DEF IInv, NextInv
<1>3. CASE /\ At(w) = {} /\ InsertIndex(i) /\ nextPos' = i + 1
           /\ pos' = IF i \in LivePos THEN pos ELSE [pos EXCEPT ![i] = row]
  <2>1. PICK first \in PosIndex :
            /\ FirstIndex(nextPos, LivePos, first)
            /\ i \in first..(first + Retries - 1)
            /\ \A j \in first..(i - 1) : j \in LivePos
            /\ i \in LivePos => i = first + Retries - 1
    BY <1>3 DEF InsertIndex
  <2>2. \A j \in LivePos : j < first
    BY <2>1 DEF FirstIndex, IInv, NextInv
  <2>3. i = first BY <2>1, <2>2, BoundsAssumption
  <2>4. i \notin LivePos BY <2>2, <2>3, BoundsAssumption
  <2>5. pos' = [pos EXCEPT ![i] = row] BY <1>3, <2>4
  <2>6. \A j \in LivePos' : j < nextPos'
    BY <1>1, <1>r, <1>n, <1>3, <2>2, <2>3, <2>5, BoundsAssumption
  <2>7. \A j \in LivePos : pos[j].where # w BY <1>3 DEF At
  <2> QED BY <1>1, <1>r, <1>n, <1>3, <2>4, <2>5, <2>6, <2>7, BoundsAssumption
<1> QED BY <1>2, <1>3 DEF GetPositionIndex

(* AprsInsertHops stores calls of the path only.                            *)
LEMMA HopOrderType ==
    ASSUME NEW path \in Seq(Call) PROVE HopOrder(path) \in Seq(Call)
<1> DEFINE n == Len(path)
           back == [k \in 1..n |-> path[n + 1 - k]]
<1>1. n \in Nat /\ back \in [1..n -> Call] OBVIOUS
<1>2. CASE n < 2 BY <1>1, <1>2 DEF HopOrder
<1>3. CASE n >= 2
  <2>1. [k \in 1..(n - 1) |-> IF k = n - 1 THEN back[n] ELSE back[k]]
            \in [1..(n - 1) -> Call]
    BY <1>1, <1>3
  <2>2. n - 1 \in Nat BY <1>1, <1>3
  <2> QED BY <1>3, <2>1, <2>2 DEF HopOrder
<1> QED BY <1>1, <1>2, <1>3

(* A handler takes ParseLock; it holds no index yet.                       *)
LEMMA BeginStep ==
    ASSUME IInv, NEW h \in Handler,
           NEW r \in Input, Begin(h, r) PROVE IInv'
<1> USE DEF Begin, tables, statics, locks, handlers, locals, purger, Goto
<1>i. \A g \in Handler : g # h => pc[g] = "idle" /\ pc'[g] = "idle"
  BY NoneAssumption DEF IInv, TypeOK, LocksInv
<1>1. TypeOK' BY BoundsAssumption DEF IInv, TypeOK, HandlerPc, PurgerPc
<1>2. LocksInv'
  BY NoneAssumption DEF IInv, TypeOK, LocksInv, PurgingPositions
<1>3. HashInv' BY DEF IInv, HashInv, LocksInv, PurgingPositions
<1>4. ScanInv' BY DEF IInv, ScanInv, LocksInv, PurgingPositions
<1>5. HoldInv'
  <2>1. HoldOk(h)'
    BY InputAssumption
    DEF IInv, HoldInv, HoldOk, Holding, TypeOK, PacketInput
  <2> QED BY <1>i, <2>1 DEF IInv, HoldInv, HoldOk, Holding
<1>6. HopInv' BY <1>i DEF IInv, HopInv, HopOk, TypeOK
<1>7. NextInv' BY <1>i DEF IInv, NextInv, TypeOK
<1>8. RefsResolve'
  BY DEF IInv, RefsResolve, StationRefsResolve, PacketRefsResolve,
     HopRefsResolve, Resolves
<1>9. StationAtLast' BY DEF IInv, StationAtLast
<1>10. OneRowPerCoordinate' BY DEF IInv, OneRowPerCoordinate
<1> QED BY <1>1, <1>2, <1>3, <1>4, <1>5, <1>6, <1>7, <1>8, <1>9, <1>10 DEF IInv

(* The index of the packet's position is fresh: the lock was free.         *)
LEMMA GetPacketPositionStep ==
    ASSUME IInv, NEW h \in Handler, GetPacketPosition(h) PROVE IInv'
<1> USE DEF GetPacketPosition, tables, statics, locks, handlers, locals, purger, Goto
<1> DEFINE w == req[h].where
<1>0. PICK i \in PosIndex : /\ GetPositionIndex(w, i)
                            /\ pktPos' = [pktPos EXCEPT ![h] = i]
  OBVIOUS
<1>a. w \in Coord BY DEF IInv, HoldInv, HoldOk
<1>b. /\ pos' \in [PosIndex -> PosRow \cup {NoRow}]
      /\ pos'[i] = [where |-> w, old |-> FALSE]
      /\ pos'[i] # NoRow
      /\ \A j \in PosIndex : j # i => pos'[j] = pos[j]
      /\ i \in LivePos => pos[i].where = w
      /\ \A j \in LivePos : pos[j].where = w => j = i
      /\ nextPos' \in Nat
      /\ nextPos' # 0 => \A j \in LivePos' : j < nextPos'
      /\ hash = {} /\ ~posLock
  BY <1>0, <1>a, GetPositionIndexFacts
<1>i. \A g \in Handler : g # h => pc[g] = "idle" /\ pc'[g] = "idle"
  BY NoneAssumption DEF IInv, TypeOK, LocksInv
<1>1. TypeOK'
  <2>1. pktPos' \in [Handler -> 0..MaxPos]
    BY SMTT(30), <1>0, BoundsAssumption DEF IInv, TypeOK
  <2>2. pc' \in [Handler -> HandlerPc] BY DEF IInv, TypeOK, HandlerPc
  <2> QED BY <1>b, <2>1, <2>2 DEF IInv, TypeOK
<1>2. LocksInv'
  BY NoneAssumption DEF IInv, TypeOK, LocksInv, PurgingPositions
<1>3. HashInv' BY <1>b DEF HashInv
<1>4. ScanInv' BY <1>b DEF ScanInv
<1>5. HoldInv'
  <2>1. HoldOk(h)'
    BY <1>0, <1>a, <1>b DEF IInv, HoldInv, HoldOk, Fresh, Holding, TypeOK
  <2> QED BY <1>i, <2>1 DEF IInv, HoldInv, HoldOk, Holding
<1>6. HopInv' BY <1>i DEF IInv, HopInv, HopOk, TypeOK
<1>7. NextInv' BY <1>b, <1>i DEF IInv, NextInv, TypeOK
<1>8. RefsResolve'
  BY <1>b DEF IInv, TypeOK, RefsResolve, StationRefsResolve,
     PacketRefsResolve, HopRefsResolve, Resolves
<1>9. StationAtLast' BY SMTT(30), <1>b DEF IInv, StationAtLast, TypeOK
<1>10. OneRowPerCoordinate'
  <2> SUFFICES ASSUME NEW a \in LivePos', NEW b \in LivePos',
                      pos'[a].where = pos'[b].where
               PROVE  a = b
    BY DEF OneRowPerCoordinate
  <2> QED BY <1>b DEF IInv, OneRowPerCoordinate
<1> QED BY <1>1, <1>2, <1>3, <1>4, <1>5, <1>6, <1>7, <1>8, <1>9, <1>10 DEF IInv

(* So is that of the station's, which is of the same coordinate.           *)
LEMMA GetStationPositionStep ==
    ASSUME IInv, NEW h \in Handler, GetStationPosition(h) PROVE IInv'
<1> USE DEF GetStationPosition, tables, statics, locks, handlers, locals, purger, Goto
<1> DEFINE w == req[h].where
<1>0. PICK i \in PosIndex : /\ GetPositionIndex(w, i)
                            /\ stnPos' = [stnPos EXCEPT ![h] = i]
  OBVIOUS
<1>a. w \in Coord BY DEF IInv, HoldInv, HoldOk
<1>b. /\ pos' \in [PosIndex -> PosRow \cup {NoRow}]
      /\ pos'[i] = [where |-> w, old |-> FALSE]
      /\ pos'[i] # NoRow
      /\ \A j \in PosIndex : j # i => pos'[j] = pos[j]
      /\ i \in LivePos => pos[i].where = w
      /\ \A j \in LivePos : pos[j].where = w => j = i
      /\ nextPos' \in Nat
      /\ nextPos' # 0 => \A j \in LivePos' : j < nextPos'
      /\ hash = {} /\ ~posLock
  BY <1>0, <1>a, GetPositionIndexFacts
<1>i. \A g \in Handler : g # h => pc[g] = "idle" /\ pc'[g] = "idle"
  BY NoneAssumption DEF IInv, TypeOK, LocksInv
<1>1. TypeOK'
  <2>1. stnPos' \in [Handler -> 0..MaxPos]
    BY SMTT(30), <1>0, BoundsAssumption DEF IInv, TypeOK
  <2>2. pc' \in [Handler -> HandlerPc] BY DEF IInv, TypeOK, HandlerPc
  <2> QED BY <1>b, <2>1, <2>2 DEF IInv, TypeOK
<1>2. LocksInv'
  BY NoneAssumption DEF IInv, TypeOK, LocksInv, PurgingPositions
<1>3. HashInv' BY <1>b DEF HashInv
<1>4. ScanInv' BY <1>b DEF ScanInv
<1>5. HoldInv'
  <2>1. HoldOk(h)'
    BY SMTT(30), <1>0, <1>a, <1>b
    DEF IInv, HoldInv, HoldOk, Fresh, Holding, TypeOK
  <2> QED BY <1>i, <2>1 DEF IInv, HoldInv, HoldOk, Holding
<1>6. HopInv' BY <1>i DEF IInv, HopInv, HopOk, TypeOK
<1>7. NextInv' BY <1>b, <1>i DEF IInv, NextInv, TypeOK
<1>8. RefsResolve'
  BY <1>b DEF IInv, TypeOK, RefsResolve, StationRefsResolve,
     PacketRefsResolve, HopRefsResolve, Resolves
<1>9. StationAtLast' BY SMTT(30), <1>b DEF IInv, StationAtLast, TypeOK
<1>10. OneRowPerCoordinate'
  <2> SUFFICES ASSUME NEW a \in LivePos', NEW b \in LivePos',
                      pos'[a].where = pos'[b].where
               PROVE  a = b
    BY DEF OneRowPerCoordinate
  <2> QED BY <1>b DEF IInv, OneRowPerCoordinate
<1> QED BY <1>1, <1>2, <1>3, <1>4, <1>5, <1>6, <1>7, <1>8, <1>9, <1>10 DEF IInv

(* The station gets a fresh position, with the coordinate it is at.        *)
LEMMA UpdateStationStep ==
    ASSUME IInv, NEW h \in Handler, UpdateStation(h) PROVE IInv'
<1> USE DEF UpdateStation, tables, statics, locks, handlers, locals, purger, Goto
<1>q. req[h] \in Input /\ req[h] \in PacketInput
  BY InputAssumption DEF IInv, HoldInv, HoldOk
<1> DEFINE c == req[h].obj
           row == [pos |-> stnPos[h], last |-> req[h].where]
<1>r. /\ c \in Call /\ row \in StationRow /\ row # NoRow
      /\ station' = [station EXCEPT ![c] = row]
  BY <1>q, NoRowAssumption DEF IInv, TypeOK, HoldInv, HoldOk, PacketInput
<1>f. Fresh(row.pos) /\ row.pos # 0 /\ pos[row.pos].where = row.last
  BY DEF IInv, HoldInv, HoldOk
<1>i. \A g \in Handler : g # h => pc[g] = "idle" /\ pc'[g] = "idle"
  BY NoneAssumption DEF IInv, TypeOK, LocksInv
<1>1. TypeOK'
  <2>1. station' \in [Call -> StationRow \cup {NoRow}]
    BY <1>r DEF IInv, TypeOK
  <2>2. pc' \in [Handler -> HandlerPc] BY DEF IInv, TypeOK, HandlerPc
  <2> QED BY <2>1, <2>2 DEF IInv, TypeOK
<1>2. LocksInv'
  BY NoneAssumption DEF IInv, TypeOK, LocksInv, PurgingPositions
<1>3. HashInv' BY DEF IInv, HashInv, LocksInv, PurgingPositions
<1>4. ScanInv' BY <1>r, <1>f DEF IInv, TypeOK, ScanInv, HashInv, Fresh
<1>5. HoldInv' BY <1>i DEF IInv, HoldInv, HoldOk, Fresh, Holding, TypeOK
<1>6. HopInv' BY <1>i DEF IInv, HopInv, HopOk, TypeOK
<1>7. NextInv' BY <1>i DEF IInv, NextInv, TypeOK
<1>8. RefsResolve'
  BY <1>r, <1>f DEF IInv, TypeOK, Fresh, RefsResolve, StationRefsResolve,
     PacketRefsResolve, HopRefsResolve, Resolves
<1>9. StationAtLast' BY <1>r, <1>f DEF IInv, TypeOK, Fresh, StationAtLast
<1>10. OneRowPerCoordinate' BY DEF IInv, OneRowPerCoordinate
<1> QED BY <1>1, <1>2, <1>3, <1>4, <1>5, <1>6, <1>7, <1>8, <1>9, <1>10 DEF IInv

(* A station first heard of without a position refers to none.             *)
LEMMA TouchStationStep ==
    ASSUME IInv, NEW h \in Handler, TouchStation(h) PROVE IInv'
<1> USE DEF TouchStation, tables, statics, locks, handlers, locals, purger, Goto
<1>q. req[h] \in Input /\ req[h] \in PacketInput
  BY InputAssumption DEF IInv, HoldInv, HoldOk
<1> DEFINE c == req[h].obj
           row == [pos |-> 0, last |-> NoCoord]
<1>r. /\ c \in Call /\ row \in StationRow /\ row # NoRow /\ row.pos = 0
      /\ station' = station \/ station' = [station EXCEPT ![c] = row]
  BY <1>q, NoRowAssumption, BoundsAssumption DEF PacketInput
<1>i. \A g \in Handler : g # h => pc[g] = "idle" /\ pc'[g] = "idle"
  BY NoneAssumption DEF IInv, TypeOK, LocksInv
<1>1. TypeOK'
  <2>1. station' \in [Call -> StationRow \cup {NoRow}]
    BY <1>r DEF IInv, TypeOK
  <2>2. pc' \in [Handler -> HandlerPc] BY DEF IInv, TypeOK, HandlerPc
  <2> QED BY <2>1, <2>2 DEF IInv, TypeOK
<1>2. LocksInv'
  BY NoneAssumption DEF IInv, TypeOK, LocksInv, PurgingPositions
<1>3. HashInv' BY DEF IInv, HashInv, LocksInv, PurgingPositions
<1>4. ScanInv' BY <1>r DEF IInv, TypeOK, ScanInv
<1>5. HoldInv'
  <2>1. HoldOk(h)'
    BY DEF IInv, HoldInv, HoldOk, Fresh, Holding, TypeOK
  <2> QED BY <1>i, <2>1 DEF IInv, HoldInv, HoldOk, Holding
<1>6. HopInv' BY <1>i DEF IInv, HopInv, HopOk, TypeOK
<1>7. NextInv' BY <1>i DEF IInv, NextInv, TypeOK
<1>8. RefsResolve'
  BY <1>r DEF IInv, TypeOK, RefsResolve, StationRefsResolve,
     PacketRefsResolve, HopRefsResolve, Resolves
<1>9. StationAtLast' BY <1>r DEF IInv, TypeOK, StationAtLast
<1>10. OneRowPerCoordinate' BY DEF IInv, OneRowPerCoordinate
<1> QED BY <1>1, <1>2, <1>3, <1>4, <1>5, <1>6, <1>7, <1>8, <1>9, <1>10 DEF IInv

(* The index of the packet is above all that are in use.                   *)
LEMMA NextPacketIndexStep ==
    ASSUME IInv, NEW h \in Handler, NextPacketIndex(h) PROVE IInv'
<1> USE DEF NextPacketIndex, tables, statics, locks, handlers, locals, purger, Goto
<1>0. PICK i \in PktIndex : /\ FirstIndex(nextPkt, LivePkt, i)
                            /\ pktIdx' = [pktIdx EXCEPT ![h] = i]
                            /\ nextPkt' = i + 1
  OBVIOUS
<1>a. \A j \in LivePkt : j < i
  BY <1>0 DEF IInv, NextInv, FirstIndex
<1>i. \A g \in Handler : g # h => pc[g] = "idle" /\ pc'[g] = "idle"
  BY NoneAssumption DEF IInv, TypeOK, LocksInv
<1>1. TypeOK'
  <2>1. i \in 0..MaxPkt /\ i \in Nat BY BoundsAssumption
  <2>2. pktIdx' \in [Handler -> 0..MaxPkt] BY <1>0, <2>1 DEF IInv, TypeOK
  <2>3. nextPkt' \in Nat BY <1>0, <2>1
  <2>4. pc' \in [Handler -> HandlerPc] BY DEF IInv, TypeOK, HandlerPc
  <2> QED BY <2>2, <2>3, <2>4 DEF IInv, TypeOK
<1>2. LocksInv'
  BY NoneAssumption DEF IInv, TypeOK, LocksInv, PurgingPositions
<1>3. HashInv' BY DEF IInv, HashInv, LocksInv, PurgingPositions
<1>4. ScanInv' BY DEF IInv, ScanInv, LocksInv, PurgingPositions
<1>5. HoldInv' BY <1>i DEF IInv, HoldInv, HoldOk, Fresh, Holding, TypeOK
<1>6. HopInv'
  BY <1>0, <1>i, BoundsAssumption DEF IInv, HopInv, HopOk, TypeOK
<1>7. NextInv'
  <2>1. \A j \in LivePkt' : j < nextPkt'
    BY <1>0, <1>a, BoundsAssumption
  <2>2. pktIdx'[h] \notin LivePkt' /\ pktIdx'[h] < nextPkt'
    BY <1>0, <1>a, BoundsAssumption DEF IInv, TypeOK
  <2> QED BY <1>i, <2>1, <2>2 DEF IInv, NextInv
<1>8. RefsResolve'
  BY DEF IInv, RefsResolve, StationRefsResolve, PacketRefsResolve,
     HopRefsResolve, Resolves
<1>9. StationAtLast' BY DEF IInv, StationAtLast
<1>10. OneRowPerCoordinate' BY DEF IInv, OneRowPerCoordinate
<1> QED BY <1>1, <1>2, <1>3, <1>4, <1>5, <1>6, <1>7, <1>8, <1>9, <1>10 DEF IInv

(* The packet refers to the fresh position the handler holds.              *)
LEMMA InsertPacketStep ==
    ASSUME IInv, NEW h \in Handler, InsertPacket(h) PROVE IInv'
<1> USE DEF InsertPacket, tables, statics, locks, handlers, locals, purger, Goto
<1>q. req[h] \in Input /\ req[h] \in PacketInput
  BY InputAssumption DEF IInv, HoldInv, HoldOk
<1>k. pktIdx[h] \in PktIndex /\ pktIdx[h] \notin LivePkt
  BY BoundsAssumption DEF IInv, TypeOK, NextInv, HopInv, HopOk
<1>0. PICK o \in BOOLEAN :
        packet' = [packet EXCEPT ![pktIdx[h]] = [pos |-> pktPos[h], old |-> o]]
  BY <1>k
<1> DEFINE row == [pos |-> pktPos[h], old |-> o]
<1>r. row \in PacketRow /\ row # NoRow /\ row.pos = pktPos[h]
  BY NoRowAssumption DEF IInv, TypeOK
<1>f. pktPos[h] # 0 => Fresh(pktPos[h])
  BY DEF IInv, HoldInv, HoldOk, Holding
<1>j. LivePkt' = LivePkt \cup {pktIdx[h]}
  BY <1>0, <1>k, <1>r DEF IInv, TypeOK
<1>i. \A g \in Handler : g # h => pc[g] = "idle" /\ pc'[g] = "idle"
  BY NoneAssumption DEF IInv, TypeOK, LocksInv
<1>1. TypeOK'
  <2>1. packet' \in [PktIndex -> PacketRow \cup {NoRow}]
    BY <1>0, <1>k, <1>r DEF IInv, TypeOK
  <2>2. todo' \in [Handler -> Seq(Call)]
    <3>1. HopOrder(req[h].path) \in Seq(Call)
      BY <1>q, HopOrderType DEF PacketInput
    <3>2. todo' = [todo EXCEPT ![h] = HopOrder(req[h].path)] BY <1>k
    <3> QED BY <3>1, <3>2 DEF IInv, TypeOK
  <2>3. pc' \in [Handler -> HandlerPc]
    <3>1. pc' = [pc EXCEPT ![h] = "hops"] BY <1>k
    <3> QED BY <3>1 DEF IInv, TypeOK, HandlerPc
  <2> QED BY <2>1, <2>2, <2>3 DEF IInv, TypeOK
<1>2. LocksInv'
  BY NoneAssumption DEF IInv, TypeOK, LocksInv, PurgingPositions
<1>3. HashInv' BY DEF IInv, HashInv, LocksInv, PurgingPositions
<1>4. ScanInv'
  <2>1. pktPos[h] \notin hash
    BY <1>f DEF IInv, TypeOK, HashInv, Fresh
  <2> QED BY <1>0, <1>j, <1>k, <1>r, <2>1 DEF IInv, TypeOK, ScanInv
<1>5. HoldInv' BY <1>i DEF IInv, HoldInv, HoldOk, Fresh, Holding, TypeOK
<1>6. HopInv' BY <1>i DEF IInv, HopInv, HopOk, TypeOK
<1>7. NextInv'
  <2>1. pktIdx[h] < nextPkt BY DEF IInv, NextInv
  <2>2. \A g \in Handler : pc'[g] # "insert" BY <1>i, <1>k DEF IInv, TypeOK
  <2> QED BY <1>j, <2>1, <2>2 DEF IInv, NextInv
<1>8. RefsResolve'
  BY <1>0, <1>f, <1>j, <1>k, <1>r DEF IInv, TypeOK, Fresh, RefsResolve,
     StationRefsResolve, PacketRefsResolve, HopRefsResolve, Resolves
<1>9. StationAtLast' BY DEF IInv, StationAtLast
<1>10. OneRowPerCoordinate' BY DEF IInv, OneRowPerCoordinate
<1> QED BY <1>1, <1>2, <1>3, <1>4, <1>5, <1>6, <1>7, <1>8, <1>9, <1>10 DEF IInv

(* The hop's position is the one its station refers to.                    *)
LEMMA ReadHopStep ==
    ASSUME IInv, NEW h \in Handler, ReadHop(h) PROVE IInv'
<1> USE DEF ReadHop, tables, statics, locks, handlers, locals, purger, Goto
<1>c. Head(todo[h]) \in Call /\ todo[h] \in Seq(Call)
  BY DEF IInv, TypeOK, HopInv, HopOk
<1> DEFINE s == station[Head(todo[h])]
<1>s. s # NoRow => s \in StationRow
  BY <1>c DEF IInv, TypeOK
<1>i. \A g \in Handler : g # h => pc[g] = "idle" /\ pc'[g] = "idle"
  BY NoneAssumption DEF IInv, TypeOK, LocksInv
<1>1. TypeOK'
  <2>1. hopPos' \in [Handler -> 0..MaxPos]
    BY SMTT(30), <1>s, BoundsAssumption DEF IInv, TypeOK
  <2>2. hopSeq' \in [Handler -> Nat] BY SMTT(30) DEF IInv, TypeOK
  <2>3. pc' \in [Handler -> HandlerPc] BY DEF IInv, TypeOK, HandlerPc
  <2> QED BY <2>1, <2>2, <2>3 DEF IInv, TypeOK
<1>2. LocksInv'
  BY NoneAssumption DEF IInv, TypeOK, LocksInv, PurgingPositions
<1>3. HashInv' BY DEF IInv, HashInv, LocksInv, PurgingPositions
<1>4. ScanInv' BY DEF IInv, ScanInv, LocksInv, PurgingPositions
<1>5. HoldInv' BY <1>i DEF IInv, HoldInv, HoldOk, Fresh, Holding, TypeOK
<1>6. HopInv'
  <2>1. HopOk(h)'
    BY <1>c, <1>s DEF IInv, HopInv, HopOk, TypeOK
  <2> QED BY <1>i, <2>1 DEF IInv, HopInv, HopOk
<1>7. NextInv' BY <1>i DEF IInv, NextInv, TypeOK
<1>8. RefsResolve'
  BY DEF IInv, RefsResolve, StationRefsResolve, PacketRefsResolve,
     HopRefsResolve, Resolves
<1>9. StationAtLast' BY DEF IInv, StationAtLast
<1>10. OneRowPerCoordinate' BY DEF IInv, OneRowPerCoordinate
<1> QED BY <1>1, <1>2, <1>3, <1>4, <1>5, <1>6, <1>7, <1>8, <1>9, <1>10 DEF IInv

(* A stored hop shares its position with a station, so a scan finds both.  *)
LEMMA PutHopStep ==
    ASSUME IInv, NEW h \in Handler, PutHop(h) PROVE IInv'
<1> USE DEF PutHop, tables, statics, locks, handlers, locals, purger, Goto
<1>c. Head(todo[h]) \in Call /\ todo[h] \in Seq(Call)
  BY DEF IInv, TypeOK, HopInv, HopOk
<1> DEFINE hop == [packet |-> pktIdx[h], seq |-> hopSeq[h],
                   call |-> Head(todo[h]), pos |-> hopPos[h]]
<1>r. hop \in HopRow /\ hop.pos = hopPos[h] /\ hops' \subseteq hops \cup {hop}
  BY <1>c, BoundsAssumption DEF IInv, TypeOK, HopInv, HopOk
<1>s. hopPos[h] # 0 => /\ station[Head(todo[h])] # NoRow
                       /\ station[Head(todo[h])].pos = hopPos[h]
  BY DEF IInv, HopInv, HopOk
<1>i. \A g \in Handler : g # h => pc[g] = "idle" /\ pc'[g] = "idle"
  BY NoneAssumption DEF IInv, TypeOK, LocksInv
<1>1. TypeOK'
  <2>1. hops' \subseteq HopRow BY <1>r DEF IInv, TypeOK
  <2>2. todo' \in [Handler -> Seq(Call)]
    BY <1>c DEF IInv, TypeOK, HopInv, HopOk
  <2>3. pc' \in [Handler -> HandlerPc] BY DEF IInv, TypeOK, HandlerPc
  <2> QED BY <2>1, <2>2, <2>3 DEF IInv, TypeOK
<1>2. LocksInv'
  BY NoneAssumption DEF IInv, TypeOK, LocksInv, PurgingPositions
<1>3. HashInv' BY DEF IInv, HashInv, LocksInv, PurgingPositions
<1>4. ScanInv'
  <2>1. hopPos[h] \in hash => ppc # "deletePos"
    BY <1>c, <1>s DEF IInv, TypeOK, ScanInv
  <2> QED BY <1>r, <2>1 DEF IInv, ScanInv
<1>5. HoldInv' BY <1>i DEF IInv, HoldInv, HoldOk, Fresh, Holding, TypeOK
<1>6. HopInv' BY <1>i DEF IInv, HopInv, HopOk, TypeOK
<1>7. NextInv' BY <1>i DEF IInv, NextInv, TypeOK
<1>8. RefsResolve'
  <2>1. Resolves(hopPos[h])
    BY <1>c, <1>s DEF IInv, RefsResolve, StationRefsResolve, Resolves
  <2> QED BY <1>r, <2>1 DEF IInv, RefsResolve, StationRefsResolve,
    PacketRefsResolve, HopRefsResolve, Resolves
<1>9. StationAtLast' BY DEF IInv, StationAtLast
<1>10. OneRowPerCoordinate' BY DEF IInv, OneRowPerCoordinate
<1> QED BY <1>1, <1>2, <1>3, <1>4, <1>5, <1>6, <1>7, <1>8, <1>9, <1>10 DEF IInv

(* A handler that finishes holds nothing.                                  *)
LEMMA FinishStep ==
    ASSUME IInv, NEW h \in Handler, Finish(h) PROVE IInv'
<1> USE DEF Finish, tables, statics, locks, handlers, locals, purger, Goto
<1>i. \A g \in Handler : g # h => pc[g] = "idle" /\ pc'[g] = "idle"
  BY NoneAssumption DEF IInv, TypeOK, LocksInv
<1>1. TypeOK'
  <2>1. 0 \in 0..MaxPos /\ 0 \in 0..MaxPkt BY BoundsAssumption
  <2>2. req' \in [Handler -> Input \cup {NoRow}] BY DEF IInv, TypeOK
  <2>3. pktPos' \in [Handler -> 0..MaxPos] BY <2>1 DEF IInv, TypeOK
  <2>4. stnPos' \in [Handler -> 0..MaxPos] BY <2>1 DEF IInv, TypeOK
  <2>5. hopPos' \in [Handler -> 0..MaxPos] BY <2>1 DEF IInv, TypeOK
  <2>6. pktIdx' \in [Handler -> 0..MaxPkt] BY <2>1 DEF IInv, TypeOK
  <2>7. hopSeq' \in [Handler -> Nat] BY DEF IInv, TypeOK
  <2>8. todo' \in [Handler -> Seq(Call)] BY DEF IInv, TypeOK
  <2>9. pc' \in [Handler -> HandlerPc] BY DEF IInv, TypeOK, HandlerPc
  <2> QED BY <2>2, <2>3, <2>4, <2>5, <2>6, <2>7, <2>8, <2>9 DEF IInv, TypeOK
<1>2. LocksInv'
  BY NoneAssumption DEF IInv, TypeOK, LocksInv, PurgingPositions
<1>3. HashInv' BY DEF IInv, HashInv, LocksInv, PurgingPositions
<1>4. ScanInv' BY DEF IInv, ScanInv, LocksInv, PurgingPositions
<1>5. HoldInv' BY <1>i DEF IInv, HoldInv, HoldOk, Fresh, Holding, TypeOK
<1>6. HopInv' BY <1>i DEF IInv, HopInv, HopOk, TypeOK
<1>7. NextInv' BY <1>i DEF IInv, NextInv, TypeOK
<1>8. RefsResolve'
  BY DEF IInv, RefsResolve, StationRefsResolve, PacketRefsResolve,
     HopRefsResolve, Resolves
<1>9. StationAtLast' BY DEF IInv, StationAtLast
<1>10. OneRowPerCoordinate' BY DEF IInv, OneRowPerCoordinate
<1> QED BY <1>1, <1>2, <1>3, <1>4, <1>5, <1>6, <1>7, <1>8, <1>9, <1>10 DEF IInv

(* A step of the purger that changes none of the tables cannot disturb     *)
(* what the invariant says of them and of the handlers.                    *)
LEMMA BookkeepingStep ==
    ASSUME IInv, UNCHANGED <<tables, statics, parseLock, handlers, restarts>>,
           TypeOK', LocksInv', HashInv', ScanInv'
    PROVE  IInv'
<1> USE DEF tables, statics, handlers, locals
<1>1. HoldInv' BY DEF IInv, HoldInv, HoldOk, Fresh, Holding
<1>2. HopInv' BY DEF IInv, HopInv, HopOk
<1>3. NextInv' BY DEF IInv, NextInv
<1>4. RefsResolve'
  BY DEF IInv, RefsResolve, StationRefsResolve, PacketRefsResolve,
     HopRefsResolve, Resolves
<1>5. StationAtLast' BY DEF IInv, StationAtLast
<1>6. OneRowPerCoordinate' BY DEF IInv, OneRowPerCoordinate
<1> QED BY <1>1, <1>2, <1>3, <1>4, <1>5, <1>6 DEF IInv

(* Waking changes only where the purger is.                                *)
LEMMA WakeStep ==
    ASSUME IInv, Wake PROVE IInv'
<1> USE DEF Wake, tables, statics, locks, handlers, locals, purger
<1>1. TypeOK' BY BoundsAssumption DEF IInv, TypeOK, PurgerPc
<1>2. LocksInv' BY DEF IInv, TypeOK, LocksInv, PurgingPositions
<1>3. HashInv' BY DEF IInv, HashInv, LocksInv, PurgingPositions
<1>4. ScanInv' BY DEF IInv, ScanInv, LocksInv, PurgingPositions
<1> QED BY <1>1, <1>2, <1>3, <1>4, BookkeepingStep

(* Locking PosTable and hashing what is old.                               *)
LEMMA HashOldPositionsStep ==
    ASSUME IInv, HashOldPositions PROVE IInv'
<1> USE DEF HashOldPositions, tables, statics, locks, handlers, locals, purger
<1>1. TypeOK' BY BoundsAssumption DEF IInv, TypeOK, PurgerPc
<1>2. LocksInv' BY DEF IInv, TypeOK, LocksInv, PurgingPositions
<1>3. HashInv' BY DEF IInv, HashInv, LocksInv, PurgingPositions
<1>4. ScanInv' BY DEF IInv, ScanInv, LocksInv, PurgingPositions
<1> QED BY <1>1, <1>2, <1>3, <1>4, BookkeepingStep

(* A station that is scanned has its position taken from the hash.         *)
LEMMA ScanStationStep ==
    ASSUME IInv, NEW c \in Call, ScanStation(c) PROVE IInv'
<1> USE DEF ScanStation, tables, statics, locks, handlers, locals, purger
<1>1. TypeOK' BY BoundsAssumption DEF IInv, TypeOK, PurgerPc
<1>2. LocksInv' BY DEF IInv, TypeOK, LocksInv, PurgingPositions
<1>3. HashInv' BY DEF IInv, HashInv, LocksInv, PurgingPositions
<1>4. ScanInv' BY DEF IInv, ScanInv, LocksInv, PurgingPositions
<1> QED BY <1>1, <1>2, <1>3, <1>4, BookkeepingStep

(* The scan of the stations ends, or is skipped.                           *)
LEMMA StationsScannedStep ==
    ASSUME IInv, StationsScanned PROVE IInv'
<1> USE DEF StationsScanned, tables, statics, locks, handlers, locals, purger
<1>1. TypeOK' BY BoundsAssumption DEF IInv, TypeOK, PurgerPc
<1>2. LocksInv' BY DEF IInv, TypeOK, LocksInv, PurgingPositions
<1>3. HashInv' BY DEF IInv, HashInv, LocksInv, PurgingPositions
<1>4. ScanInv' BY DEF IInv, ScanInv, LocksInv, PurgingPositions
<1> QED BY <1>1, <1>2, <1>3, <1>4, BookkeepingStep

(* The scan of the packets takes their positions from the hash.            *)
LEMMA ScanPacketsStep ==
    ASSUME IInv, ScanPackets PROVE IInv'
<1> USE DEF ScanPackets, tables, statics, locks, handlers, locals, purger
<1>1. TypeOK' BY BoundsAssumption DEF IInv, TypeOK, PurgerPc
<1>2. LocksInv' BY DEF IInv, TypeOK, LocksInv, PurgingPositions
<1>3. HashInv' BY DEF IInv, HashInv, LocksInv, PurgingPositions
<1>4. ScanInv' BY DEF IInv, ScanInv, LocksInv, PurgingPositions
<1> QED BY <1>1, <1>2, <1>3, <1>4, BookkeepingStep

(* The scan of the hops takes theirs.                                      *)
LEMMA ScanHopsStep ==
    ASSUME IInv, ScanHops PROVE IInv'
<1> USE DEF ScanHops, tables, statics, locks, handlers, locals, purger
<1>1. TypeOK' BY BoundsAssumption DEF IInv, TypeOK, PurgerPc
<1>2. LocksInv' BY DEF IInv, TypeOK, LocksInv, PurgingPositions
<1>3. HashInv' BY DEF IInv, HashInv, LocksInv, PurgingPositions
<1>4. ScanInv' BY DEF IInv, ScanInv, LocksInv, PurgingPositions
<1> QED BY <1>1, <1>2, <1>3, <1>4, BookkeepingStep

(* The lock of PosTable is released with an empty hash.                    *)
LEMMA PositionsPurgedStep ==
    ASSUME IInv, PositionsPurged PROVE IInv'
<1> USE DEF PositionsPurged, tables, statics, locks, handlers, locals, purger
<1>1. TypeOK' BY BoundsAssumption DEF IInv, TypeOK, PurgerPc
<1>2. LocksInv' BY DEF IInv, TypeOK, LocksInv, PurgingPositions
<1>3. HashInv' BY DEF IInv, HashInv, LocksInv, PurgingPositions
<1>4. ScanInv' BY DEF IInv, ScanInv, LocksInv, PurgingPositions
<1> QED BY <1>1, <1>2, <1>3, <1>4, BookkeepingStep

(* The query only reads.                                                   *)
LEMMA QueryPacketsStep ==
    ASSUME IInv, QueryPackets PROVE IInv'
<1> USE DEF QueryPackets, tables, statics, locks, handlers, locals, purger
<1>1. TypeOK' BY BoundsAssumption DEF IInv, TypeOK, PurgerPc
<1>2. LocksInv' BY DEF IInv, TypeOK, LocksInv, PurgingPositions
<1>3. HashInv' BY DEF IInv, HashInv, LocksInv, PurgingPositions
<1>4. ScanInv' BY DEF IInv, ScanInv, LocksInv, PurgingPositions
<1> QED BY <1>1, <1>2, <1>3, <1>4, BookkeepingStep

(* The end of a pass.                                                      *)
LEMMA PassDoneStep ==
    ASSUME IInv, PassDone PROVE IInv'
<1> USE DEF PassDone, tables, statics, locks, handlers, locals, purger
<1>1. TypeOK' BY BoundsAssumption DEF IInv, TypeOK, PurgerPc
<1>2. LocksInv' BY DEF IInv, TypeOK, LocksInv, PurgingPositions
<1>3. HashInv' BY DEF IInv, HashInv, LocksInv, PurgingPositions
<1>4. ScanInv' BY DEF IInv, ScanInv, LocksInv, PurgingPositions
<1> QED BY <1>1, <1>2, <1>3, <1>4, BookkeepingStep

(* After the three scans nothing refers to what is left in the hash.       *)
LEMMA DeletePositionStep ==
    ASSUME IInv, NEW i \in PosIndex, DeletePosition(i) PROVE IInv'
<1> USE DEF DeletePosition, tables, statics, locks, handlers, locals, purger
<1>d. /\ i \in LivePos /\ pos[i].old
      /\ pos' = [pos EXCEPT ![i] = NoRow] /\ LivePos' = LivePos \ {i}
  BY DEF IInv, HashInv, TypeOK
<1>1. TypeOK' BY BoundsAssumption DEF IInv, TypeOK, HandlerPc, PurgerPc
<1>2. LocksInv'
  BY NoneAssumption DEF IInv, TypeOK, LocksInv, PurgingPositions
<1>3. HashInv' BY DEF IInv, HashInv, LocksInv, PurgingPositions
<1>4. ScanInv' BY DEF IInv, ScanInv, LocksInv, PurgingPositions
<1>5. HoldInv'
  BY SMTT(30), <1>d DEF IInv, HoldInv, HoldOk, Fresh, Holding, TypeOK
<1>6. HopInv' BY DEF IInv, HopInv, HopOk
<1>7. NextInv' BY DEF IInv, NextInv
<1>8. RefsResolve'
  BY <1>d DEF IInv, TypeOK, ScanInv, RefsResolve, StationRefsResolve,
     PacketRefsResolve, HopRefsResolve, Resolves
<1>9. StationAtLast' BY <1>d DEF IInv, TypeOK, ScanInv, StationAtLast
<1>10. OneRowPerCoordinate' BY <1>d DEF IInv, TypeOK, OneRowPerCoordinate
<1> QED BY <1>1, <1>2, <1>3, <1>4, <1>5, <1>6, <1>7, <1>8, <1>9, <1>10 DEF IInv

(* The purger deletes a packet; a row less refers to positions.            *)
LEMMA PurgePacketStep ==
    ASSUME IInv, NEW i \in PktIndex, PurgePacket(i) PROVE IInv'
<1> USE DEF PurgePacket, tables, statics, locks, handlers, locals, purger
<1>1. TypeOK'
  BY SMTT(30), BoundsAssumption DEF IInv, TypeOK, HandlerPc, PurgerPc
<1>2. LocksInv'
  BY NoneAssumption DEF IInv, TypeOK, LocksInv, PurgingPositions
<1>3. HashInv' BY DEF IInv, HashInv, LocksInv, PurgingPositions
<1>4. ScanInv' BY DEF IInv, ScanInv, LocksInv, PurgingPositions
<1>5. HoldInv' BY DEF IInv, HoldInv, HoldOk, Fresh, Holding
<1>6. HopInv' BY DEF IInv, HopInv, HopOk
<1>7. NextInv' BY DEF IInv, NextInv
<1>8. RefsResolve'
  BY DEF IInv, RefsResolve, StationRefsResolve, PacketRefsResolve,
     HopRefsResolve, Resolves
<1>9. StationAtLast' BY DEF IInv, StationAtLast
<1>10. OneRowPerCoordinate' BY DEF IInv, OneRowPerCoordinate
<1> QED BY <1>1, <1>2, <1>3, <1>4, <1>5, <1>6, <1>7, <1>8, <1>9, <1>10 DEF IInv

(* The purger deletes the hops of that packet.                             *)
LEMMA PurgeHopsStep ==
    ASSUME IInv, PurgeHops PROVE IInv'
<1> USE DEF PurgeHops, tables, statics, locks, handlers, locals, purger
<1>1. TypeOK'
  BY SMTT(30), BoundsAssumption DEF IInv, TypeOK, HandlerPc, PurgerPc
<1>2. LocksInv'
  BY NoneAssumption DEF IInv, TypeOK, LocksInv, PurgingPositions
<1>3. HashInv' BY DEF IInv, HashInv, LocksInv, PurgingPositions
<1>4. ScanInv' BY DEF IInv, ScanInv, LocksInv, PurgingPositions
<1>5. HoldInv' BY DEF IInv, HoldInv, HoldOk, Fresh, Holding
<1>6. HopInv' BY DEF IInv, HopInv, HopOk
<1>7. NextInv' BY DEF IInv, NextInv
<1>8. RefsResolve'
  BY DEF IInv, RefsResolve, StationRefsResolve, PacketRefsResolve,
     HopRefsResolve, Resolves
<1>9. StationAtLast' BY DEF IInv, StationAtLast
<1>10. OneRowPerCoordinate' BY DEF IInv, OneRowPerCoordinate
<1> QED BY <1>1, <1>2, <1>3, <1>4, <1>5, <1>6, <1>7, <1>8, <1>9, <1>10 DEF IInv

(* A position that ages is not in a handler's hands.                       *)
LEMMA AgePositionStep ==
    ASSUME IInv, NEW i \in PosIndex, AgePosition(i) PROVE IInv'
<1> USE DEF AgePosition, tables, statics, locks, handlers, locals, purger
<1>d. /\ i \in LivePos /\ pos[i] \in PosRow
      /\ pos' \in [PosIndex -> PosRow \cup {NoRow}]
      /\ pos'[i] = [where |-> pos[i].where, old |-> TRUE]
      /\ \A j \in PosIndex : j # i => pos'[j] = pos[j]
  BY DEF IInv, TypeOK
<1>l. LivePos' = LivePos /\ \A j \in LivePos : pos'[j].where = pos[j].where
  <2>1. pos'[i] # NoRow /\ pos[i] # NoRow /\ pos'[i].where = pos[i].where
    BY <1>d, NoRowAssumption
  <2> QED BY <1>d, <2>1
<1>1. TypeOK' BY <1>d DEF IInv, TypeOK
<1>2. LocksInv'
  BY NoneAssumption DEF IInv, TypeOK, LocksInv, PurgingPositions
<1>3. HashInv' BY <1>d, <1>l DEF IInv, HashInv
<1>4. ScanInv' BY DEF IInv, ScanInv, LocksInv, PurgingPositions
<1>5. HoldInv'
  <2> SUFFICES ASSUME NEW h \in Handler PROVE HoldOk(h)' BY DEF HoldInv
  <2>1. pc[h] \in Holding => pktPos[h] # i /\ stnPos[h] # i BY DEF Held
  <2> QED BY <1>d, <1>l, <2>1 DEF IInv, HoldInv, HoldOk, Fresh, Holding, TypeOK
<1>6. HopInv' BY DEF IInv, HopInv, HopOk
<1>7. NextInv' BY DEF IInv, NextInv
<1>8. RefsResolve'
  BY <1>l DEF IInv, RefsResolve, StationRefsResolve, PacketRefsResolve,
     HopRefsResolve, Resolves
<1>9. StationAtLast' BY <1>l DEF IInv, StationAtLast
<1>10. OneRowPerCoordinate' BY <1>l DEF IInv, OneRowPerCoordinate
<1> QED BY <1>1, <1>2, <1>3, <1>4, <1>5, <1>6, <1>7, <1>8, <1>9, <1>10 DEF IInv

(* A packet ages.                                                          *)
LEMMA AgePacketStep ==
    ASSUME IInv, NEW i \in PktIndex, AgePacket(i) PROVE IInv'
<1> USE DEF AgePacket, tables, statics, locks, handlers, locals, purger
<1>1. TypeOK' BY BoundsAssumption DEF IInv, TypeOK, HandlerPc, PurgerPc
<1>2. LocksInv'
  BY NoneAssumption DEF IInv, TypeOK, LocksInv, PurgingPositions
<1>3. HashInv' BY DEF IInv, HashInv, LocksInv, PurgingPositions
<1>4. ScanInv' BY DEF IInv, ScanInv, LocksInv, PurgingPositions
<1>5. HoldInv' BY DEF IInv, HoldInv, HoldOk, Fresh, Holding
<1>6. HopInv' BY DEF IInv, HopInv, HopOk
<1>7. NextInv' BY DEF IInv, NextInv
<1>8. RefsResolve'
  BY DEF IInv, RefsResolve, StationRefsResolve, PacketRefsResolve,
     HopRefsResolve, Resolves
<1>9. StationAtLast' BY DEF IInv, StationAtLast
<1>10. OneRowPerCoordinate' BY DEF IInv, OneRowPerCoordinate
<1> QED BY <1>1, <1>2, <1>3, <1>4, <1>5, <1>6, <1>7, <1>8, <1>9, <1>10 DEF IInv

(* A service deletes a packet.                                             *)
LEMMA DeletePacketStep ==
    ASSUME IInv, NEW i \in PktIndex, DeletePacket(i) PROVE IInv'
<1> USE DEF DeletePacket, tables, statics, locks, handlers, locals, purger
<1>1. TypeOK' BY BoundsAssumption DEF IInv, TypeOK, HandlerPc, PurgerPc
<1>2. LocksInv'
  BY NoneAssumption DEF IInv, TypeOK, LocksInv, PurgingPositions
<1>3. HashInv' BY DEF IInv, HashInv, LocksInv, PurgingPositions
<1>4. ScanInv' BY DEF IInv, ScanInv, LocksInv, PurgingPositions
<1>5. HoldInv' BY DEF IInv, HoldInv, HoldOk, Fresh, Holding
<1>6. HopInv' BY DEF IInv, HopInv, HopOk
<1>7. NextInv' BY DEF IInv, NextInv
<1>8. RefsResolve'
  BY DEF IInv, RefsResolve, StationRefsResolve, PacketRefsResolve,
     HopRefsResolve, Resolves
<1>9. StationAtLast' BY DEF IInv, StationAtLast
<1>10. OneRowPerCoordinate' BY DEF IInv, OneRowPerCoordinate
<1> QED BY <1>1, <1>2, <1>3, <1>4, <1>5, <1>6, <1>7, <1>8, <1>9, <1>10 DEF IInv

(* A restart forgets handlers, purger and locks; the tables are sound.     *)
LEMMA RestartStep ==
    ASSUME IInv, Restart PROVE IInv'
<1> USE DEF Restart, tables, statics, locks, handlers, locals, purger
<1>1. TypeOK'
  <2>1. /\ restarts' \in Nat /\ todo' \in [Handler -> Seq(Call)]
        /\ parseLock' \in Handler \cup {None}
    BY DEF IInv, TypeOK
  <2>2. /\ req' \in [Handler -> Input \cup {NoRow}]
        /\ pktPos' \in [Handler -> 0..MaxPos]
        /\ stnPos' \in [Handler -> 0..MaxPos]
        /\ hopPos' \in [Handler -> 0..MaxPos]
        /\ pktIdx' \in [Handler -> 0..MaxPkt]
        /\ hopSeq' \in [Handler -> Nat]
        /\ pc' \in [Handler -> HandlerPc]
    BY BoundsAssumption DEF HandlerPc
  <2>3. pass' \in 0..(PosEvery - 1) /\ victim' \in 0..MaxPkt
    BY BoundsAssumption
  <2> QED BY <2>1, <2>2, <2>3 DEF IInv, TypeOK, PurgerPc
<1>2. LocksInv'
  BY NoneAssumption DEF IInv, TypeOK, LocksInv, PurgingPositions
<1>3. HashInv' BY DEF IInv, HashInv, LocksInv, PurgingPositions
<1>4. ScanInv' BY DEF IInv, ScanInv, LocksInv, PurgingPositions
<1>5. HoldInv' BY DEF IInv, HoldInv, HoldOk, Fresh, Holding
<1>6. HopInv' BY DEF IInv, HopInv, HopOk
<1>7. NextInv' BY DEF IInv, NextInv
<1>8. RefsResolve'
  BY DEF IInv, RefsResolve, StationRefsResolve, PacketRefsResolve,
     HopRefsResolve, Resolves
<1>9. StationAtLast' BY DEF IInv, StationAtLast
<1>10. OneRowPerCoordinate' BY DEF IInv, OneRowPerCoordinate
<1> QED BY <1>1, <1>2, <1>3, <1>4, <1>5, <1>6, <1>7, <1>8, <1>9, <1>10 DEF IInv
-----------------------------------------------------------------------------
(* The initial tables are empty.                                           *)
LEMMA InitIInv == Init => IInv
<1> SUFFICES ASSUME Init PROVE IInv OBVIOUS
<1> USE DEF Init, FreshProcess
<1>1. TypeOK
  <2>1. 0 \in 0..MaxPos /\ 0 \in 0..MaxPkt /\ 0 \in 0..(PosEvery - 1)
    BY BoundsAssumption
  <2>2. /\ pos \in [PosIndex -> PosRow \cup {NoRow}]
        /\ station \in [Call -> StationRow \cup {NoRow}]
        /\ packet \in [PktIndex -> PacketRow \cup {NoRow}]
    OBVIOUS
  <2>3. /\ pc \in [Handler -> HandlerPc]
        /\ req \in [Handler -> Input \cup {NoRow}]
        /\ todo \in [Handler -> Seq(Call)]
        /\ hopSeq \in [Handler -> Nat]
    BY DEF HandlerPc
  <2>4. /\ pktPos \in [Handler -> 0..MaxPos]
        /\ stnPos \in [Handler -> 0..MaxPos]
        /\ hopPos \in [Handler -> 0..MaxPos]
        /\ pktIdx \in [Handler -> 0..MaxPkt]
    BY <2>1
  <2> QED BY <2>1, <2>2, <2>3, <2>4 DEF TypeOK, PurgerPc
<1>2. LocksInv BY NoneAssumption DEF LocksInv, PurgingPositions
<1>3. HashInv /\ ScanInv BY DEF HashInv, ScanInv
<1>4. HoldInv BY DEF HoldInv, HoldOk, Holding
<1>5. HopInv /\ NextInv BY DEF HopInv, HopOk, NextInv
<1>6. RefsResolve
  BY DEF RefsResolve, StationRefsResolve, PacketRefsResolve, HopRefsResolve
<1>7. StationAtLast /\ OneRowPerCoordinate
  BY DEF StationAtLast, OneRowPerCoordinate
<1> QED BY <1>1, <1>2, <1>3, <1>4, <1>5, <1>6, <1>7 DEF IInv

(* A step that changes nothing keeps every part of the invariant.          *)
LEMMA StutterStep == ASSUME IInv, UNCHANGED vars PROVE IInv'
<1> USE DEF vars, tables, statics, locks, handlers, locals, purger
<1>1. TypeOK' BY DEF IInv, TypeOK
<1>2. LocksInv' /\ HashInv' /\ ScanInv' BY DEF IInv, LocksInv, HashInv, ScanInv
<1> QED BY <1>1, <1>2, BookkeepingStep

(* Every action keeps the inductive invariant.                             *)
LEMMA NextIInv == ASSUME IInv, [Next]_vars PROVE IInv'
<1>1. ASSUME NEW h \in Handler, NEW r \in Input, Begin(h, r) PROVE IInv'
  BY <1>1, BeginStep
<1>2. ASSUME NEW h \in Handler, HandlerStep(h) PROVE IInv'
  BY <1>2, GetPacketPositionStep, GetStationPositionStep, UpdateStationStep,
     TouchStationStep, NextPacketIndexStep, InsertPacketStep, ReadHopStep,
     PutHopStep, FinishStep
  DEF HandlerStep
<1>3. CASE PurgerStep
  BY <1>3, WakeStep, HashOldPositionsStep, ScanStationStep,
     StationsScannedStep, ScanPacketsStep, ScanHopsStep, DeletePositionStep,
     PositionsPurgedStep, QueryPacketsStep, PurgePacketStep, PurgeHopsStep,
     PassDoneStep
  DEF PurgerStep
<1>4. ASSUME NEW i \in PosIndex, AgePosition(i) PROVE IInv'
  BY <1>4, AgePositionStep
<1>5. ASSUME NEW i \in PktIndex, AgePacket(i) \/ DeletePacket(i) PROVE IInv'
  BY <1>5, AgePacketStep, DeletePacketStep
<1>6. CASE Restart BY <1>6, RestartStep
<1>7. CASE UNCHANGED vars BY <1>7, StutterStep
<1> QED BY <1>1, <1>2, <1>3, <1>4, <1>5, <1>6, <1>7 DEF Next

(* The inductive invariant holds throughout.                               *)
THEOREM Invariance == Spec => []IInv
<1>1. Init => IInv BY InitIInv
<1>2. IInv /\ [Next]_vars => IInv' BY NextIInv
<1> QED BY <1>1, <1>2, PTL DEF Spec

(* The variables keep their types.                                         *)
THEOREM TypeCorrect == Spec => []TypeOK
<1>1. IInv => TypeOK BY DEF IInv
<1> QED BY <1>1, Invariance, PTL

(* The purger never deletes a position that a station, packet or hop       *)
(* refers to, however its scans interleave with the logging handlers, the  *)
(* services that delete packets, and restarts.                             *)
THEOREM NoDanglingPosition == Spec => []RefsResolve
<1>1. IInv => RefsResolve BY DEF IInv
<1> QED BY <1>1, Invariance, PTL

(* A station's PositionIndex leads to the coordinate in its Last fields.   *)
THEOREM StationPositions == Spec => []StationAtLast
<1>1. IInv => StationAtLast BY DEF IInv
<1> QED BY <1>1, Invariance, PTL

(* AprsGetPositionIndex keeps one row per coordinate.                      *)
THEOREM UniquePositions == Spec => []OneRowPerCoordinate
<1>1. IInv => OneRowPerCoordinate BY DEF IInv
<1> QED BY <1>1, Invariance, PTL

(* No packet is lost because its index was taken, restarts included.       *)
THEOREM FreePacketKeys == Spec => []PacketKeyIsFree
<1>1. IInv => PacketKeyIsFree
  BY NoneAssumption DEF IInv, NextInv, LocksInv, PacketKeyIsFree
<1> QED BY <1>1, Invariance, PTL

-----------------------------------------------------------------------------
(* What a change of PosTable may do, for the two callers of                *)
(* AprsGetPositionIndex: no row goes away and none changes its coordinate. *)
LEMMA GetPositionIndexIsStable ==
    ASSUME IInv, NEW w \in Coord, NEW k \in PosIndex, GetPositionIndex(w, k),
           NEW i \in LivePos
    PROVE  i \in LivePos' /\ pos'[i].where = pos[i].where /\ ~posLock
<1>1. /\ pos'[k] = [where |-> w, old |-> FALSE] /\ pos'[k] # NoRow
      /\ \A j \in PosIndex : j # k => pos'[j] = pos[j]
      /\ k \in LivePos => pos[k].where = w
      /\ ~posLock
  BY GetPositionIndexFacts
<1>2. CASE i = k BY <1>1, <1>2
<1>3. CASE i # k BY <1>1, <1>3
<1> QED BY <1>2, <1>3

(* The purger deletes a position only under the lock of PosTable and only  *)
(* if it is old; nobody changes a row it has hashed; no row ever changes   *)
(* its coordinate.                                                         *)
THEOREM StablePositions == Spec => PositionRowsAreStable
<1> DEFINE Stable(i) ==
      /\ i \notin LivePos' => posLock /\ pos[i].old
      /\ i \in LivePos' => pos'[i].where = pos[i].where
      /\ posLock /\ i \in hash /\ i \in LivePos' => pos'[i] = pos[i]
<1>1. ASSUME IInv, [Next]_vars, pos' # pos, NEW i \in LivePos PROVE Stable(i)
  <2> USE DEF tables, handlers, locals
  <2>1. ASSUME NEW h \in Handler, GetPacketPosition(h) \/ GetStationPosition(h)
        PROVE  Stable(i)
    <3>1. PICK k \in PosIndex : GetPositionIndex(req[h].where, k)
      BY <2>1 DEF GetPacketPosition, GetStationPosition
    <3>2. req[h].where \in Coord
      BY <1>1, <2>1 DEF IInv, HoldInv, HoldOk, GetPacketPosition,
                        GetStationPosition
    <3> QED BY <1>1, <3>1, <3>2, GetPositionIndexIsStable
  <2>2. ASSUME NEW k \in PosIndex, DeletePosition(k) PROVE Stable(i)
    BY <1>1, <2>2
    DEF DeletePosition, IInv, TypeOK, HashInv, LocksInv, PurgingPositions
  <2>3. ASSUME NEW k \in PosIndex, AgePosition(k) PROVE Stable(i)
    <3>1. pos[k] \in PosRow /\ k \notin hash
      BY <1>1, <2>3 DEF AgePosition, IInv, TypeOK, HashInv
    <3>2. /\ pos'[k] = [where |-> pos[k].where, old |-> TRUE]
          /\ \A j \in PosIndex : j # k => pos'[j] = pos[j]
      BY <1>1, <2>3, <3>1 DEF AgePosition, IInv, TypeOK
    <3>3. CASE i = k
      <4>1. pos'[k] \in PosRow /\ pos'[k].where = pos[k].where BY <3>1, <3>2
      <4>2. pos'[k] # NoRow BY <4>1, NoRowAssumption
      <4> QED BY <3>1, <3>3, <4>1, <4>2
    <3>4. CASE i # k BY <3>2, <3>4
    <3> QED BY <3>3, <3>4
  <2>4. ASSUME NEW h \in Handler, NEW r \in Input, Begin(h, r) PROVE FALSE
    BY <1>1, <2>4 DEF Begin
  <2>5. ASSUME NEW h \in Handler, HandlerStep(h) PROVE Stable(i)
    BY <1>1, <2>1, <2>5
    DEF HandlerStep, UpdateStation, TouchStation, NextPacketIndex,
        InsertPacket, ReadHop, PutHop, Finish
  <2>6. CASE PurgerStep
    BY <1>1, <2>2, <2>6
    DEF PurgerStep, Wake, HashOldPositions, ScanStation, StationsScanned,
        ScanPackets, ScanHops, PositionsPurged, QueryPackets, PurgePacket,
        PurgeHops, PassDone
  <2>7. ASSUME NEW k \in PktIndex, AgePacket(k) \/ DeletePacket(k) PROVE FALSE
    BY <1>1, <2>7 DEF AgePacket, DeletePacket
  <2>8. CASE Restart BY <1>1, <2>8 DEF Restart
  <2> QED BY <1>1, <2>3, <2>4, <2>5, <2>6, <2>7, <2>8 DEF Next, vars
<1>2. IInv /\ [Next]_vars => [\A i \in LivePos : Stable(i)]_pos
  BY <1>1
<1> QED BY <1>2, Invariance, PTL DEF Spec, PositionRowsAreStable
-----------------------------------------------------------------------------
(* Until the first restart the hops stored so far, and those a handler is  *)
(* about to store, are under indices already handed out.                   *)
HopsInv ==
    /\ HopsAreOwn
    /\ restarts = 0 => \A h \in Handler :
          pc[h] \in {"hops", "putHop"} => pktIdx[h] < nextPkt

(* The steps that hand out a packet index and that store hops under it.    *)
LEMMA HopsInvStep ==
    ASSUME IInv, HopsInv, NEW h \in Handler,
           NextPacketIndex(h) \/ InsertPacket(h) \/ ReadHop(h) \/ PutHop(h)
    PROVE  HopsInv'
<1> USE DEF tables, statics, locks, handlers, locals, purger, Goto, HopsInv, HopsAreOwn
<1>t. /\ pktIdx \in [Handler -> 0..MaxPkt] /\ nextPkt \in Nat /\ hops \subseteq HopRow
      /\ pc \in [Handler -> HandlerPc]
  BY DEF IInv, TypeOK
<1>i. \A g \in Handler : g # h => pc[g] = "idle"
  BY NoneAssumption DEF IInv, LocksInv, NextPacketIndex, InsertPacket,
     ReadHop, PutHop
<1>j. \A g \in Handler : g # h => pc'[g] = "idle"
  BY <1>t, <1>i DEF NextPacketIndex, InsertPacket, ReadHop, PutHop
<1>1. CASE NextPacketIndex(h)
  <2>1. PICK i \in PktIndex : /\ FirstIndex(nextPkt, LivePkt, i)
                              /\ pktIdx' = [pktIdx EXCEPT ![h] = i]
                              /\ nextPkt' = i + 1
    BY <1>1 DEF NextPacketIndex
  <2>2. restarts = 0 => \A k \in hops : k.packet < i
    BY <1>t, <2>1, BoundsAssumption DEF FirstIndex
  <2>3. restarts = 0 => \A k \in hops : k.packet < nextPkt' /\ k.packet # i
    BY <1>t, <2>1, <2>2, BoundsAssumption
  <2>4. pktIdx'[h] = i /\ pc'[h] = "insert" /\ hops' = hops /\ restarts' = restarts
    BY <1>t, <1>1, <2>1 DEF NextPacketIndex
  <2> QED BY <1>j, <2>3, <2>4
<1>2. CASE InsertPacket(h)
  <2>1. pktIdx[h] < nextPkt BY <1>2 DEF IInv, NextInv, InsertPacket
  <2>2. pc'[h] # "insert" BY <1>t, <1>2 DEF InsertPacket
  <2> QED BY <1>2, <1>j, <2>1, <2>2 DEF InsertPacket
<1>3. CASE ReadHop(h)
  <2>1. pc'[h] # "insert" BY <1>t, <1>3 DEF ReadHop
  <2> QED BY <1>3, <1>j, <2>1 DEF ReadHop
<1>4. CASE PutHop(h)
  <2>1. pc'[h] # "insert" BY <1>t, <1>4 DEF PutHop
  <2>2. \A k \in hops' : k \in hops \/ k.packet = pktIdx[h] BY <1>4 DEF PutHop
  <2> QED BY <1>4, <1>j, <2>1, <2>2 DEF PutHop
<1> QED BY <1>1, <1>2, <1>3, <1>4

(* Until the first restart every packet has its own hops and no other's.   *)
THEOREM OwnHops == Spec => []HopsAreOwn
<1> USE DEF tables, statics, locks, handlers, locals, purger, Goto
<1>1. Init => HopsInv BY DEF Init, FreshProcess, HopsInv, HopsAreOwn
<1>2. ASSUME IInv, HopsInv, [Next]_vars PROVE HopsInv'
  <2>1. ASSUME NEW h \in Handler, NEW r \in Input, Begin(h, r) PROVE HopsInv'
    BY <1>2, <2>1 DEF Begin, IInv, TypeOK, HopsInv, HopsAreOwn
  <2>2. ASSUME NEW h \in Handler, HandlerStep(h) PROVE HopsInv'
    <3>1. CASE NextPacketIndex(h) \/ InsertPacket(h) \/ ReadHop(h) \/ PutHop(h)
      BY <1>2, <3>1, HopsInvStep
    <3>2. CASE GetPacketPosition(h) \/ GetStationPosition(h) \/ UpdateStation(h)
               \/ TouchStation(h)
      <4>1. /\ UNCHANGED <<packet, hops, nextPkt, pktIdx, todo, hopSeq, restarts>>
            /\ pc'[h] \in {"getPos2", "station", "index", "done"}
            /\ pc[h] \in {"getPos", "getPos2", "station", "touch"}
            /\ \A g \in Handler : g # h => pc'[g] = pc[g]
        BY <1>2, <3>2 DEF GetPacketPosition, GetStationPosition, UpdateStation,
           TouchStation, IInv, TypeOK
      <4> QED BY <1>2, <4>1 DEF HopsInv, HopsAreOwn
    <3>3. CASE Finish(h)
      <4>1. /\ UNCHANGED <<hops, nextPkt, restarts>>
            /\ \A g \in Handler : pc'[g] = IF g = h THEN "idle" ELSE pc[g]
            /\ \A g \in Handler : g # h => pktIdx'[g] = pktIdx[g]
        BY <1>2, <3>3 DEF Finish, IInv, TypeOK
      <4> QED BY <1>2, <4>1 DEF HopsInv, HopsAreOwn
    <3> QED BY <2>2, <3>1, <3>2, <3>3 DEF HandlerStep
  <2>3. CASE PurgerStep
    BY <1>2, <2>3
    DEF PurgerStep, Wake, HashOldPositions, ScanStation, StationsScanned,
        ScanPackets, ScanHops, DeletePosition, PositionsPurged, QueryPackets,
        PurgePacket, PurgeHops, PassDone, HopsInv, HopsAreOwn
  <2>4. ASSUME NEW k \in PosIndex, AgePosition(k) PROVE HopsInv'
    BY <1>2, <2>4 DEF AgePosition, HopsInv, HopsAreOwn
  <2>5. ASSUME NEW k \in PktIndex, AgePacket(k) \/ DeletePacket(k) PROVE HopsInv'
    BY <1>2, <2>5 DEF AgePacket, DeletePacket, HopsInv, HopsAreOwn
  <2>6. CASE Restart
    BY <1>2, <2>6 DEF Restart, HopsInv, HopsAreOwn, IInv, TypeOK
  <2>7. CASE UNCHANGED vars BY <1>2, <2>7 DEF vars, HopsInv, HopsAreOwn
  <2> QED BY <1>2, <2>1, <2>2, <2>3, <2>4, <2>5, <2>6, <2>7 DEF Next
<1>3. HopsInv => HopsAreOwn BY DEF HopsInv
<1> QED BY <1>1, <1>2, <1>3, Invariance, PTL DEF Spec
=============================================================================
