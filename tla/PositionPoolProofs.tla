------------------------- MODULE PositionPoolProofs -------------------------
(***************************************************************************)
(* The packet database implements the pool of positions of PositionPool,   *)
(* for every value of its constants: the purger's lock, hash and scans and *)
(* the handlers' steps look, from outside, like single deletions of        *)
(* positions that nothing refers to.                                       *)
(***************************************************************************)
EXTENDS PacketStoreProofs

USE DEF PosIndex, PktIndex, LivePos, LivePkt

(* Only four actions change the Position table.                            *)
LEMMA PositionWriters ==
    ASSUME [Next]_vars, pos' # pos
    PROVE  \/ \E h \in Handler : GetPacketPosition(h) \/ GetStationPosition(h)
           \/ \E i \in PosIndex : DeletePosition(i) \/ AgePosition(i)
<1> USE DEF tables, handlers, locals
<1>1. ASSUME NEW h \in Handler, NEW r \in Input, Begin(h, r) PROVE FALSE
  BY <1>1 DEF Begin
<1>2. ASSUME NEW h \in Handler, HandlerStep(h)
      PROVE  GetPacketPosition(h) \/ GetStationPosition(h)
  BY <1>2 DEF HandlerStep, UpdateStation, TouchStation, NextPacketIndex,
              InsertPacket, ReadHop, PutHop, Finish
<1>3. ASSUME PurgerStep PROVE \E i \in PosIndex : DeletePosition(i)
  BY <1>3 DEF PurgerStep, Wake, HashOldPositions, ScanStation, StationsScanned,
              ScanPackets, ScanHops, PositionsPurged, QueryPackets,
              PurgePacket, PurgeHops, PassDone
<1>4. ASSUME NEW k \in PktIndex, AgePacket(k) \/ DeletePacket(k) PROVE FALSE
  BY <1>4 DEF AgePacket, DeletePacket
<1>5. ~Restart BY DEF Restart
<1> QED BY <1>1, <1>2, <1>3, <1>4, <1>5 DEF Next, vars

(* A call of AprsGetPositionIndex interns the coordinate.                  *)
LEMMA InternStep ==
    ASSUME IInv, NEW w \in Coord, NEW i \in PosIndex, GetPositionIndex(w, i),
           UNCHANGED StoredRefs
    PROVE  Pool!Next
<1> DEFINE row == [where |-> w, old |-> FALSE]
<1>0. pos \in [PosIndex -> PosRow \cup {NoRow}] BY DEF IInv, TypeOK
<1>1. /\ pos' \in [PosIndex -> PosRow \cup {NoRow}]
      /\ pos'[i] = row
      /\ \A j \in PosIndex : j # i => pos'[j] = pos[j]
      /\ i \in LivePos => pos[i].where = w
      /\ \A j \in LivePos : pos[j].where = w => j = i
  BY GetPositionIndexFacts
<1>2. pos' = [pos EXCEPT ![i] = row] BY <1>0, <1>1
<1>3. Pool!Intern(w, i) BY <1>1, <1>2 DEF Pool!Intern, Pool!LivePos
<1> QED BY <1>3 DEF Pool!Next

(* Every step of the database is a step of the pool, or leaves it alone.   *)
LEMMA PoolStep ==
    ASSUME IInv, IInv', [Next]_vars
    PROVE  [Pool!Next]_<<pos, StoredRefs>>
<1> USE DEF tables, statics, locks, handlers, locals, purger
<1>1. CASE pos' = pos
  <2>1. StoredRefs' \subseteq LivePos'
    <3>1. \A c \in Call : station'[c] # NoRow /\ station'[c].pos # 0 =>
            station'[c].pos \in LivePos'
      BY DEF IInv, RefsResolve, StationRefsResolve, Resolves
    <3>2. \A i \in LivePkt' : packet'[i].pos # 0 => packet'[i].pos \in LivePos'
      BY DEF IInv, RefsResolve, PacketRefsResolve, Resolves
    <3>3. \A k \in hops' : k.pos # 0 => k.pos \in LivePos'
      BY DEF IInv, RefsResolve, HopRefsResolve, Resolves
    <3> QED BY <3>1, <3>2, <3>3 DEF StoredRefs
  <2>2. Pool!Refer(StoredRefs')
    BY <1>1, <2>1 DEF Pool!Refer, Pool!LivePos
  <2>3. StoredRefs' \in SUBSET PosIndex BY <2>1
  <2> QED BY <2>2, <2>3 DEF Pool!Next
<1>2. CASE pos' # pos
  <2>1. ASSUME NEW h \in Handler, GetPacketPosition(h) \/ GetStationPosition(h)
        PROVE  Pool!Next
    <3>1. PICK i \in PosIndex : GetPositionIndex(req[h].where, i)
      BY <2>1 DEF GetPacketPosition, GetStationPosition
    <3>2. req[h].where \in Coord
      BY <2>1 DEF IInv, HoldInv, HoldOk, GetPacketPosition, GetStationPosition
    <3>3. UNCHANGED StoredRefs
      BY <2>1 DEF GetPacketPosition, GetStationPosition, StoredRefs
    <3> QED BY <3>1, <3>2, <3>3, InternStep
  <2>2. ASSUME NEW i \in PosIndex, DeletePosition(i) PROVE Pool!Next
    <3>1. i \in LivePos /\ pos[i].old /\ pos' = [pos EXCEPT ![i] = NoRow]
      BY <2>2 DEF DeletePosition, IInv, HashInv
    <3>2. i \notin StoredRefs
      BY <2>2 DEF DeletePosition, IInv, ScanInv, StoredRefs
    <3>3. UNCHANGED StoredRefs BY <2>2 DEF DeletePosition, StoredRefs
    <3>4. Pool!Purge(i) BY <3>1, <3>2, <3>3 DEF Pool!Purge, Pool!LivePos
    <3> QED BY <3>4 DEF Pool!Next
  <2>3. ASSUME NEW i \in PosIndex, AgePosition(i) PROVE Pool!Next
    <3>1. UNCHANGED StoredRefs BY <2>3 DEF AgePosition, StoredRefs
    <3>2. Pool!Age(i) BY <2>3, <3>1 DEF AgePosition, Pool!Age, Pool!LivePos
    <3> QED BY <3>2 DEF Pool!Next
  <2> QED BY <1>2, <2>1, <2>2, <2>3, PositionWriters
<1> QED BY <1>1, <1>2

(* The packet database implements the pool of positions.                   *)
THEOREM PoolImplemented == Spec => ImplementsPool
<1>1. Init => Pool!Init
  BY DEF Init, FreshProcess, Pool!Init, StoredRefs
<1>2. IInv /\ IInv' /\ [Next]_vars => [Pool!Next]_<<pos, StoredRefs>>
  BY PoolStep
<1> QED BY <1>1, <1>2, Invariance, PTL DEF Spec, ImplementsPool, Pool!Spec
=============================================================================
