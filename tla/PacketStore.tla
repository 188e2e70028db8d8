----------------------------- MODULE PacketStore -----------------------------
(***************************************************************************)
(* The packet database of the APRS server: the Position, Station, Packet   *)
(* and Hop tables (include/database.h), the two handlers that log packets  *)
(* into them (AprsLogPacket and AprsLogReceivedPacket, services.c), the    *)
(* AprsPurger thread (aprs.c) with AprsPurgeOrphanPositions (database.c),  *)
(* the service that deletes packets, and a restart of the process.         *)
(*                                                                         *)
(* A station is named by its call sign here; the table that gives a call   *)
(* its StationIndex is a subject of its own.  Time is the age of a row: a  *)
(* row is old once it is older than KEEP_DAYS.                             *)
(***************************************************************************)
EXTENDS Integers, Sequences, FiniteSets

CONSTANTS Handler,      \* threads that run a logging service
          Call,         \* station identifiers
          Coord,        \* coordinates a packet can report
          NoCoord,      \* a packet without a position (lat = lon = 0)
          Input,        \* the parsed packets the services are called with
          None,         \* no lock owner
          NoRow,        \* no record under a key
          MaxPos,       \* bound: the position indices explored
          MaxPkt,       \* bound: the packet indices explored
          Retries,      \* tries at inserting under a fresh index (100)
          PosEvery,     \* passes from one purge of positions to the next (6)
          MaxRestarts   \* bound: the restarts explored

PosIndex == 1..MaxPos
PktIndex == 1..MaxPkt

(* A parsed packet: the service it came by, the station it reports, the    *)
(* Hops[] array handed to AprsInsertHops, where it puts the station, and   *)
(* whether its data type is ':' (a message).                               *)
PacketInput == [service: {"is", "rf"}, obj: Call, path: Seq(Call),
                where: Coord \cup {NoCoord}, message: BOOLEAN]

ASSUME InputAssumption == Input \subseteq PacketInput
ASSUME NoCoordAssumption == NoCoord \notin Coord
ASSUME BoundsAssumption ==
    /\ MaxPos \in Nat /\ MaxPkt \in Nat /\ MaxRestarts \in Nat
    /\ Retries \in Nat \ {0} /\ PosEvery \in Nat \ {0}
ASSUME NoneAssumption == None \notin Handler
ASSUME NoRowAssumption ==
    /\ NoRow \notin [where: Coord, old: BOOLEAN]
    /\ NoRow \notin [pos: 0..MaxPos, last: Coord \cup {NoCoord}]
    /\ NoRow \notin [pos: 0..MaxPos, old: BOOLEAN]

VARIABLES
    pos,        \* Position table: index -> coordinate and age
    station,    \* Station table: call -> PositionIndex and Last coordinate
    packet,     \* Packet table: index -> PositionIndex and age
    hops,       \* Hop table: a set of records keyed by packet and seq
    nextPos,    \* static NextID of AprsGetNextPositionIndex, 0 before its use
    nextPkt,    \* static NextID of AprsGetNextPacketIndex, 0 before its use
    parseLock,  \* owner of ParseLock
    posLock,    \* TRUE while the purger holds the lock of PosTable
    pc, req,    \* handler: where it is, and the packet it logs
    pktPos,     \* handler: Packet.PositionIndex
    stnPos,     \* handler: Station.PositionIndex
    pktIdx,     \* handler: Packet.PacketIndex
    todo,       \* handler: calls whose hop is still to be inserted
    hopSeq,     \* handler: Hop.Sequence
    hopPos,     \* handler: Hop.PositionIndex
    ppc,        \* purger: where it is
    pass,       \* purger: PassCount % PosEvery
    hash,       \* purger: the PositionIndices hash
    scan,       \* purger: stations the scan has not reached
    doomed,     \* purger: result set of the packet query not yet visited
    victim,     \* purger: packet whose hops are to be deleted
    restarts    \* restarts so far

tables   == <<pos, station, packet, hops>>
statics  == <<nextPos, nextPkt>>
locks    == <<parseLock, posLock>>
locals   == <<req, pktPos, stnPos, pktIdx, todo, hopSeq, hopPos>>
handlers == <<pc, locals>>
purger   == <<ppc, pass, hash, scan, doomed, victim>>
vars     == <<tables, statics, locks, handlers, purger, restarts>>

PosRow     == [where: Coord, old: BOOLEAN]
StationRow == [pos: 0..MaxPos, last: Coord \cup {NoCoord}]
PacketRow  == [pos: 0..MaxPos, old: BOOLEAN]
HopRow     == [packet: PktIndex, seq: Nat, call: Call, pos: 0..MaxPos]

HandlerPc == {"idle", "getPos", "getPos2", "station", "touch", "index",
              "insert", "hops", "putHop", "done"}
PurgerPc  == {"sleep", "lockPos", "scanStations", "scanPackets", "scanHops",
              "deletePos", "query", "packets", "hopsOf"}

LivePos == {i \in PosIndex : pos[i] # NoRow}
LivePkt == {i \in PktIndex : packet[i] # NoRow}

(* Handlers and purger at process start: nothing running, no lock held,    *)
(* every static back to zero.                                              *)
FreshProcess ==
    /\ nextPos = 0 /\ nextPkt = 0
    /\ parseLock = None /\ posLock = FALSE
    /\ pc = [h \in Handler |-> "idle"]
    /\ req = [h \in Handler |-> NoRow]
    /\ pktPos = [h \in Handler |-> 0]
    /\ stnPos = [h \in Handler |-> 0]
    /\ pktIdx = [h \in Handler |-> 0]
    /\ todo = [h \in Handler |-> <<>>]
    /\ hopSeq = [h \in Handler |-> 0]
    /\ hopPos = [h \in Handler |-> 0]
    /\ ppc = "sleep" /\ pass = 0
    /\ hash = {} /\ scan = {} /\ doomed = {} /\ victim = 0

Init ==
    /\ pos = [i \in PosIndex |-> NoRow]
    /\ station = [c \in Call |-> NoRow]
    /\ packet = [i \in PktIndex |-> NoRow]
    /\ hops = {}
    /\ FreshProcess
    /\ restarts = 0

-----------------------------------------------------------------------------
(* Operators with a name of the form <Definition>_<Fault> are the          *)
(* definition with a plausible fault of the code: each shows that a        *)
(* property can fail.  No specification uses them.                         *)

FirstIndex_NoMax(next, live, i) == i = IF next = 0 THEN 1 ELSE next

FirstIndex_AlwaysMax(next, live, i) ==
    i \in {j + 1 : j \in live \cup {0}} /\ \A j \in live : j < i

(* The index generators.  The first use after process start takes the      *)
(* largest index in the table plus one, every later use the next number.   *)
FirstIndex(next, live, i) ==
    \/ next # 0 /\ i = next
    \/ /\ next = 0
       /\ i \in {j + 1 : j \in live \cup {0}}
       /\ \A j \in live : j < i

(* The insert loop of AprsGetPositionIndex: the first free index, or the   *)
(* last one tried.                                                         *)
InsertIndex(i) ==
    \E first \in PosIndex :
        /\ FirstIndex(nextPos, LivePos, first)
        /\ i \in first..(first + Retries - 1)
        /\ \A j \in first..(i - 1) : j \in LivePos
        /\ i \in LivePos => i = first + Retries - 1

(* Room is a bound of the model, not of the code.                          *)
Room == /\ \E i \in PosIndex : FirstIndex(nextPos, LivePos, i)
        /\ \E i \in PktIndex : FirstIndex(nextPkt, LivePkt, i)

At(w) == {i \in LivePos : pos[i].where = w}

GetPositionIndex_Untouched(w, i) ==
    /\ ~posLock
    /\ \/ /\ i \in At(w)
          /\ UNCHANGED <<pos, nextPos>>
       \/ /\ At(w) = {}
          /\ InsertIndex(i)
          /\ nextPos' = i + 1
          /\ pos' = IF i \in LivePos THEN pos
                    ELSE [pos EXCEPT ![i] = [where |-> w, old |-> FALSE]]

GetPositionIndex_AlwaysInsert(w, i) ==
    /\ ~posLock
    /\ InsertIndex(i)
    /\ nextPos' = i + 1
    /\ pos' = IF i \in LivePos THEN pos
              ELSE [pos EXCEPT ![i] = [where |-> w, old |-> FALSE]]

(* AprsGetPositionIndex, under the lock of PosTable: touch the position    *)
(* with this coordinate or insert one; i is the index returned.            *)
GetPositionIndex(w, i) ==
    /\ ~posLock
    /\ \/ /\ i \in At(w)
          /\ \A j \in At(w) : j <= i
          /\ pos' = [pos EXCEPT ![i] = [where |-> w, old |-> FALSE]]
          /\ UNCHANGED nextPos
       \/ /\ At(w) = {}
          /\ InsertIndex(i)
          /\ nextPos' = i + 1
          /\ pos' = IF i \in LivePos THEN pos
                    ELSE [pos EXCEPT ![i] = [where |-> w, old |-> FALSE]]

(* The order in which AprsInsertHops stores a path: from the IGate at the  *)
(* end back to the origin, without the destination at index 1.             *)
HopOrder(path) ==
    LET n == Len(path)
        back == [k \in 1..n |-> path[n + 1 - k]]
    IN  IF n < 2 THEN back
        ELSE [k \in 1..(n - 1) |-> IF k = n - 1 THEN back[n] ELSE back[k]]

-----------------------------------------------------------------------------
(* The logging handlers.  From Begin to Finish a handler owns ParseLock.   *)

Goto(h, label) == pc' = [pc EXCEPT ![h] = label]

(* SmLockMutex(&ParseLock) and the parse: which branch the packet takes.   *)
Begin(h, r) ==
    /\ pc[h] = "idle" /\ parseLock = None
    /\ Room
    /\ parseLock' = h
    /\ req' = [req EXCEPT ![h] = r]
    /\ Goto(h, IF r.where # NoCoord THEN "getPos"
               ELSE IF r.service = "is" /\ r.message THEN "done" ELSE "touch")
    /\ UNCHANGED <<tables, statics, posLock, pktPos, stnPos, pktIdx, todo,
                   hopSeq, hopPos, purger, restarts>>

(* The packet's position, Packet.PositionIndex.                            *)
GetPacketPosition(h) ==
    /\ pc[h] = "getPos"
    /\ \E i \in PosIndex : /\ GetPositionIndex(req[h].where, i)
                           /\ pktPos' = [pktPos EXCEPT ![h] = i]
    /\ Goto(h, "getPos2")
    /\ UNCHANGED <<station, packet, hops, nextPkt, locks, req, stnPos, pktIdx,
                   todo, hopSeq, hopPos, purger, restarts>>

(* AprsUpdateStationPosition looks the same coordinate up again.           *)
GetStationPosition(h) ==
    /\ pc[h] = "getPos2"
    /\ \E i \in PosIndex : /\ GetPositionIndex(req[h].where, i)
                           /\ stnPos' = [stnPos EXCEPT ![h] = i]
    /\ Goto(h, "station")
    /\ UNCHANGED <<station, packet, hops, nextPkt, locks, req, pktPos, pktIdx,
                   todo, hopSeq, hopPos, purger, restarts>>

UpdateStation_KeepsPosition(h) ==
    /\ pc[h] = "station"
    /\ LET old == station[req[h].obj]
           i == IF old = NoRow THEN stnPos[h] ELSE old.pos
       IN  station' = [station EXCEPT ![req[h].obj] =
                          [pos |-> i, last |-> req[h].where]]
    /\ Goto(h, "index")
    /\ UNCHANGED <<pos, packet, hops, statics, locks, locals, purger, restarts>>

(* The update or insert of the Station row that ends                       *)
(* AprsUpdateStationPosition.                                              *)
UpdateStation(h) ==
    /\ pc[h] = "station"
    /\ station' = [station EXCEPT ![req[h].obj] =
                      [pos |-> stnPos[h], last |-> req[h].where]]
    /\ Goto(h, "index")
    /\ UNCHANGED <<pos, packet, hops, statics, locks, locals, purger, restarts>>

(* AprsTouchStation: a packet without a position leaves the position of a  *)
(* known station alone.  AprsLogPacket is then done; AprsLogReceivedPacket *)
(* goes on to store the packet.                                            *)
TouchStation(h) ==
    /\ pc[h] = "touch"
    /\ station' = IF station[req[h].obj] # NoRow THEN station
                  ELSE [station EXCEPT ![req[h].obj] =
                           [pos |-> 0, last |-> NoCoord]]
    /\ Goto(h, IF req[h].service = "rf" THEN "index" ELSE "done")
    /\ UNCHANGED <<pos, packet, hops, statics, locks, locals, purger, restarts>>

(* AprsGetNextPacketIndex, under a lock of its own.                        *)
NextPacketIndex(h) ==
    /\ pc[h] = "index"
    /\ \E i \in PktIndex : /\ FirstIndex(nextPkt, LivePkt, i)
                           /\ pktIdx' = [pktIdx EXCEPT ![h] = i]
                           /\ nextPkt' = i + 1
    /\ Goto(h, "insert")
    /\ UNCHANGED <<tables, nextPos, locks, req, pktPos, stnPos, todo, hopSeq,
                   hopPos, purger, restarts>>

(* DB_INSERT of the packet.  The caller of the service gives its When, so  *)
(* the row may be old at once.  A taken key loses the packet and its hops. *)
InsertPacket(h) ==
    /\ pc[h] = "insert"
    /\ IF pktIdx[h] \in LivePkt
       THEN /\ Goto(h, "done")
            /\ UNCHANGED <<packet, todo>>
       ELSE /\ \E o \in BOOLEAN :
                  packet' = [packet EXCEPT ![pktIdx[h]] =
                                [pos |-> pktPos[h], old |-> o]]
            /\ todo' = [todo EXCEPT ![h] = HopOrder(req[h].path)]
            /\ Goto(h, "hops")
    /\ UNCHANGED <<pos, station, hops, statics, locks, req, pktPos, stnPos,
                   pktIdx, hopSeq, hopPos, purger, restarts>>

(* AprsInsertHops, one turn of its loop: AprsGetStationLocation reads the  *)
(* position of the hop's station ...                                       *)
ReadHop(h) ==
    /\ pc[h] = "hops" /\ todo[h] # <<>>
    /\ hopSeq' = [hopSeq EXCEPT ![h] = @ + 1]
    /\ LET s == station[Head(todo[h])]
       IN  hopPos' = [hopPos EXCEPT ![h] = IF s = NoRow THEN 0 ELSE s.pos]
    /\ Goto(h, "putHop")
    /\ UNCHANGED <<tables, statics, locks, req, pktPos, stnPos, pktIdx, todo,
                   purger, restarts>>

(* ... and DB_INSERT stores the hop, unless its key is taken.              *)
PutHop(h) ==
    /\ pc[h] = "putHop"
    /\ hops' = IF \E k \in hops : k.packet = pktIdx[h] /\ k.seq = hopSeq[h]
               THEN hops
               ELSE hops \cup {[packet |-> pktIdx[h], seq |-> hopSeq[h],
                                call |-> Head(todo[h]), pos |-> hopPos[h]]}
    /\ todo' = [todo EXCEPT ![h] = Tail(@)]
    /\ Goto(h, "hops")
    /\ UNCHANGED <<pos, station, packet, statics, locks, req, pktPos, stnPos,
                   pktIdx, hopSeq, hopPos, purger, restarts>>

(* SmUnlockMutex(&ParseLock); the handler's variables go out of scope.     *)
Finish(h) ==
    /\ pc[h] = "done" \/ (pc[h] = "hops" /\ todo[h] = <<>>)
    /\ parseLock' = None
    /\ Goto(h, "idle")
    /\ req' = [req EXCEPT ![h] = NoRow]
    /\ pktPos' = [pktPos EXCEPT ![h] = 0]
    /\ stnPos' = [stnPos EXCEPT ![h] = 0]
    /\ pktIdx' = [pktIdx EXCEPT ![h] = 0]
    /\ hopSeq' = [hopSeq EXCEPT ![h] = 0]
    /\ hopPos' = [hopPos EXCEPT ![h] = 0]
    /\ todo' = [todo EXCEPT ![h] = <<>>]
    /\ UNCHANGED <<tables, statics, posLock, purger, restarts>>

HandlerStep(h) ==
    \/ GetPacketPosition(h) \/ GetStationPosition(h) \/ UpdateStation(h)
    \/ TouchStation(h) \/ NextPacketIndex(h) \/ InsertPacket(h)
    \/ ReadHop(h) \/ PutHop(h) \/ Finish(h)

-----------------------------------------------------------------------------
(* The purger thread.                                                      *)

(* Top of the loop: positions are purged on every PosEvery-th pass.        *)
Wake ==
    /\ ppc = "sleep"
    /\ ppc' = IF pass = 0 THEN "lockPos" ELSE "query"
    /\ UNCHANGED <<tables, statics, locks, handlers, pass, hash, scan, doomed,
                   victim, restarts>>

(* AprsPurgeOrphanPositions: lock the table and hash what is old.          *)
HashOldPositions ==
    /\ ppc = "lockPos"
    /\ posLock' = TRUE
    /\ hash' = {i \in LivePos : pos[i].old}
    /\ scan' = {c \in Call : station[c] # NoRow}
    /\ ppc' = "scanStations"
    /\ UNCHANGED <<tables, statics, parseLock, handlers, pass, doomed, victim,
                   restarts>>

(* One station of the scan.  Its row can change under the scan, so each    *)
(* station is a step; rows inserted behind the scan are not visited.       *)
ScanStation(c) ==
    /\ ppc = "scanStations" /\ hash # {} /\ c \in scan
    /\ hash' = hash \ {station[c].pos}
    /\ scan' = scan \ {c}
    /\ UNCHANGED <<tables, statics, locks, handlers, ppc, pass, doomed, victim,
                   restarts>>

(* The scan is over, or was skipped because nothing is left in the hash.   *)
StationsScanned ==
    /\ ppc = "scanStations" /\ (hash = {} \/ scan = {})
    /\ scan' = {}
    /\ ppc' = "scanPackets"
    /\ UNCHANGED <<tables, statics, locks, handlers, pass, hash, doomed, victim,
                   restarts>>

(* Packet and Hop rows are never updated, so a scan is one step: what is   *)
(* inserted behind a scan is as if inserted after it.                      *)
ScanPackets ==
    /\ ppc = "scanPackets"
    /\ hash' = hash \ {packet[i].pos : i \in LivePkt}
    /\ ppc' = "scanHops"
    /\ UNCHANGED <<tables, statics, locks, handlers, pass, scan, doomed, victim,
                   restarts>>

ScanHops_Skipped ==
    /\ ppc = "scanHops"
    /\ ppc' = "deletePos"
    /\ UNCHANGED <<tables, statics, locks, handlers, pass, hash, scan, doomed,
                   victim, restarts>>

ScanHops ==
    /\ ppc = "scanHops"
    /\ hash' = hash \ {k.pos : k \in hops}
    /\ ppc' = "deletePos"
    /\ UNCHANGED <<tables, statics, locks, handlers, pass, scan, doomed, victim,
                   restarts>>

(* What is left in the hash is deleted row by row, then the lock released. *)
DeletePosition(i) ==
    /\ ppc = "deletePos" /\ i \in hash
    /\ pos' = [pos EXCEPT ![i] = NoRow]
    /\ hash' = hash \ {i}
    /\ UNCHANGED <<station, packet, hops, statics, locks, handlers, ppc, pass,
                   scan, doomed, victim, restarts>>

PositionsPurged_NoUnlock ==
    /\ ppc = "deletePos" /\ hash = {}
    /\ ppc' = "query"
    /\ UNCHANGED <<tables, statics, locks, handlers, pass, hash, scan,
                   doomed, victim, restarts>>

PositionsPurged ==
    /\ ppc = "deletePos" /\ hash = {}
    /\ posLock' = FALSE
    /\ ppc' = "query"
    /\ UNCHANGED <<tables, statics, parseLock, handlers, pass, hash, scan,
                   doomed, victim, restarts>>

(* The packets older than KEEP_DAYS, as a result set taken once.           *)
QueryPackets ==
    /\ ppc = "query"
    /\ doomed' = {i \in LivePkt : packet[i].old}
    /\ ppc' = "packets"
    /\ UNCHANGED <<tables, statics, locks, handlers, pass, hash, scan, victim,
                   restarts>>

PurgePacket_Bail(i) ==
    /\ ppc = "packets" /\ i \in doomed
    /\ \/ packet' = [packet EXCEPT ![i] = NoRow] /\ doomed' = doomed \ {i}
       \/ UNCHANGED packet /\ doomed' = {}
    /\ victim' = i
    /\ ppc' = "hopsOf"
    /\ UNCHANGED <<pos, station, hops, statics, locks, handlers, pass, hash,
                   scan, restarts>>

(* Each is deleted in two steps, the packet and then its hops, ...         *)
PurgePacket(i) ==
    /\ ppc = "packets" /\ i \in doomed
    /\ packet' = [packet EXCEPT ![i] = NoRow]
    /\ doomed' = doomed \ {i}
    /\ victim' = i
    /\ ppc' = "hopsOf"
    /\ UNCHANGED <<pos, station, hops, statics, locks, handlers, pass, hash,
                   scan, restarts>>

(* ... and the loop is left early when KEEP_DAYS changes.                  *)
PurgeHops ==
    /\ ppc = "hopsOf"
    /\ hops' = {k \in hops : k.packet # victim}
    /\ doomed' \in {doomed, {}}
    /\ ppc' = "packets"
    /\ victim' = 0
    /\ UNCHANGED <<pos, station, packet, statics, locks, handlers, pass, hash,
                   scan, restarts>>

PassDone_NoWrap ==
    /\ ppc = "packets" /\ doomed = {}
    /\ pass' = pass + 1
    /\ ppc' = "sleep"
    /\ UNCHANGED <<tables, statics, locks, handlers, hash, scan, doomed, victim,
                   restarts>>

PassDone_Flag ==
    /\ ppc = "packets" /\ doomed = {}
    /\ pass' = 1
    /\ ppc' = "sleep"
    /\ UNCHANGED <<tables, statics, locks, handlers, hash, scan, doomed, victim,
                   restarts>>

PassDone ==
    /\ ppc = "packets" /\ doomed = {}
    /\ pass' = (pass + 1) % PosEvery
    /\ ppc' = "sleep"
    /\ UNCHANGED <<tables, statics, locks, handlers, hash, scan, doomed, victim,
                   restarts>>

PurgerStep ==
    \/ Wake \/ HashOldPositions \/ (\E c \in Call : ScanStation(c))
    \/ StationsScanned \/ ScanPackets \/ ScanHops
    \/ (\E i \in PosIndex : DeletePosition(i)) \/ PositionsPurged
    \/ QueryPackets \/ (\E i \in PktIndex : PurgePacket(i)) \/ PurgeHops
    \/ PassDone

-----------------------------------------------------------------------------
(* The environment.                                                        *)

(* Where a handler still has to store the index it got from                *)
(* AprsGetPositionIndex.                                                   *)
Holding == {"getPos2", "station", "index", "insert"}

Held(i) == \E h \in Handler :
              pc[h] \in Holding /\ (pktPos[h] = i \/ stnPos[h] = i)

(* A position grows older than KEEP_DAYS.  A handler takes seconds and     *)
(* KEEP_DAYS is at least a day, so the position it has just touched does   *)
(* not grow old in its hands.                                              *)
AgePosition(i) ==
    /\ i \in LivePos /\ ~pos[i].old /\ ~Held(i)
    /\ pos' = [pos EXCEPT ![i].old = TRUE]
    /\ UNCHANGED <<station, packet, hops, statics, locks, handlers, purger,
                   restarts>>

AgePacket(i) ==
    /\ i \in LivePkt /\ ~packet[i].old
    /\ packet' = [packet EXCEPT ![i].old = TRUE]
    /\ UNCHANGED <<pos, station, hops, statics, locks, handlers, purger,
                   restarts>>

(* AprsSvcDeletePackets and AprsSvcPurgePackets take no lock and delete    *)
(* packets, record by record, without their hops.                          *)
DeletePacket(i) ==
    /\ i \in LivePkt
    /\ packet' = [packet EXCEPT ![i] = NoRow]
    /\ UNCHANGED <<pos, station, hops, statics, locks, handlers, purger,
                   restarts>>

(* The process ends anywhere and starts again on the tables it left;       *)
(* AprsLoadDatabase repairs nothing.                                       *)
Restart ==
    /\ restarts < MaxRestarts
    /\ restarts' = restarts + 1
    /\ nextPos' = 0 /\ nextPkt' = 0
    /\ parseLock' = None /\ posLock' = FALSE
    /\ pc' = [h \in Handler |-> "idle"]
    /\ req' = [h \in Handler |-> NoRow]
    /\ pktPos' = [h \in Handler |-> 0]
    /\ stnPos' = [h \in Handler |-> 0]
    /\ pktIdx' = [h \in Handler |-> 0]
    /\ todo' = [h \in Handler |-> <<>>]
    /\ hopSeq' = [h \in Handler |-> 0]
    /\ hopPos' = [h \in Handler |-> 0]
    /\ ppc' = "sleep" /\ pass' = 0
    /\ hash' = {} /\ scan' = {} /\ doomed' = {} /\ victim' = 0
    /\ UNCHANGED tables

Next ==
    \/ \E h \in Handler : (\E r \in Input : Begin(h, r)) \/ HandlerStep(h)
    \/ PurgerStep
    \/ \E i \in PosIndex : AgePosition(i)
    \/ \E i \in PktIndex : AgePacket(i) \/ DeletePacket(i)
    \/ Restart

Spec == Init /\ [][Next]_vars

(* The purger is a loop over sleeps and table operations that nothing      *)
(* stops; a handler that owns ParseLock runs on, and a mutex queues its    *)
(* waiters, so the purger cannot overtake a handler at PosTable for ever.  *)
(* Nothing is assumed of callers, of age or of restarts.                   *)
Fairness ==
    /\ WF_vars(PurgerStep)
    /\ \A h \in Handler : SF_vars(HandlerStep(h))

FairSpec == Spec /\ Fairness

-----------------------------------------------------------------------------
(* Properties.                                                             *)

TypeOK ==
    /\ pos \in [PosIndex -> PosRow \cup {NoRow}]
    /\ station \in [Call -> StationRow \cup {NoRow}]
    /\ packet \in [PktIndex -> PacketRow \cup {NoRow}]
    /\ hops \subseteq HopRow
    /\ nextPos \in Nat /\ nextPkt \in Nat
    /\ parseLock \in Handler \cup {None}
    /\ posLock \in BOOLEAN
    /\ pc \in [Handler -> HandlerPc]
    /\ req \in [Handler -> Input \cup {NoRow}]
    /\ pktPos \in [Handler -> 0..MaxPos]
    /\ stnPos \in [Handler -> 0..MaxPos]
    /\ pktIdx \in [Handler -> 0..MaxPkt]
    /\ todo \in [Handler -> Seq(Call)]
    /\ hopSeq \in [Handler -> Nat]
    /\ hopPos \in [Handler -> 0..MaxPos]
    /\ ppc \in PurgerPc
    /\ pass \in 0..(PosEvery - 1)
    /\ hash \subseteq PosIndex
    /\ scan \subseteq Call
    /\ doomed \subseteq PktIndex
    /\ victim \in 0..MaxPkt
    /\ restarts \in Nat

(* A PositionIndex that a Station, Packet or Hop row holds (other than 0,  *)
(* "no position") is the key of a Position row: the purger never deletes a *)
(* position that something refers to, although only AprsGetPositionIndex   *)
(* and the purger take the lock of PosTable and rows that refer to a       *)
(* position are inserted while the purger scans.                           *)
Resolves(i) == i # 0 => i \in LivePos

StationRefsResolve == \A c \in Call : station[c] # NoRow => Resolves(station[c].pos)
PacketRefsResolve == \A i \in LivePkt : Resolves(packet[i].pos)
HopRefsResolve == \A k \in hops : Resolves(k.pos)

RefsResolve == StationRefsResolve /\ PacketRefsResolve /\ HopRefsResolve

(* Station.PositionIndex and Station.Last are written together; the row    *)
(* the index leads to keeps that coordinate, also when the index of a      *)
(* purged position is given to another coordinate after a restart.         *)
StationAtLast ==
    \A c \in Call : station[c] # NoRow /\ station[c].pos # 0 =>
        /\ station[c].pos \in LivePos
        /\ pos[station[c].pos].where = station[c].last

(* One Position row per coordinate, so that "same position" in a query is  *)
(* "same index".                                                           *)
OneRowPerCoordinate ==
    \A i, j \in LivePos : pos[i].where = pos[j].where => i = j

(* An insert of a packet finds its key free: no index is handed out twice  *)
(* and the largest index plus one is enough after a restart.  Otherwise    *)
(* the packet would be dropped with a log line.                            *)
PacketKeyIsFree ==
    \A h \in Handler : pc[h] = "insert" =>
        /\ pktIdx[h] \notin LivePkt
        /\ \A g \in Handler : pc[g] = "insert" /\ pktIdx[g] = pktIdx[h] => g = h

(* Until the process has been restarted once, a packet gets its own hops:  *)
(* no hop is stored under an index still to be handed out, and the hops    *)
(* under the index of the packet being stored are those inserted for it    *)
(* so far.  After a restart the hops that AprsSvcDeletePackets left behind *)
(* can be taken for those of a later packet.                               *)
HopsAreOwn ==
    restarts = 0 =>
        /\ \A k \in hops : k.packet < nextPkt
        /\ \A h \in Handler : pc[h] = "insert" =>
              \A k \in hops : k.packet # pktIdx[h]

(* The purger deletes a row of PosTable only while it holds its lock and   *)
(* nobody changes a row under it; a row never changes its coordinate.      *)
PositionRowsAreStable ==
    [][\A i \in LivePos :
          /\ i \notin LivePos' => posLock /\ pos[i].old
          /\ i \in LivePos' => pos'[i].where = pos[i].where
          /\ posLock /\ i \in hash /\ i \in LivePos' => pos'[i] = pos[i]]_pos

(* The purger with its lock, hash and scans implements a pool from which a *)
(* position is deleted in one step, only when nothing refers to it; and    *)
(* AprsGetPositionIndex interns coordinates in that pool.                  *)
StoredRefs ==
    (   {station[c].pos : c \in {d \in Call : station[d] # NoRow}}
   \cup {packet[i].pos : i \in LivePkt}
   \cup {k.pos : k \in hops}) \ {0}

Pool == INSTANCE PositionPool WITH refs <- StoredRefs

ImplementsPool == Pool!Spec

(* Liveness.  A position that stays old and without a reference is         *)
(* deleted: the scans do not keep it for ever.                             *)
Referenced(i) ==
    \/ \E c \in Call : station[c] # NoRow /\ station[c].pos = i
    \/ \E j \in LivePkt : packet[j].pos = i
    \/ \E k \in hops : k.pos = i

Orphan(i) == i \in LivePos /\ pos[i].old /\ ~Referenced(i)

OrphansArePurged == \A i \in PosIndex : []<>~Orphan(i)

(* A packet older than KEEP_DAYS is deleted even if the purge is cut short *)
(* again and again: every pass deletes at least one.                       *)
OldPacketsArePurged ==
    \A i \in PktIndex : []<>~(i \in LivePkt /\ packet[i].old)

(* A handler that got ParseLock gives it back, whatever the purger does.   *)
HandlersFinish == \A h \in Handler : (parseLock = h) ~> (parseLock # h)
=============================================================================
