---------------------------- MODULE AprsQueries ----------------------------
(***************************************************************************)
(* What the clients of the APRS service see (services.c): packets are      *)
(* logged with their hops, and the query services answer from the tables.  *)
(* A service runs alone here: the interleavings of the services with each  *)
(* other and with the purger are in PacketStore.                           *)
(*                                                                         *)
(* A StationIndex is the pair of owner and station it stands for in the    *)
(* StatIDs table; a PositionIndex is the position.  Distances, speeds and  *)
(* altitudes, and the conditions on them, are left out.                    *)
(*                                                                         *)
(* Operators with a name of the form <Definition>_<Fault> are the          *)
(* definition with a plausible fault of the code: each shows that a        *)
(* property can fail.  No specification uses them.                         *)
(***************************************************************************)
EXTENDS PacketPath, MapTiles, Folds

CONSTANTS
    Scenario,    \* what the clients are after
    Inputs,      \* scenario -> packets that are logged
    Requests,    \* scenario -> requests
    NoCoord,     \* a packet or station without a position
    NotFound,    \* the StationIndex -1
    NoDest,      \* the DestIndex 0 of a Mic-E packet
    MaxPackets   \* bound: scenario -> packets logged

Where == [x : Nat, y : Nat] \cup {NoCoord}
Station == Name \X Name
PacketInput == [path : Seq(Piece), third : Seq(Piece), by : Name \cup {NoName},
                obj : Name \cup {NoName}, mice : BOOLEAN, when : Nat, where : Where]

ASSUME InputAssumption ==
    /\ Inputs \in [Scenario -> SUBSET PacketInput]
    /\ \A s \in Scenario : \A in \in Inputs[s] :
         Len(in.path) >= 2 /\ (in.third = <<>> \/ Len(in.third) = 2)
    /\ MaxPackets \in [Scenario -> Nat]
\* COUNT_F and times, which are unsigned
ASSUME RequestAssumption ==
    \A s \in Scenario : \A svc \in Requests[s] :
        /\ svc.service = "tiles" =>
             {svc.zoom, svc.maxTiles, svc.left, svc.right, svc.top, svc.bottom} \subseteq Nat
        /\ svc.service = "rates" =>
             {svc.start, svc.end, svc.bucket} \subseteq Nat /\ svc.empties \in BOOLEAN
ASSUME NoneAssumption ==
    {NotFound, NoDest} \cap Station = {} /\ NotFound # NoDest

VARIABLES
    scenario,    \* which of them this behaviour is about
    stations,    \* Station and StatIDs tables: owner and station -> position
    packets,     \* Packet and Hop tables, in the order of PacketIndex
    reply        \* the reply of the last request, NoReply when it is taken

vars == <<scenario, stations, packets, reply>>

NoReply == [service |-> "none"]

Init ==
    /\ scenario \in Scenario
    /\ stations = <<>>
    /\ packets = <<>>
    /\ reply = NoReply

-----------------------------------------------------------------------------
(* Logging.                                                                *)

\* AprsGetStationIndex without and with AllowCreate.
Lookup(owner, id) ==
    IF <<owner, id>> \in DOMAIN stations THEN <<owner, id>> ELSE NotFound
GetIndex_Empty(owner, id) == <<owner, id>>
GetIndex(owner, id) == IF id = NoName THEN NotFound ELSE <<owner, id>>

\* The tables after a packet was logged: the position of its station first,
\* then the stations of its path, whose hops take their present positions.
With(table, index, where) ==
    [i \in DOMAIN table \cup {index} |-> IF i = index THEN where ELSE table[i]]
Known(table, indices) ==
    [i \in DOMAIN table \cup indices |-> IF i \in DOMAIN table THEN table[i] ELSE NoCoord]

Object(in, hops) == IF in.obj = NoName THEN hops[1].id ELSE in.obj
Origin(in, hops) == <<hops[1].id, Object(in, hops)>>
Dest(in, hops) == IF in.mice THEN NoDest ELSE <<hops[1].id, hops[2].id>>

Touched(in, hops) ==
    IF in.where # NoCoord THEN With(stations, Origin(in, hops), in.where)
    ELSE Known(stations, {Origin(in, hops)})

Insert(in, hops, path, gate, onRF) ==
    LET heard == GetIndex(gate, gate)
        rows == HopRows(path)
        table == Known(Touched(in, hops),
                       ({Dest(in, hops), heard} \ {NoDest, NotFound})
                         \cup {Index(rows[i].id) : i \in DOMAIN rows})
    IN  /\ stations' = table
        /\ packets' = Append(packets,
              [origin |-> Origin(in, hops), dest |-> Dest(in, hops), heard |-> heard,
               onRF |-> onRF, mice |-> in.mice, when |-> in.when, where |-> in.where,
               hops |-> [i \in DOMAIN rows |->
                           [id |-> rows[i].id, used |-> rows[i].used,
                            where |-> table[Index(rows[i].id)]]]])

\* A packet of APRS-IS: stored if it has a position, gated by whom its q
\* construct names.  One without a position touches its station unless it is a
\* message.
AprsLogPacket(in) ==
    LET hops == Hops(in.path, in.third) IN
    /\ in.by = NoName
    /\ IF in.where # NoCoord
       THEN Insert(in, hops, hops, IGate(hops), FALSE)
       ELSE stations' \in {stations, Touched(in, hops)} /\ UNCHANGED packets

\* A packet heard by a monitor, which becomes its last hop and its gate.
AprsLogReceivedPacket(in) ==
    LET hops == Hops(in.path, in.third) IN
    /\ in.by # NoName
    /\ Insert(in, hops, Append(hops, [id |-> in.by, used |-> FALSE]), in.by, in.third = <<>>)

Log ==
    /\ reply = NoReply
    /\ Len(packets) < MaxPackets[scenario]
    /\ \E in \in Inputs[scenario] : AprsLogPacket(in) \/ AprsLogReceivedPacket(in)
    /\ UNCHANGED <<scenario, reply>>

-----------------------------------------------------------------------------
(* Queries.  A time of 0, or an empty name, is no condition.               *)

InTime(svc, p) ==
    (svc.start = 0 \/ p.when >= svc.start) /\ (svc.end = 0 \/ p.when < svc.end)

\* A name that is not known becomes the index -1, never 0: the replies "Failed
\* To Lookup" are out of reach.
Names(id, index) == id = NoName \/ Lookup(id, id) = index

Relayed(svc, p) ==
    svc.relay = NoName \/ \E i \in DOMAIN p.hops : Names(svc.relay, Index(p.hops[i].id))

Match(svc, p) ==
    /\ p.onRF = svc.onRF
    /\ Names(svc.origin, p.origin)
    /\ Names(svc.gate, p.heard)
    /\ InTime(svc, p)
    /\ Relayed(svc, p)

Chosen(Test(_)) == {i \in DOMAIN packets : Test(packets[i])}
Sum(f) == FoldFunction(+, 0, f)

\* The packets, and the box around them and their gates; the order of the
\* records is that of the database.
Around(box, where) == IF where = NoCoord THEN box ELSE AprsBoundingBox(box, where)
BoxOf(order) ==
    LET box[n \in 0..Len(order)] ==
            IF n = 0 THEN NoBox
            ELSE LET p == packets[order[n]]
                 IN  Around(Around(box[n - 1], p.where), p.hops[1].where)
    IN  box[Len(order)]

AprsSvcQueryPackets(svc) ==
    LET rows == Chosen(LAMBDA p : Match(svc, p))
    IN  \E order \in Bijection(1..Cardinality(rows), rows) :
            reply' = [service |-> "packets", svc |-> svc, rows |-> rows, box |-> BoxOf(order)]

\* The paths between stations, each with its uses and when it was heard.
PathsOf(svc, i) ==
    LET p == packets[i]
    IN  Walk(p.hops, svc.invalid, p.origin, p.heard)

Direct(svc, key) ==
    \/ svc.origin # NoName /\ Names(svc.origin, key.from)
    \/ svc.relay # NoName /\ (Names(svc.relay, key.from) \/ Names(svc.relay, key.to))
    \/ svc.gate # NoName /\ Names(svc.gate, key.to)

AprsSvcQueryUniquePaths(svc) ==
    LET rows == Chosen(LAMBDA p : Match(svc, p))
        uses == UNION {{<<i, n>> : n \in DOMAIN PathsOf(svc, i)} : i \in rows}
        key(use) == PathsOf(svc, use[1])[use[2]]
        data(k) ==
            LET of == {use \in uses : key(use) = k}
                times == {packets[use[1]].when : use \in of}
            IN  [uses |-> Cardinality(of), first |-> Min(times), last |-> Max(times)]
        keys == {k \in {key(use) : use \in uses} : ~svc.direct \/ Direct(svc, k)}
    IN  reply' = [service |-> "paths", svc |-> svc, rows |-> rows,
                  paths |-> [k \in keys |-> data(k)]]

\* How many packets each gate has gated, and each destination received; the
\* latter counts by index first and then joins indices of the same name.
AprsSvcQueryUniqueIGates(svc) ==
    LET rows == Chosen(LAMBDA p : InTime(svc, p))
    IN  reply' = IF svc.start = 0 /\ svc.end = 0 /\ ~svc.all THEN [service |-> "refused"]
                 ELSE [service |-> "igates", svc |-> svc, rows |-> rows,
                       gated |-> [g \in {packets[i].heard : i \in rows} |->
                                    Cardinality({i \in rows : packets[i].heard = g})]]

Destinations_LastIndex(byIndex) ==
    [id \in {index[2] : index \in DOMAIN byIndex} |->
        byIndex[CHOOSE index \in DOMAIN byIndex : index[2] = id]]
Destinations(byIndex) ==
    [id \in {index[2] : index \in DOMAIN byIndex} |->
        Sum([index \in {j \in DOMAIN byIndex : j[2] = id} |-> byIndex[index]])]

AprsSvcQueryUniqueDestinations(svc) ==
    LET rows == Chosen(LAMBDA p : InTime(svc, p) /\ ~p.mice)
        byIndex == [d \in {packets[i].dest : i \in rows} |->
                      Cardinality({i \in rows : packets[i].dest = d})]
    IN  reply' = IF svc.start = 0 /\ svc.end = 0 /\ ~svc.all THEN [service |-> "refused"]
                 ELSE [service |-> "destinations", svc |-> svc, rows |-> rows,
                       received |-> Destinations(byIndex)]

\* The packets of each bucket of time, and on demand the buckets without any,
\* from the start or the first bucket to the end or the last one.
Empties(svc, full) ==
    LET b == svc.bucket
        start == Min((IF svc.start > 1 THEN {svc.start} ELSE {}) \cup full)
        end   == Max((IF svc.end > 1 THEN {svc.end} ELSE {}) \cup full)
    IN  {t \in ((start \div b) * b)..(end - 1) :
            t % b = 0 /\ t < ((end + b - 1) \div b) * b} \ full

AprsSvcQueryTrafficRates(svc) ==
    LET rows == Chosen(LAMBDA p : Match(svc, p))
        bucket(i) == (packets[i].when \div svc.bucket) * svc.bucket
        full == {bucket(i) : i \in rows}
        bounded == (full # {} \/ svc.start > 1) /\ (full # {} \/ svc.end > 1)
        empty == IF svc.empties /\ bounded THEN Empties(svc, full) ELSE {}
    IN  reply' = IF svc.bucket = 0 THEN [service |-> "refused"]
                 ELSE [service |-> "rates", svc |-> svc, rows |-> rows,
                       rates |-> [t \in full \cup empty |->
                                    Cardinality({i \in rows : bucket(i) = t})]]

\* A client asks for the tiles of the map of the packets it was shown.
AprsSvcCalcOSMTiles(svc) ==
    LET request == [min |-> reply.box.min, max |-> reply.box.max,
                    zoom |-> svc.zoom, maxTiles |-> svc.maxTiles, left |-> svc.left,
                    right |-> svc.right, top |-> svc.top, bottom |-> svc.bottom]
    IN  reply' = [service |-> "tiles", svc |-> request, rows |-> reply.rows,
                  map |-> CalcOSMTiles(request)]

Query ==
    /\ reply = NoReply
    /\ \E svc \in Requests[scenario] :
        \/ svc.service = "packets" /\ AprsSvcQueryPackets(svc)
        \/ svc.service = "paths" /\ AprsSvcQueryUniquePaths(svc)
        \/ svc.service = "igates" /\ AprsSvcQueryUniqueIGates(svc)
        \/ svc.service = "destinations" /\ AprsSvcQueryUniqueDestinations(svc)
        \/ svc.service = "rates" /\ AprsSvcQueryTrafficRates(svc)
    /\ UNCHANGED <<scenario, stations, packets>>

Map ==
    /\ reply.service = "packets"
    /\ \E svc \in Requests[scenario] : svc.service = "tiles" /\ AprsSvcCalcOSMTiles(svc)
    /\ UNCHANGED <<scenario, stations, packets>>

Taken ==
    /\ reply # NoReply
    /\ reply' = NoReply
    /\ UNCHANGED <<scenario, stations, packets>>

Next == Log \/ Query \/ Map \/ Taken

Spec == Init /\ [][Next]_vars

-----------------------------------------------------------------------------
(* Properties.                                                             *)

\* The tables keep their types, the stations of a packet and of its hops are
\* known, none has an empty name, and a packet heard on the air has a gate.
TypeOK ==
    /\ scenario \in Scenario
    /\ stations \in [DOMAIN stations -> Where]
    /\ DOMAIN stations \subseteq Station
    /\ Len(packets) <= MaxPackets[scenario]
    /\ \A i \in DOMAIN packets :
         LET p == packets[i] IN
         /\ p.origin \in DOMAIN stations
         /\ p.dest \in DOMAIN stations \cup {NoDest}
         /\ p.heard \in DOMAIN stations \cup {NotFound}
         /\ p.onRF \in BOOLEAN /\ p.mice \in BOOLEAN
         /\ p.when \in Nat /\ p.where \in Where
         /\ p.hops \in Seq([id : Name, used : BOOLEAN, where : Where])
         /\ \A n \in DOMAIN p.hops : Index(p.hops[n].id) \in DOMAIN stations
         /\ p.onRF => p.heard # NotFound

\* The stations the paths of a set of keys lead to from one.
Reached(keys, source) ==
    LET reach[n \in 0..MAX_HOPS] ==
            IF n = 0 THEN {source}
            ELSE reach[n - 1] \cup {k.to : k \in {key \in keys : key.from \in reach[n - 1]}}
    IN  reach[MAX_HOPS]

\* What the proofs of the properties below suppose of the packets and the requests.
\* The name a q construct gives ends the path, as the servers of APRS-IS write it;
\* it, or the monitor, is no alias.
GatesEndPaths ==
    \A s \in Scenario : \A in \in Inputs[s] :
        LET hops == Hops(in.path, in.third)
            gate == IF in.by = NoName THEN IGate(hops) ELSE in.by
        IN  gate # NoName =>
              /\ gate \notin KnownQ \cup OtherQ \cup Alias
              /\ in.by = NoName => Len(hops) >= 3 /\ Last(hops).id = gate

\* A zoom that is asked for is one of the map, and no margin is wider than a tile.
RequestsFit ==
    \A s \in Scenario : \A svc \in Requests[s] :
        svc.service = "tiles" =>
            /\ svc.zoom <= MAX_ZOOM
            /\ {svc.left, svc.right, svc.top, svc.bottom} \subseteq 0..TileSize

\* The paths between stations lead from the sender of every packet they are
\* about to the gate the packet has come by, whatever aliases, unused hops and
\* q constructs are in between.  A gate with no legal name is left out unless
\* the request takes such names.
GateIsReached ==
    reply.service = "paths" /\ ~reply.svc.direct =>
        \A i \in reply.rows :
            LET p == packets[i]
            IN  p.heard # NotFound /\ (reply.svc.invalid \/ p.heard[1] \in Call)
                    => p.heard \in Reached(DOMAIN reply.paths, Index(Last(p.hops).id))

\* A packet counts once: the packets of the gates, of the destinations and of
\* the buckets add up to the packets the request is about; and with the empty
\* ones every moment from the start asked for, or the first packet, to the end
\* asked for, or the last packet, is in exactly one bucket.
BucketsCover(svc, rates, times) ==
    LET from == IF svc.start > 1 THEN {svc.start} ELSE times
        to == IF svc.end > 1 THEN {svc.end - 1} ELSE times
    IN  from # {} /\ to # {} =>
            \A t \in Min(from)..Max(to) :
                Cardinality({b \in DOMAIN rates : b <= t /\ t < b + svc.bucket}) = 1

CountedOnce ==
    /\ reply.service = "igates" => Sum(reply.gated) = Cardinality(reply.rows)
    /\ reply.service = "destinations" => Sum(reply.received) = Cardinality(reply.rows)
    /\ reply.service = "rates" =>
         /\ Sum(reply.rates) = Cardinality(reply.rows)
         /\ reply.svc.empties =>
              BucketsCover(reply.svc, reply.rates, {packets[i].when : i \in reply.rows})

\* The map of a set of packets shows every one of them with the margins asked
\* for.  0, 0 stands for a corner that is not set, so a corner of the box that
\* comes to lie there is lost: not if no packet is on the equator or none is on
\* the meridian of Greenwich.
Places(rows) ==
    (UNION {{packets[i].where, packets[i].hops[1].where} : i \in rows}) \ {NoCoord}
EveryPacketOnMap ==
    reply.service = "tiles" =>
        LET places == Places(reply.rows) IN
        (\A p, q \in places : p.x # Zero.x \/ q.y # Zero.y) =>
            \A p \in places :
                Hold(reply.map.tiles, [reply.svc EXCEPT !.min = p, !.max = p], reply.map.zoom)

\* No higher zoom would do: the tiles that hold the box with its margins are too
\* many at each.
ClosestMap ==
    reply.service = "tiles" /\ reply.svc.zoom = 0 =>
        /\ TileCount(reply.map.tiles) <= reply.svc.maxTiles \/ reply.map.zoom = 2
        /\ \A z \in (reply.map.zoom + 1)..MAX_ZOOM :
             \A x1, x2, y1, y2 \in 0..2^z :
                LET t == [startX |-> x1, endX |-> x2, startY |-> y1, endY |-> y2]
                IN  x1 <= x2 /\ y1 <= y2 /\ Hold(t, reply.svc, z)
                        => TileCount(t) > reply.svc.maxTiles

=============================================================================
