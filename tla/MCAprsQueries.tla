--------------------------- MODULE MCAprsQueries ---------------------------
(* An instance of AprsQueries for TLC.                                     *)
EXTENDS AprsQueries

CONSTANTS S, D, R, G, U, W, qAR, qAI, TCPIP    \* names

At(x, y) == [x |-> x, y |-> y]
Free(id) == [id |-> id, used |-> FALSE]
Used(id) == [id |-> id, used |-> TRUE]

Packet == [path |-> <<Free(S), Free(D)>>, third |-> <<>>, by |-> NoName, obj |-> NoName,
           mice |-> FALSE, when |-> 2, where |-> At(1, 1)]
Svc(service) == [service |-> service, origin |-> NoName, relay |-> NoName, gate |-> NoName,
                 onRF |-> FALSE, start |-> 0, end |-> 0, all |-> FALSE]

\* Paths: up to two digipeaters or aliases, and what a server of APRS-IS or a
\* monitor adds.
Digis == UNION {[1..n -> {Free(R), Used(R), Free(G), Used(G), Free(W), Used(W), Used(TCPIP)}]
                : n \in 0..2}
Tails == {<<Free(qAR), Free(G)>>, <<Free(qAR), Free(U)>>, <<Free(qAI), Free(G), Free(R)>>, <<>>}

WalkInputs ==
    {[Packet EXCEPT !.path = @ \o d \o t] : d \in Digis, t \in Tails}
    \cup {[Packet EXCEPT !.path = @ \o d, !.by = G] : d \in Digis}
    \cup {[Packet EXCEPT !.third = <<Free(R), Free(D)>>, !.by = b] : b \in {NoName, G}}
    \cup {[Packet EXCEPT !.path = @ \o <<Used(R), Free(qAR), Free(G)>>, !.obj = W,
                         !.where = w] : w \in {At(1, 1), NoCoord}}

WalkRequests ==
    {[invalid |-> i, direct |-> d] @@ [Svc("paths") EXCEPT !.onRF = rf, !.relay = r, !.gate = g] :
        i, d, rf \in BOOLEAN, r \in {NoName, R}, g \in {NoName, G}}

\* Counts: two senders and two destinations, at several times.
CountInputs ==
    {[Packet EXCEPT !.path = <<Free(s), Free(d), Free(qAR), Free(G)>>, !.when = t] :
        s \in {S, R}, d \in {D, U}, t \in {2, 5, 7}}
    \cup {[Packet EXCEPT !.mice = TRUE, !.when = t] : t \in {2, 5}}

CountRequests ==
    {[bucket |-> 0, empties |-> TRUE] @@ Svc("rates")}
    \cup {[bucket |-> 2, empties |-> TRUE] @@ [Svc("rates") EXCEPT !.start = s, !.end = e] :
            s \in {0, 3, 4}, e \in {0, 6, 9}}
    \cup {[Svc(q) EXCEPT !.start = s, !.end = e, !.all = a] :
            q \in {"igates", "destinations"}, s \in {0, 3}, e \in {0, 6}, a \in BOOLEAN}

\* Maps: places all over the world.
MapInputs ==
    {[Packet EXCEPT !.path = <<Free(S), Free(D)>>, !.by = G, !.where = At(x, y)] :
        x \in {1, 8, 13}, y \in {2, 8, 12}}
    \cup {[Packet EXCEPT !.path = <<Free(G), Free(D)>>, !.by = G, !.where = At(12, 3)]}

MapRequests ==
    {[Svc("packets") EXCEPT !.onRF = TRUE]}
    \cup {[service |-> "tiles", zoom |-> z, maxTiles |-> n,
           left |-> m, right |-> r, top |-> m, bottom |-> r] :
            z \in {0, 2}, n \in {2, 4, 9}, m \in {0, 1, 2}, r \in {0, 1}}

MCScenario == {"walk", "count", "map"}
MCInputs == [walk |-> WalkInputs, count |-> CountInputs, map |-> MapInputs]
MCRequests == [walk |-> WalkRequests, count |-> CountRequests, map |-> MapRequests]
MCPackets == [walk |-> 1, count |-> 3, map |-> 3]

ASSUME MCAssumption == GatesEndPaths /\ RequestsFit

=============================================================================
