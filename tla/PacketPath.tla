----------------------------- MODULE PacketPath -----------------------------
(***************************************************************************)
(* The path of a packet, from its text to the hops in the database and to  *)
(* the paths between stations: parse.c takes the path apart and finds its  *)
(* q construct, which names the server that gated the packet to APRS-IS;   *)
(* services.c stores the hops and joins those that relayed the packet.     *)
(*                                                                         *)
(* A piece of a path is a name and the mark '*' of a station that used it. *)
(* What the code tells names apart by is their kind: call signs, aliases   *)
(* of digipeaters, q constructs, and what is none of these.                *)
(*                                                                         *)
(* Operators with a name of the form <Definition>_<Fault> are the          *)
(* definition with a plausible fault of the code: each shows that a        *)
(* property can fail.  No specification uses them.                         *)
(***************************************************************************)
EXTENDS Integers, SequencesExt

CONSTANTS Call,      \* call signs AprsIsLegalStation accepts
          Alias,     \* names that begin with WIDE or TRACE
          KnownQ,    \* qAS, qAR, qAr, qAo, qAO, qAC, qAX and qAU
          OtherQ,    \* other names that begin with q, such as qAI
          Other,     \* other names, which are no legal stations
          NoName,    \* the empty name
          MAX_HOPS   \* pieces kept of a path, 16 in the code

Name == Call \cup Alias \cup KnownQ \cup OtherQ \cup Other
Piece == [id : Name, used : BOOLEAN]

ASSUME NameAssumption ==
    /\ NoName \notin Name
    /\ \A k1, k2 \in {Call, Alias, KnownQ, OtherQ, Other} : k1 = k2 \/ k1 \cap k2 = {}
ASSUME HopsAssumption == MAX_HOPS \in Nat \ {0, 1}

(* internal_parse_aprs: the source, the destination and the pieces of the  *)
(* route, as many as there is room for.  The header of third-party traffic *)
(* replaces the path by a source and a destination.                        *)
Hops(path, third) ==
    IF third = <<>> THEN SubSeq(path, 1, IF Len(path) < MAX_HOPS THEN Len(path) ELSE MAX_HOPS)
    ELSE third

(* parse_route: the name after the last q construct, if it is a known one. *)
IGate(hops) ==
    LET Q == {i \in DOMAIN hops : hops[i].id \in KnownQ \cup OtherQ}
        q == CHOOSE i \in Q : \A j \in Q : j <= i
    IN  IF Q # {} /\ hops[q].id \in KnownQ /\ q < Len(hops) THEN hops[q + 1].id ELSE NoName

(* AprsInsertHops: a row for each hop but the destination, the last hop is *)
(* Sequence 1.                                                             *)
HopRows(hops) == Reverse(<<hops[1]>> \o SubSeq(hops, 3, Len(hops)))

(* AprsFilterUniquePaths walks the hops of a packet from its source, the   *)
(* highest Sequence, down to 1: `from' is where the path has come, `at' its *)
(* position.  A path between stations is another one when they moved.      *)
Index(id) == <<id, id>>    \* of a station that is its own owner
Skipped(id, invalid) ==
    id \in KnownQ \cup OtherQ \cup Alias \/ (~invalid /\ id \notin Call)

NotUsed_NoGate(walk, hop, seq) == walk.passedUsed /\ ~hop.used
NotUsed(walk, hop, seq) == walk.passedUsed /\ ~hop.used /\ seq # 1

Walk(rows, invalid, origin, heard) ==
    LET start == [from |-> Index(Last(rows).id), at |-> Last(rows).where,
                  passedUsed |-> \A i \in DOMAIN rows : ~rows[i].used,
                  keys |-> <<>>]
        step(before, seq) ==
            LET hop == rows[seq]
                taken == ~Skipped(hop.id, invalid) /\ ~NotUsed(before, hop, seq)
                key == [from |-> before.from, fromAt |-> before.at,
                        to |-> Index(hop.id), toAt |-> hop.where,
                        relay |-> before.from # origin, igate |-> Index(hop.id) = heard]
            IN  [from |-> IF taken THEN key.to ELSE before.from,
                 at |-> IF taken THEN key.toAt ELSE before.at,
                 passedUsed |-> before.passedUsed \/ hop.used,
                 keys |-> IF taken THEN Append(before.keys, key) ELSE before.keys]
        walk[seq \in DOMAIN rows] ==
            IF seq = Len(rows) THEN start ELSE step(walk[seq + 1], seq)
    IN  walk[1].keys

=============================================================================
