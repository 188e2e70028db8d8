------------------------------- MODULE UserStats -------------------------------
(***************************************************************************)
(* The users of APRSISCE/32 and the versions they run (UDPListn.c).        *)
(* UDPListener, one thread, calls AprsUpdateUser for every report of a     *)
(* user: it updates the Users and UserPackets tables, records the version  *)
(* in two hashes and counts new users, upgrades and downgrades.  A second  *)
(* thread, UDPHourly, sends the counts as telemetry every 15 minutes and   *)
(* starts them again from zero.  No lock protects the counters: reading    *)
(* one and writing it back are two steps.                                  *)
(*                                                                         *)
(* A version is a name (up to its first blank) and a rest.  Left out: the  *)
(* number of a telemetry packet and the packets that define the telemetry; *)
(* AprsNotifyQueue, whose queue nobody fills.                              *)
(***************************************************************************)
EXTENDS Integers, Sequences, FiniteSets

CONSTANTS User, Version,
          NoVersion,   \* a blank version
          NoUser,      \* no row in the Users table; no station
          Name(_),     \* a version up to its first blank
          Rest(_),     \* what follows, as a number in the order of strcmp
          Within(_, _),\* TRUE if the first version is inside the longer second
          MaxReports,  \* bound: reports of users
          MaxFailures  \* bound: DbPutValues that fail

ASSUME UserBounds == MaxReports \in Nat /\ MaxFailures \in Nat
ASSUME NoVersionAssumption == NoVersion \notin Version
ASSUME NoUserAssumption == NoUser \notin User \cup Version \cup {NoVersion}
ASSUME RestAssumption == \A v \in Version : Rest(v) \in Int

Said == Version \cup {NoVersion}

\* Hourly and LastHourly
Zero == [NewUser |-> 0, Upgrade |-> 0, Downgrade |-> 0,
         ActiveVersions |-> 0, TotalVersions |-> 0]
Changes == {"NewUser", "Upgrade", "Downgrade"}

VARIABLES
    users,        \* table Users: the version of each user
    registered,   \* table Users: who has registered
    userPackets,  \* table UserPackets: the users who have rows
    VersionHash,
    HourlyHash,
    Hourly,
    LastHourly,
    LastStation,  \* AprsUpdateUser: user of the last message about a place
    xmit,         \* messages given to AprsQueueXmitPacket
    telemetry,    \* the counts in the telemetry packet sent last
    pc,           \* UDPListener: where it is in AprsUpdateUser
    user,         \* UDPListener: StationID
    version,      \* UDPListener: Version
    old,          \* UDPListener: oUser.Version
    count,        \* UDPListener: the number it has read and will write
    hpc,          \* UDPHourly: where it is
    hcount,       \* UDPHourly: the number it has read and will write
    Changed,      \* UDPHourly
    reports,      \* number of reports
    failures,     \* number of failed DbPutValues
    events,       \* how often each kind of change was seen
    reported,     \* the sum of what was counted in all LastHourly
    raced         \* TRUE once the two threads met in the counters

tables   == <<users, registered, userPackets>>
hashes   == <<VersionHash, HourlyHash>>
listener == <<pc, user, version, old, count>>
hourly   == <<hpc, hcount, Changed, LastHourly, telemetry, reported>>
messages == <<LastStation, xmit>>
world    == <<reports, failures>>
vars == <<tables, hashes, listener, hourly, messages, world, Hourly, events, raced>>

Message == [kind : {"place", "platform"}, id : User]

Pc  == {"idle", "version", "total", "active", "readActive", "writeActive",
        "compare", "write"}
Hpc == {"none", "sleep", "readActive", "writeActive", "readTotal", "writeTotal",
        "compare", "copy", "clear", "empty", "send"}

Init ==
    /\ users = [u \in User |-> NoUser]
    /\ registered = {}
    /\ userPackets = {}
    /\ VersionHash = {} /\ HourlyHash = {}
    /\ Hourly = Zero /\ LastHourly = Zero
    /\ LastStation = NoUser
    /\ xmit = <<>>
    /\ telemetry = Zero
    /\ pc = "idle" /\ user = NoUser /\ version = NoVersion /\ old = NoVersion
    /\ count = 0
    /\ hpc = "none" /\ hcount = 0 /\ Changed = FALSE
    /\ reports = 0 /\ failures = 0
    /\ events = [c \in Changes |-> 0]
    /\ reported = [c \in Changes |-> 0]
    /\ raced = FALSE

-----------------------------------------------------------------------------
(* AprsUpdateUser.                                                         *)

\* The old version is kept when the new one is a part of it, such as the
\* version without the name of the program.
Effective(o, v) == IF v # NoVersion /\ o \in Version /\ Within(v, o) THEN o ELSE v

(* Operators with a name of the form <Definition>_<Fault> are the          *)
(* definition with a plausible fault of the code: each shows that a        *)
(* property can fail.  No specification uses them.                         *)

\* The row after a successful DbPutValues: a blank version changes nothing.
Stored(o, v) == IF o # NoUser /\ v = NoVersion THEN o ELSE Effective(o, v)

\* The calls on the tables: select the user, update or insert it, insert a
\* packet if that was done.
StoreUser(u, v, ok, pkt) ==
    /\ users' = IF ok THEN [users EXCEPT ![u] = Stored(@, v)] ELSE users
    /\ userPackets' = IF ok /\ pkt THEN userPackets \cup {u} ELSE userPackets
    /\ failures' = failures + (IF ok THEN (IF pkt THEN 0 ELSE 1) ELSE 1)

\* The message about the place of a user without a version, not repeated within
\* five minutes unless another user sent one in between.
PlaceMessage(u, where, expired) ==
    IF where /\ (LastStation # u \/ expired)
    THEN LastStation' = u /\ xmit' = Append(xmit, [kind |-> "place", id |-> u])
    ELSE UNCHANGED messages

Report(u, v) ==
    /\ pc = "idle"
    /\ reports < MaxReports
    /\ reports' = reports + 1
    /\ \E ok, pkt, where, expired \in BOOLEAN :
         /\ StoreUser(u, v, ok, pkt)
         /\ failures' <= MaxFailures
         /\ IF v = NoVersion
            THEN PlaceMessage(u, where, expired) /\ UNCHANGED <<pc, user, version, old>>
            ELSE /\ pc' = "version"
                 /\ user' = u
                 /\ version' = Effective(users[u], v)
                 /\ old' = IF users[u] = NoUser THEN NoVersion ELSE users[u]
                 /\ UNCHANGED messages
    /\ UNCHANGED <<registered, hashes, count, hourly, Hourly, events, raced>>

\* The first report of a version starts UDPHourly.
RecordVersion ==
    /\ pc = "version"
    /\ VersionHash' = VersionHash \cup {version}
    /\ hpc' = IF hpc = "none" THEN "sleep" ELSE hpc
    /\ pc' = IF version \in VersionHash THEN "active" ELSE "total"
    /\ UNCHANGED <<tables, HourlyHash, user, version, old, count, hcount, Changed,
                   LastHourly, telemetry, reported, messages, world, Hourly,
                   events, raced>>

\* UDPHourly is between the first count it takes and the end of the hour.
Counting == hpc \in {"writeActive", "readTotal", "writeTotal", "compare", "copy",
                     "clear", "empty"}

Write(field, n) ==
    /\ Hourly' = [Hourly EXCEPT ![field] = n]
    /\ raced' = (raced \/ Counting)

\* Nobody else inserts versions: the number is current when it is written.
CountTotal ==
    /\ pc = "total"
    /\ Write("TotalVersions", Cardinality(VersionHash))
    /\ pc' = "active"
    /\ UNCHANGED <<tables, hashes, user, version, old, count, hourly, messages,
                   world, events>>

RecordActive ==
    /\ pc = "active"
    /\ HourlyHash' = HourlyHash \cup {version}
    /\ pc' = IF version \in HourlyHash THEN "compare" ELSE "readActive"
    /\ raced' = (raced \/ (version \notin HourlyHash /\ Counting))
    /\ UNCHANGED <<tables, VersionHash, user, version, old, count, hourly, messages,
                   world, Hourly, events>>

ReadActive ==
    /\ pc = "readActive"
    /\ count' = Cardinality(HourlyHash)
    /\ pc' = "writeActive"
    /\ UNCHANGED <<tables, hashes, user, version, old, hourly, messages, world,
                   Hourly, events, raced>>

WriteActive ==
    /\ pc = "writeActive"
    /\ Write("ActiveVersions", count)
    /\ pc' = "compare"
    /\ count' = 0
    /\ UNCHANGED <<tables, hashes, user, version, old, hourly, messages, world, events>>

\* What a report that is not what the row said counts as.
Change ==
    IF old = NoVersion THEN "NewUser"
    ELSE IF Name(old) # Name(version) THEN "Platform"
    ELSE IF Rest(old) > Rest(version) THEN "Downgrade"
    ELSE "Upgrade"

Leave ==
    /\ pc' = "idle"
    /\ user' = NoUser /\ version' = NoVersion /\ old' = NoVersion
    /\ count' = 0

Compare ==
    /\ pc = "compare"
    /\ \/ /\ version = old
          /\ Leave
          /\ UNCHANGED <<xmit, events>>
       \/ /\ version # old /\ Change = "Platform"
          /\ xmit' = Append(xmit, [kind |-> "platform", id |-> user])
          /\ Leave
          /\ UNCHANGED events
       \/ /\ version # old /\ Change # "Platform"
          /\ count' = Hourly[Change]
          /\ events' = [events EXCEPT ![Change] = @ + 1]
          /\ pc' = "write"
          /\ UNCHANGED <<user, version, old, xmit>>
    /\ UNCHANGED <<tables, hashes, hourly, LastStation, world,
                   Hourly, raced>>

Increment_Decrements ==
    /\ pc = "write"
    /\ Write(Change, count - 1)
    /\ Leave
    /\ UNCHANGED <<tables, hashes, hourly, messages, world, events>>

Increment ==
    /\ pc = "write"
    /\ Write(Change, count + 1)
    /\ Leave
    /\ UNCHANGED <<tables, hashes, hourly, messages, world, events>>

-----------------------------------------------------------------------------
(* UDPHourly.                                                              *)

\* At the next quarter of an hour.
SendLast ==
    /\ hpc = "sleep"
    /\ telemetry' = LastHourly
    /\ hpc' = "readActive"
    /\ UNCHANGED <<tables, hashes, listener, hcount, Changed, LastHourly, reported,
                   messages, world, Hourly, events, raced>>

HourlyRead(at, hash, next) ==
    /\ hpc = at
    /\ hcount' = Cardinality(hash)
    /\ hpc' = next
    /\ UNCHANGED <<tables, hashes, listener, Changed, LastHourly, telemetry, reported,
                   messages, world, Hourly, events, raced>>

HourlyWrite_Adds(at, field, next) ==
    /\ hpc = at
    /\ Hourly' = [Hourly EXCEPT ![field] = @ + hcount]
    /\ hpc' = next
    /\ hcount' = 0
    /\ UNCHANGED <<tables, hashes, listener, Changed, LastHourly, telemetry, reported,
                   messages, world, events, raced>>

HourlyWrite(at, field, next) ==
    /\ hpc = at
    /\ Hourly' = [Hourly EXCEPT ![field] = hcount]
    /\ hpc' = next
    /\ hcount' = 0
    /\ UNCHANGED <<tables, hashes, listener, Changed, LastHourly, telemetry, reported,
                   messages, world, events, raced>>

CompareHour_Inverted ==
    /\ hpc = "compare"
    /\ Changed' = (Hourly = LastHourly)
    /\ hpc' = "copy"
    /\ UNCHANGED <<tables, hashes, listener, hcount, LastHourly, telemetry, reported,
                   messages, world, Hourly, events, raced>>

\* memcmp
CompareHour ==
    /\ hpc = "compare"
    /\ Changed' = (Hourly # LastHourly)
    /\ hpc' = "copy"
    /\ UNCHANGED <<tables, hashes, listener, hcount, LastHourly, telemetry, reported,
                   messages, world, Hourly, events, raced>>

\* LastHourly = Hourly
CopyHour ==
    /\ hpc = "copy"
    /\ LastHourly' = Hourly
    /\ reported' = [c \in Changes |-> reported[c] + Hourly[c]]
    /\ hpc' = "clear"
    /\ UNCHANGED <<tables, hashes, listener, hcount, Changed, telemetry, messages,
                   world, Hourly, events, raced>>

ClearHour_Missing ==
    /\ hpc = "clear"
    /\ raced' = (raced \/ pc \in {"writeActive", "write"})
    /\ hpc' = "empty"
    /\ UNCHANGED <<tables, hashes, listener, hcount, Changed, LastHourly, telemetry,
                   reported, messages, world, Hourly, events>>

\* memset
ClearHour ==
    /\ hpc = "clear"
    /\ Hourly' = Zero
    /\ raced' = (raced \/ pc \in {"writeActive", "write"})
    /\ hpc' = "empty"
    /\ UNCHANGED <<tables, hashes, listener, hcount, Changed, LastHourly, telemetry,
                   reported, messages, world, events>>

\* DsEmptyHash.  The versions themselves belong to VersionHash.
EmptyHash ==
    /\ hpc = "empty"
    /\ HourlyHash' = {}
    /\ hpc' = "send"
    /\ UNCHANGED <<tables, VersionHash, listener, hcount, Changed, LastHourly,
                   telemetry, reported, messages, world, Hourly, events, raced>>

\* After 61 seconds, if anything changed.
SendHour ==
    /\ hpc = "send"
    /\ telemetry' = IF Changed THEN LastHourly ELSE telemetry
    /\ hpc' = "sleep"
    /\ UNCHANGED <<tables, hashes, listener, hcount, Changed, LastHourly, reported,
                   messages, world, Hourly, events, raced>>

-----------------------------------------------------------------------------
(* The services on the tables.                                             *)

AprsSvcRegisterUser(u) ==
    /\ users[u] # NoUser
    /\ registered' = registered \cup {u}
    /\ UNCHANGED <<users, userPackets, hashes, listener, hourly, messages, world,
                   Hourly, events, raced>>

\* The packets of a user or of all, or those of some time.
AprsSvcPurgeUserPackets ==
    /\ userPackets' \in SUBSET userPackets
    /\ UNCHANGED <<users, registered, hashes, listener, hourly, messages, world,
                   Hourly, events, raced>>

ListenerStep ==
    \/ RecordVersion \/ CountTotal \/ RecordActive \/ ReadActive \/ WriteActive
    \/ Compare \/ Increment

HourlyStep ==
    \/ SendLast
    \/ HourlyRead("readActive", HourlyHash, "writeActive")
    \/ HourlyWrite("writeActive", "ActiveVersions", "readTotal")
    \/ HourlyRead("readTotal", VersionHash, "writeTotal")
    \/ HourlyWrite("writeTotal", "TotalVersions", "compare")
    \/ CompareHour \/ CopyHour \/ ClearHour \/ EmptyHash \/ SendHour

Next ==
    \/ \E u \in User, v \in Said : Report(u, v)
    \/ ListenerStep
    \/ HourlyStep
    \/ \E u \in User : AprsSvcRegisterUser(u)
    \/ AprsSvcPurgeUserPackets

Spec == Init /\ [][Next]_vars

-----------------------------------------------------------------------------
(* Properties.                                                             *)

Counts == [NewUser : Nat, Upgrade : Nat, Downgrade : Nat,
           ActiveVersions : Nat, TotalVersions : Nat]

TablesType ==
    /\ users \in [User -> Said \cup {NoUser}]
    /\ registered \subseteq User
    /\ userPackets \subseteq User

HashesType == VersionHash \subseteq Version /\ HourlyHash \subseteq Version

CountsType ==
    /\ Hourly \in Counts /\ LastHourly \in Counts /\ telemetry \in Counts
    /\ events \in [Changes -> Nat] /\ reported \in [Changes -> Nat]
    /\ raced \in BOOLEAN

MessagesType ==
    /\ LastStation \in User \cup {NoUser}
    /\ xmit \in Seq(Message)

ListenerType ==
    /\ pc \in Pc /\ user \in User \cup {NoUser} /\ version \in Said /\ old \in Said
    /\ count \in Nat

HourlyType == hpc \in Hpc /\ hcount \in Nat /\ Changed \in BOOLEAN

WorldType == reports \in 0..MaxReports /\ failures \in 0..MaxFailures

\* Every variable keeps its type.
TypeOK == TablesType /\ HashesType /\ CountsType /\ MessagesType /\ ListenerType
          /\ HourlyType /\ WorldType

\* HourlyHash holds no pointer to a version that VersionHash does not own.
HourlyIsOwned == HourlyHash \subseteq VersionHash

\* A packet or a registration is only stored of a user who has a row.
UserHasRow ==
    \A u \in User : u \in userPackets \cup registered => users[u] # NoUser

\* Unless the threads met in the counters, a change is counted in one hour.
ChangeInOneHour ==
    ~raced => \A c \in Changes :
        events[c] = reported[c]
                    + (IF hpc = "clear" THEN 0 ELSE Hourly[c])
                    + (IF pc = "write" /\ Change = c THEN 1 ELSE 0)

\* Unless the threads met, the active versions of an hour are those in the hash
\* when it is emptied.
ActiveIsHash ==
    ~raced /\ hpc = "empty" => LastHourly.ActiveVersions = Cardinality(HourlyHash)

\* Unless the threads met, the telemetry sent last holds the counts of the last
\* hour while UDPHourly sleeps, also when it did not send because they are the same.
TelemetryIsLastHour == ~raced /\ hpc = "sleep" => telemetry = LastHourly

\* The number of versions does not fall from one hour to the next, whatever the
\* threads do.
TotalNeverFalls == [][LastHourly'.TotalVersions >= LastHourly.TotalVersions]_vars
=============================================================================
