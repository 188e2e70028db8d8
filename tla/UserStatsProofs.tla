---------------------------- MODULE UserStatsProofs ----------------------------
(***************************************************************************)
(* Proofs about UserStats, for any users and versions and any number of    *)
(* reports and failures.                                                   *)
(***************************************************************************)
EXTENDS UserStats, FiniteSetTheorems, TLAPS

(* What the label of the listener says of its locals.                      *)
ControlOK ==
    /\ IsFiniteSet(VersionHash) /\ IsFiniteSet(HourlyHash)
    /\ pc # "idle" => user \in User /\ version \in Version
    /\ pc \in {"total", "active"} => version \in VersionHash
    /\ pc = "write" => Change \in Changes

USE UserBounds, NoVersionAssumption, NoUserAssumption, RestAssumption
    DEF vars, tables, hashes, listener, hourly, messages, world

-----------------------------------------------------------------------------
(* What Compare finds is one of the changes, or a change of platform.      *)
LEMMA ChangeIsOne == Change \in Changes \cup {"Platform"}
BY DEF Change, Changes

LEMMA AppendMessage ==
    ASSUME MessagesType, NEW k \in {"place", "platform"}, NEW u \in User
    PROVE  Append(xmit, [kind |-> k, id |-> u]) \in Seq(Message)
<1> DEFINE m == [kind |-> k, id |-> u]
<1>1. m \in Message BY DEF Message
<1>2. xmit \in Seq(Message) BY DEF MessagesType
<1> HIDE DEF m
<1>3. Append(xmit, m) \in Seq(Message) BY <1>1, <1>2
<1> QED BY <1>3 DEF m

(* The types, part by part.                                                *)
LEMMA TablesTypeKept ==
    ASSUME TypeOK, [Next]_vars
    PROVE  TablesType'
<1> USE DEF TypeOK
<1>1. ASSUME NEW u \in User, NEW v \in Said, Report(u, v) PROVE TablesType'
  BY <1>1 DEF Report, StoreUser, Stored, Effective, Said, TypeOK, TablesType
<1>2. CASE RecordVersion
  BY <1>2 DEF RecordVersion, TablesType
<1>3. CASE CountTotal
  BY <1>3 DEF CountTotal, TablesType
<1>4. CASE RecordActive
  BY <1>4 DEF RecordActive, TablesType
<1>5. CASE ReadActive
  BY <1>5 DEF ReadActive, TablesType
<1>6. CASE WriteActive
  BY <1>6 DEF WriteActive, TablesType
<1>7. CASE Compare
  BY <1>7 DEF Compare, TablesType
<1>8. CASE Increment
  BY <1>8 DEF Increment, TablesType
<1>9. CASE SendLast
  BY <1>9 DEF SendLast, TablesType
<1>10. CASE HourlyRead("readActive", HourlyHash, "writeActive")
  BY <1>10 DEF HourlyRead, TablesType
<1>11. CASE HourlyWrite("writeActive", "ActiveVersions", "readTotal")
  BY <1>11 DEF HourlyWrite, TablesType
<1>12. CASE HourlyRead("readTotal", VersionHash, "writeTotal")
  BY <1>12 DEF HourlyRead, TablesType
<1>13. CASE HourlyWrite("writeTotal", "TotalVersions", "compare")
  BY <1>13 DEF HourlyWrite, TablesType
<1>14. CASE CompareHour
  BY <1>14 DEF CompareHour, TablesType
<1>15. CASE CopyHour
  BY <1>15 DEF CopyHour, TablesType
<1>16. CASE ClearHour
  BY <1>16 DEF ClearHour, TablesType
<1>17. CASE EmptyHash
  BY <1>17 DEF EmptyHash, TablesType
<1>18. CASE SendHour
  BY <1>18 DEF SendHour, TablesType
<1>19. ASSUME NEW u \in User, AprsSvcRegisterUser(u) PROVE TablesType'
  BY <1>19 DEF AprsSvcRegisterUser, TypeOK, TablesType
<1>20. CASE AprsSvcPurgeUserPackets
  BY <1>20 DEF AprsSvcPurgeUserPackets, TablesType
<1>21. CASE UNCHANGED vars
  BY <1>21 DEF TablesType
<1> QED BY <1>1, <1>2, <1>3, <1>4, <1>5, <1>6, <1>7, <1>8, <1>9, <1>10, <1>11, <1>12,
      <1>13, <1>14, <1>15, <1>16, <1>17, <1>18, <1>19, <1>20, <1>21
  DEF Next, ListenerStep, HourlyStep


LEMMA HashesTypeKept ==
    ASSUME TypeOK, ControlOK, [Next]_vars
    PROVE  HashesType'
<1> USE DEF TypeOK, ControlOK
<1>1. ASSUME NEW u \in User, NEW v \in Said, Report(u, v) PROVE HashesType'
  BY <1>1 DEF Report, HashesType
<1>2. CASE RecordVersion
  BY <1>2 DEF RecordVersion, HashesType
<1>3. CASE CountTotal
  BY <1>3 DEF CountTotal, HashesType
<1>4. CASE RecordActive
  BY <1>4 DEF RecordActive, HashesType
<1>5. CASE ReadActive
  BY <1>5 DEF ReadActive, HashesType
<1>6. CASE WriteActive
  BY <1>6 DEF WriteActive, HashesType
<1>7. CASE Compare
  BY <1>7 DEF Compare, HashesType
<1>8. CASE Increment
  BY <1>8 DEF Increment, HashesType
<1>9. CASE SendLast
  BY <1>9 DEF SendLast, HashesType
<1>10. CASE HourlyRead("readActive", HourlyHash, "writeActive")
  BY <1>10 DEF HourlyRead, HashesType
<1>11. CASE HourlyWrite("writeActive", "ActiveVersions", "readTotal")
  BY <1>11 DEF HourlyWrite, HashesType
<1>12. CASE HourlyRead("readTotal", VersionHash, "writeTotal")
  BY <1>12 DEF HourlyRead, HashesType
<1>13. CASE HourlyWrite("writeTotal", "TotalVersions", "compare")
  BY <1>13 DEF HourlyWrite, HashesType
<1>14. CASE CompareHour
  BY <1>14 DEF CompareHour, HashesType
<1>15. CASE CopyHour
  BY <1>15 DEF CopyHour, HashesType
<1>16. CASE ClearHour
  BY <1>16 DEF ClearHour, HashesType
<1>17. CASE EmptyHash
  BY <1>17 DEF EmptyHash, HashesType
<1>18. CASE SendHour
  BY <1>18 DEF SendHour, HashesType
<1>19. ASSUME NEW u \in User, AprsSvcRegisterUser(u) PROVE HashesType'
  BY <1>19 DEF AprsSvcRegisterUser, HashesType
<1>20. CASE AprsSvcPurgeUserPackets
  BY <1>20 DEF AprsSvcPurgeUserPackets, HashesType
<1>21. CASE UNCHANGED vars
  BY <1>21 DEF HashesType
<1> QED BY <1>1, <1>2, <1>3, <1>4, <1>5, <1>6, <1>7, <1>8, <1>9, <1>10, <1>11, <1>12,
      <1>13, <1>14, <1>15, <1>16, <1>17, <1>18, <1>19, <1>20, <1>21
  DEF Next, ListenerStep, HourlyStep


LEMMA CountsTypeKept ==
    ASSUME TypeOK, ControlOK, [Next]_vars
    PROVE  CountsType'
<1> USE DEF TypeOK, ControlOK, Counts, Changes, HourlyType
<1>1. ASSUME NEW u \in User, NEW v \in Said, Report(u, v) PROVE CountsType'
  BY <1>1 DEF Report, CountsType
<1>2. CASE RecordVersion
  BY <1>2 DEF RecordVersion, CountsType
<1>3. CASE CountTotal
  BY <1>3, FS_CardinalityType DEF CountTotal, Write, CountsType
<1>4. CASE RecordActive
  BY <1>4 DEF RecordActive, CountsType
<1>5. CASE ReadActive
  BY <1>5 DEF ReadActive, CountsType
<1>6. CASE WriteActive
  BY <1>6 DEF WriteActive, Write, ListenerType, CountsType
<1>7. CASE Compare
  <2> DEFINE c == Change
  <2>1. c \in Changes \cup {"Platform"} BY ChangeIsOne
  <2>2. UNCHANGED <<Hourly, LastHourly, telemetry, reported, raced>>
    BY <1>7 DEF Compare
  <2>3. events' = events \/ (c \in Changes /\ events' = [events EXCEPT ![c] = @ + 1])
    BY <1>7, <2>1 DEF Compare
  <2> HIDE DEF c
  <2>4. events \in [Changes -> Nat] BY DEF CountsType
  <2>5. events' \in [Changes -> Nat] BY <2>3, <2>4
  <2> QED BY <2>2, <2>5 DEF CountsType
<1>8. CASE Increment
  BY <1>8 DEF Increment, Write, ListenerType, CountsType
<1>9. CASE SendLast
  BY <1>9 DEF SendLast, CountsType
<1>10. CASE HourlyRead("readActive", HourlyHash, "writeActive")
  BY <1>10 DEF HourlyRead, CountsType
<1>11. CASE HourlyWrite("writeActive", "ActiveVersions", "readTotal")
  BY <1>11 DEF HourlyWrite, CountsType
<1>12. CASE HourlyRead("readTotal", VersionHash, "writeTotal")
  BY <1>12 DEF HourlyRead, CountsType
<1>13. CASE HourlyWrite("writeTotal", "TotalVersions", "compare")
  BY <1>13 DEF HourlyWrite, CountsType
<1>14. CASE CompareHour
  BY <1>14 DEF CompareHour, CountsType
<1>15. CASE CopyHour
  BY <1>15 DEF CopyHour, CountsType
<1>16. CASE ClearHour
  BY <1>16 DEF ClearHour, Zero, CountsType
<1>17. CASE EmptyHash
  BY <1>17 DEF EmptyHash, CountsType
<1>18. CASE SendHour
  BY <1>18 DEF SendHour, CountsType
<1>19. ASSUME NEW u \in User, AprsSvcRegisterUser(u) PROVE CountsType'
  BY <1>19 DEF AprsSvcRegisterUser, CountsType
<1>20. CASE AprsSvcPurgeUserPackets
  BY <1>20 DEF AprsSvcPurgeUserPackets, CountsType
<1>21. CASE UNCHANGED vars
  BY <1>21 DEF CountsType
<1> QED BY <1>1, <1>2, <1>3, <1>4, <1>5, <1>6, <1>7, <1>8, <1>9, <1>10, <1>11, <1>12,
      <1>13, <1>14, <1>15, <1>16, <1>17, <1>18, <1>19, <1>20, <1>21
  DEF Next, ListenerStep, HourlyStep


LEMMA MessagesTypeKept ==
    ASSUME TypeOK, ControlOK, [Next]_vars
    PROVE  MessagesType'
<1> USE DEF TypeOK, ControlOK
<1>1. ASSUME NEW u \in User, NEW v \in Said, Report(u, v) PROVE MessagesType'
  BY <1>1, AppendMessage DEF Report, PlaceMessage, MessagesType
<1>2. CASE RecordVersion
  BY <1>2 DEF RecordVersion, MessagesType
<1>3. CASE CountTotal
  BY <1>3 DEF CountTotal, MessagesType
<1>4. CASE RecordActive
  BY <1>4 DEF RecordActive, MessagesType
<1>5. CASE ReadActive
  BY <1>5 DEF ReadActive, MessagesType
<1>6. CASE WriteActive
  BY <1>6 DEF WriteActive, MessagesType
<1>7. CASE Compare
  BY <1>7, AppendMessage DEF Compare, MessagesType
<1>8. CASE Increment
  BY <1>8 DEF Increment, MessagesType
<1>9. CASE SendLast
  BY <1>9 DEF SendLast, MessagesType
<1>10. CASE HourlyRead("readActive", HourlyHash, "writeActive")
  BY <1>10 DEF HourlyRead, MessagesType
<1>11. CASE HourlyWrite("writeActive", "ActiveVersions", "readTotal")
  BY <1>11 DEF HourlyWrite, MessagesType
<1>12. CASE HourlyRead("readTotal", VersionHash, "writeTotal")
  BY <1>12 DEF HourlyRead, MessagesType
<1>13. CASE HourlyWrite("writeTotal", "TotalVersions", "compare")
  BY <1>13 DEF HourlyWrite, MessagesType
<1>14. CASE CompareHour
  BY <1>14 DEF CompareHour, MessagesType
<1>15. CASE CopyHour
  BY <1>15 DEF CopyHour, MessagesType
<1>16. CASE ClearHour
  BY <1>16 DEF ClearHour, MessagesType
<1>17. CASE EmptyHash
  BY <1>17 DEF EmptyHash, MessagesType
<1>18. CASE SendHour
  BY <1>18 DEF SendHour, MessagesType
<1>19. ASSUME NEW u \in User, AprsSvcRegisterUser(u) PROVE MessagesType'
  BY <1>19 DEF AprsSvcRegisterUser, MessagesType
<1>20. CASE AprsSvcPurgeUserPackets
  BY <1>20 DEF AprsSvcPurgeUserPackets, MessagesType
<1>21. CASE UNCHANGED vars
  BY <1>21 DEF MessagesType
<1> QED BY <1>1, <1>2, <1>3, <1>4, <1>5, <1>6, <1>7, <1>8, <1>9, <1>10, <1>11, <1>12,
      <1>13, <1>14, <1>15, <1>16, <1>17, <1>18, <1>19, <1>20, <1>21
  DEF Next, ListenerStep, HourlyStep


LEMMA ListenerTypeKept ==
    ASSUME TypeOK, ControlOK, [Next]_vars
    PROVE  ListenerType'
<1> USE DEF TypeOK, ControlOK, Pc, Said
<1>1. ASSUME NEW u \in User, NEW v \in Said, Report(u, v) PROVE ListenerType'
  BY <1>1 DEF Report, Effective, TablesType, ListenerType
<1>2. CASE RecordVersion
  BY <1>2 DEF RecordVersion, ListenerType
<1>3. CASE CountTotal
  BY <1>3 DEF CountTotal, ListenerType
<1>4. CASE RecordActive
  BY <1>4 DEF RecordActive, ListenerType
<1>5. CASE ReadActive
  BY <1>5, FS_CardinalityType DEF ReadActive, ListenerType
<1>6. CASE WriteActive
  BY <1>6 DEF WriteActive, ListenerType
<1>7. CASE Compare
  <2> DEFINE c == Change
  <2>1. c \in Changes \cup {"Platform"} BY ChangeIsOne
  <2>2. \/ Leave
        \/ /\ c \in Changes /\ count' = Hourly[c] /\ pc' = "write"
           /\ UNCHANGED <<user, version, old>>
    BY <1>7, <2>1 DEF Compare
  <2> HIDE DEF c
  <2>3. c \in Changes => Hourly[c] \in Nat BY DEF CountsType, Counts, Changes
  <2> QED BY <2>2, <2>3 DEF ListenerType, Leave
<1>8. CASE Increment
  BY <1>8 DEF Increment, Leave, ListenerType
<1>9. CASE SendLast
  BY <1>9 DEF SendLast, ListenerType
<1>10. CASE HourlyRead("readActive", HourlyHash, "writeActive")
  BY <1>10 DEF HourlyRead, ListenerType
<1>11. CASE HourlyWrite("writeActive", "ActiveVersions", "readTotal")
  BY <1>11 DEF HourlyWrite, ListenerType
<1>12. CASE HourlyRead("readTotal", VersionHash, "writeTotal")
  BY <1>12 DEF HourlyRead, ListenerType
<1>13. CASE HourlyWrite("writeTotal", "TotalVersions", "compare")
  BY <1>13 DEF HourlyWrite, ListenerType
<1>14. CASE CompareHour
  BY <1>14 DEF CompareHour, ListenerType
<1>15. CASE CopyHour
  BY <1>15 DEF CopyHour, ListenerType
<1>16. CASE ClearHour
  BY <1>16 DEF ClearHour, ListenerType
<1>17. CASE EmptyHash
  BY <1>17 DEF EmptyHash, ListenerType
<1>18. CASE SendHour
  BY <1>18 DEF SendHour, ListenerType
<1>19. ASSUME NEW u \in User, AprsSvcRegisterUser(u) PROVE ListenerType'
  BY <1>19 DEF AprsSvcRegisterUser, ListenerType
<1>20. CASE AprsSvcPurgeUserPackets
  BY <1>20 DEF AprsSvcPurgeUserPackets, ListenerType
<1>21. CASE UNCHANGED vars
  BY <1>21 DEF ListenerType
<1> QED BY <1>1, <1>2, <1>3, <1>4, <1>5, <1>6, <1>7, <1>8, <1>9, <1>10, <1>11, <1>12,
      <1>13, <1>14, <1>15, <1>16, <1>17, <1>18, <1>19, <1>20, <1>21
  DEF Next, ListenerStep, HourlyStep


LEMMA HourlyTypeKept ==
    ASSUME TypeOK, ControlOK, [Next]_vars
    PROVE  HourlyType'
<1> USE DEF TypeOK, ControlOK, Hpc
<1>1. ASSUME NEW u \in User, NEW v \in Said, Report(u, v) PROVE HourlyType'
  BY <1>1 DEF Report, HourlyType
<1>2. CASE RecordVersion
  BY <1>2 DEF RecordVersion, HourlyType
<1>3. CASE CountTotal
  BY <1>3 DEF CountTotal, HourlyType
<1>4. CASE RecordActive
  BY <1>4 DEF RecordActive, HourlyType
<1>5. CASE ReadActive
  BY <1>5 DEF ReadActive, HourlyType
<1>6. CASE WriteActive
  BY <1>6 DEF WriteActive, HourlyType
<1>7. CASE Compare
  BY <1>7 DEF Compare, HourlyType
<1>8. CASE Increment
  BY <1>8 DEF Increment, HourlyType
<1>9. CASE SendLast
  BY <1>9 DEF SendLast, HourlyType
<1>10. CASE HourlyRead("readActive", HourlyHash, "writeActive")
  BY <1>10, FS_CardinalityType DEF HourlyRead, HourlyType
<1>11. CASE HourlyWrite("writeActive", "ActiveVersions", "readTotal")
  BY <1>11 DEF HourlyWrite, HourlyType
<1>12. CASE HourlyRead("readTotal", VersionHash, "writeTotal")
  BY <1>12, FS_CardinalityType DEF HourlyRead, HourlyType
<1>13. CASE HourlyWrite("writeTotal", "TotalVersions", "compare")
  BY <1>13 DEF HourlyWrite, HourlyType
<1>14. CASE CompareHour
  BY <1>14 DEF CompareHour, HourlyType
<1>15. CASE CopyHour
  BY <1>15 DEF CopyHour, HourlyType
<1>16. CASE ClearHour
  BY <1>16 DEF ClearHour, HourlyType
<1>17. CASE EmptyHash
  BY <1>17 DEF EmptyHash, HourlyType
<1>18. CASE SendHour
  BY <1>18 DEF SendHour, HourlyType
<1>19. ASSUME NEW u \in User, AprsSvcRegisterUser(u) PROVE HourlyType'
  BY <1>19 DEF AprsSvcRegisterUser, HourlyType
<1>20. CASE AprsSvcPurgeUserPackets
  BY <1>20 DEF AprsSvcPurgeUserPackets, HourlyType
<1>21. CASE UNCHANGED vars
  BY <1>21 DEF HourlyType
<1> QED BY <1>1, <1>2, <1>3, <1>4, <1>5, <1>6, <1>7, <1>8, <1>9, <1>10, <1>11, <1>12,
      <1>13, <1>14, <1>15, <1>16, <1>17, <1>18, <1>19, <1>20, <1>21
  DEF Next, ListenerStep, HourlyStep


LEMMA WorldTypeKept ==
    ASSUME TypeOK, [Next]_vars
    PROVE  WorldType'
<1> USE DEF TypeOK
<1>1. ASSUME NEW u \in User, NEW v \in Said, Report(u, v) PROVE WorldType'
  BY <1>1 DEF Report, StoreUser, WorldType
<1>2. CASE RecordVersion
  BY <1>2 DEF RecordVersion, WorldType
<1>3. CASE CountTotal
  BY <1>3 DEF CountTotal, WorldType
<1>4. CASE RecordActive
  BY <1>4 DEF RecordActive, WorldType
<1>5. CASE ReadActive
  BY <1>5 DEF ReadActive, WorldType
<1>6. CASE WriteActive
  BY <1>6 DEF WriteActive, WorldType
<1>7. CASE Compare
  BY <1>7 DEF Compare, WorldType
<1>8. CASE Increment
  BY <1>8 DEF Increment, WorldType
<1>9. CASE SendLast
  BY <1>9 DEF SendLast, WorldType
<1>10. CASE HourlyRead("readActive", HourlyHash, "writeActive")
  BY <1>10 DEF HourlyRead, WorldType
<1>11. CASE HourlyWrite("writeActive", "ActiveVersions", "readTotal")
  BY <1>11 DEF HourlyWrite, WorldType
<1>12. CASE HourlyRead("readTotal", VersionHash, "writeTotal")
  BY <1>12 DEF HourlyRead, WorldType
<1>13. CASE HourlyWrite("writeTotal", "TotalVersions", "compare")
  BY <1>13 DEF HourlyWrite, WorldType
<1>14. CASE CompareHour
  BY <1>14 DEF CompareHour, WorldType
<1>15. CASE CopyHour
  BY <1>15 DEF CopyHour, WorldType
<1>16. CASE ClearHour
  BY <1>16 DEF ClearHour, WorldType
<1>17. CASE EmptyHash
  BY <1>17 DEF EmptyHash, WorldType
<1>18. CASE SendHour
  BY <1>18 DEF SendHour, WorldType
<1>19. ASSUME NEW u \in User, AprsSvcRegisterUser(u) PROVE WorldType'
  BY <1>19 DEF AprsSvcRegisterUser, WorldType
<1>20. CASE AprsSvcPurgeUserPackets
  BY <1>20 DEF AprsSvcPurgeUserPackets, WorldType
<1>21. CASE UNCHANGED vars
  BY <1>21 DEF WorldType
<1> QED BY <1>1, <1>2, <1>3, <1>4, <1>5, <1>6, <1>7, <1>8, <1>9, <1>10, <1>11, <1>12,
      <1>13, <1>14, <1>15, <1>16, <1>17, <1>18, <1>19, <1>20, <1>21
  DEF Next, ListenerStep, HourlyStep

(* The labels.                                                             *)
LEMMA ControlKept ==
    ASSUME TypeOK, ControlOK, [Next]_vars
    PROVE  ControlOK'
<1> USE DEF Change, TypeOK, HashesType, Said
<1>1. ASSUME NEW u \in User, NEW v \in Said, Report(u, v) PROVE ControlOK'
  BY <1>1 DEF Report, Effective, ControlOK
<1>2. CASE RecordVersion
  BY <1>2, FS_AddElement DEF RecordVersion, ControlOK
<1>3. CASE CountTotal
  BY <1>3 DEF CountTotal, ControlOK
<1>4. CASE RecordActive
  BY <1>4, FS_AddElement DEF RecordActive, ControlOK
<1>5. CASE ReadActive
  BY <1>5 DEF ReadActive, ControlOK
<1>6. CASE WriteActive
  BY <1>6 DEF WriteActive, ControlOK
<1>7. CASE Compare
  BY <1>7 DEF Compare, Change, Changes, Leave, ControlOK
<1>8. CASE Increment
  BY <1>8 DEF Increment, Leave, ControlOK
<1>9. CASE SendLast
  BY <1>9 DEF SendLast, ControlOK
<1>10. CASE HourlyRead("readActive", HourlyHash, "writeActive")
  BY <1>10 DEF HourlyRead, ControlOK
<1>11. CASE HourlyWrite("writeActive", "ActiveVersions", "readTotal")
  BY <1>11 DEF HourlyWrite, ControlOK
<1>12. CASE HourlyRead("readTotal", VersionHash, "writeTotal")
  BY <1>12 DEF HourlyRead, ControlOK
<1>13. CASE HourlyWrite("writeTotal", "TotalVersions", "compare")
  BY <1>13 DEF HourlyWrite, ControlOK
<1>14. CASE CompareHour
  BY <1>14 DEF CompareHour, ControlOK
<1>15. CASE CopyHour
  BY <1>15 DEF CopyHour, ControlOK
<1>16. CASE ClearHour
  BY <1>16 DEF ClearHour, ControlOK
<1>17. CASE EmptyHash
  BY <1>17, FS_EmptySet DEF EmptyHash, ControlOK
<1>18. CASE SendHour
  BY <1>18 DEF SendHour, ControlOK
<1>19. ASSUME NEW u \in User, AprsSvcRegisterUser(u) PROVE ControlOK'
  BY <1>19 DEF AprsSvcRegisterUser, ControlOK
<1>20. CASE AprsSvcPurgeUserPackets
  BY <1>20 DEF AprsSvcPurgeUserPackets, ControlOK
<1>21. CASE UNCHANGED vars
  BY <1>21 DEF ControlOK
<1> QED BY <1>1, <1>2, <1>3, <1>4, <1>5, <1>6, <1>7, <1>8, <1>9, <1>10, <1>11, <1>12,
      <1>13, <1>14, <1>15, <1>16, <1>17, <1>18, <1>19, <1>20, <1>21
  DEF Next, ListenerStep, HourlyStep

-----------------------------------------------------------------------------
(* The inductive invariants.                                               *)
Base == TypeOK /\ ControlOK

(* The number that Increment will write is one more than what is there.    *)
ChangeInv ==
    ChangeInOneHour /\ (~raced /\ pc = "write" => count = Hourly[Change])

(* The telemetry is that of the last hour, or Changed says it is not.      *)
TelemetryInv == ~raced =>
    /\ hpc \notin {"clear", "empty", "send"} => telemetry = LastHourly
    /\ hpc = "copy" => (Changed <=> Hourly # LastHourly)
    /\ hpc \in {"clear", "empty", "send"} => Changed \/ telemetry = LastHourly

(* The number of active versions on its way from the hash to LastHourly.   *)
ActiveInv == ~raced =>
    /\ hpc = "writeActive" => hcount = Cardinality(HourlyHash)
    /\ hpc \in {"readTotal", "writeTotal", "compare", "copy"} =>
          Hourly.ActiveVersions = Cardinality(HourlyHash)
    /\ hpc \in {"clear", "empty"} => LastHourly.ActiveVersions = Cardinality(HourlyHash)

(* So does the number of all versions, between the last one and the hash.  *)
TotalInv ==
    /\ LastHourly.TotalVersions <= Cardinality(VersionHash)
    /\ Hourly.TotalVersions <= Cardinality(VersionHash)
    /\ hpc = "writeTotal" => hcount \in LastHourly.TotalVersions..Cardinality(VersionHash)
    /\ hpc \in {"compare", "copy"} => LastHourly.TotalVersions <= Hourly.TotalVersions

IInv == Base /\ HourlyIsOwned /\ UserHasRow /\ ChangeInv /\ TelemetryInv /\ ActiveInv
        /\ TotalInv

(* The rows and the hashes.                                                *)
LEMMA OwnedKept ==
    ASSUME Base, HourlyIsOwned, [Next]_vars
    PROVE  HourlyIsOwned'
<1> USE DEF Base
<1>1. ASSUME NEW u \in User, NEW v \in Said, Report(u, v) PROVE HourlyIsOwned'
  BY <1>1 DEF Report, HourlyIsOwned
<1>2. CASE RecordVersion
  BY <1>2 DEF RecordVersion, HourlyIsOwned
<1>3. CASE CountTotal
  BY <1>3 DEF CountTotal, HourlyIsOwned
<1>4. CASE RecordActive
  BY <1>4 DEF RecordActive, ControlOK, HourlyIsOwned
<1>5. CASE ReadActive
  BY <1>5 DEF ReadActive, HourlyIsOwned
<1>6. CASE WriteActive
  BY <1>6 DEF WriteActive, HourlyIsOwned
<1>7. CASE Compare
  BY <1>7 DEF Compare, HourlyIsOwned
<1>8. CASE Increment
  BY <1>8 DEF Increment, HourlyIsOwned
<1>9. CASE SendLast
  BY <1>9 DEF SendLast, HourlyIsOwned
<1>10. CASE HourlyRead("readActive", HourlyHash, "writeActive")
  BY <1>10 DEF HourlyRead, HourlyIsOwned
<1>11. CASE HourlyWrite("writeActive", "ActiveVersions", "readTotal")
  BY <1>11 DEF HourlyWrite, HourlyIsOwned
<1>12. CASE HourlyRead("readTotal", VersionHash, "writeTotal")
  BY <1>12 DEF HourlyRead, HourlyIsOwned
<1>13. CASE HourlyWrite("writeTotal", "TotalVersions", "compare")
  BY <1>13 DEF HourlyWrite, HourlyIsOwned
<1>14. CASE CompareHour
  BY <1>14 DEF CompareHour, HourlyIsOwned
<1>15. CASE CopyHour
  BY <1>15 DEF CopyHour, HourlyIsOwned
<1>16. CASE ClearHour
  BY <1>16 DEF ClearHour, HourlyIsOwned
<1>17. CASE EmptyHash
  BY <1>17 DEF EmptyHash, HourlyIsOwned
<1>18. CASE SendHour
  BY <1>18 DEF SendHour, HourlyIsOwned
<1>19. ASSUME NEW u \in User, AprsSvcRegisterUser(u) PROVE HourlyIsOwned'
  BY <1>19 DEF AprsSvcRegisterUser, HourlyIsOwned
<1>20. CASE AprsSvcPurgeUserPackets
  BY <1>20 DEF AprsSvcPurgeUserPackets, HourlyIsOwned
<1>21. CASE UNCHANGED vars
  BY <1>21 DEF HourlyIsOwned
<1> QED BY <1>1, <1>2, <1>3, <1>4, <1>5, <1>6, <1>7, <1>8, <1>9, <1>10, <1>11, <1>12,
      <1>13, <1>14, <1>15, <1>16, <1>17, <1>18, <1>19, <1>20, <1>21
  DEF Next, ListenerStep, HourlyStep


LEMMA RowKept ==
    ASSUME Base, UserHasRow, [Next]_vars
    PROVE  UserHasRow'
<1> USE DEF Base, TypeOK, TablesType
<1>1. ASSUME NEW u \in User, NEW v \in Said, Report(u, v) PROVE UserHasRow'
  BY <1>1 DEF Report, StoreUser, Stored, Effective, Said, UserHasRow
<1>2. CASE RecordVersion
  BY <1>2 DEF RecordVersion, UserHasRow
<1>3. CASE CountTotal
  BY <1>3 DEF CountTotal, UserHasRow
<1>4. CASE RecordActive
  BY <1>4 DEF RecordActive, UserHasRow
<1>5. CASE ReadActive
  BY <1>5 DEF ReadActive, UserHasRow
<1>6. CASE WriteActive
  BY <1>6 DEF WriteActive, UserHasRow
<1>7. CASE Compare
  BY <1>7 DEF Compare, UserHasRow
<1>8. CASE Increment
  BY <1>8 DEF Increment, UserHasRow
<1>9. CASE SendLast
  BY <1>9 DEF SendLast, UserHasRow
<1>10. CASE HourlyRead("readActive", HourlyHash, "writeActive")
  BY <1>10 DEF HourlyRead, UserHasRow
<1>11. CASE HourlyWrite("writeActive", "ActiveVersions", "readTotal")
  BY <1>11 DEF HourlyWrite, UserHasRow
<1>12. CASE HourlyRead("readTotal", VersionHash, "writeTotal")
  BY <1>12 DEF HourlyRead, UserHasRow
<1>13. CASE HourlyWrite("writeTotal", "TotalVersions", "compare")
  BY <1>13 DEF HourlyWrite, UserHasRow
<1>14. CASE CompareHour
  BY <1>14 DEF CompareHour, UserHasRow
<1>15. CASE CopyHour
  BY <1>15 DEF CopyHour, UserHasRow
<1>16. CASE ClearHour
  BY <1>16 DEF ClearHour, UserHasRow
<1>17. CASE EmptyHash
  BY <1>17 DEF EmptyHash, UserHasRow
<1>18. CASE SendHour
  BY <1>18 DEF SendHour, UserHasRow
<1>19. ASSUME NEW u \in User, AprsSvcRegisterUser(u) PROVE UserHasRow'
  BY <1>19 DEF AprsSvcRegisterUser, UserHasRow
<1>20. CASE AprsSvcPurgeUserPackets
  BY <1>20 DEF AprsSvcPurgeUserPackets, UserHasRow
<1>21. CASE UNCHANGED vars
  BY <1>21 DEF UserHasRow
<1> QED BY <1>1, <1>2, <1>3, <1>4, <1>5, <1>6, <1>7, <1>8, <1>9, <1>10, <1>11, <1>12,
      <1>13, <1>14, <1>15, <1>16, <1>17, <1>18, <1>19, <1>20, <1>21
  DEF Next, ListenerStep, HourlyStep

(* Change and the counters it picks from.                                  *)
LEMMA SameChange == ASSUME UNCHANGED <<old, version>> PROVE Change' = Change
BY DEF Change

LEMMA CountsOfChanges ==
    ASSUME CountsType, NEW c \in Changes
    PROVE  /\ events[c] \in Nat /\ reported[c] \in Nat /\ Hourly[c] \in Nat
           /\ c \notin {"ActiveVersions", "TotalVersions"}
           /\ Zero[c] = 0
BY DEF CountsType, Counts, Changes, Zero

(* A step that leaves the balance of every kind of change alone.           *)
LEMMA QuietKeepsChange ==
    ASSUME ChangeInv, raced => raced', UNCHANGED <<events, reported>>,
           pc' = "write" <=> pc = "write", hpc' = "clear" <=> hpc = "clear",
           pc = "write" => UNCHANGED <<old, version, count>>,
           \A c \in Changes : Hourly'[c] = Hourly[c],
           pc = "write" => Change \in Changes
    PROVE  ChangeInv'
<1>1. pc = "write" => Change' = Change BY SameChange
<1>2. ASSUME ~raced', NEW c \in Changes
      PROVE  events'[c] = reported'[c] + (IF hpc' = "clear" THEN 0 ELSE Hourly'[c])
                          + (IF pc' = "write" /\ Change' = c THEN 1 ELSE 0)
  BY <1>1, <1>2 DEF ChangeInv, ChangeInOneHour
<1>3. ~raced' /\ pc' = "write" => count' = Hourly'[Change']
  BY <1>1 DEF ChangeInv
<1> QED BY <1>2, <1>3 DEF ChangeInv, ChangeInOneHour

(* A change is counted once, or waits to be written.                       *)
LEMMA ChangeKept ==
    ASSUME Base, ChangeInv, [Next]_vars
    PROVE  ChangeInv'
<1> USE DEF Base, TypeOK
<1>q. pc = "write" => Change \in Changes BY DEF ControlOK
<1>h. ASSUME NEW f \in {"ActiveVersions", "TotalVersions"}, NEW n,
             Hourly' = [Hourly EXCEPT ![f] = n]
      PROVE  \A c \in Changes : Hourly'[c] = Hourly[c]
  BY <1>h DEF CountsType, Counts, Changes
<1>1. ASSUME NEW u \in User, NEW v \in Said, Report(u, v) PROVE ChangeInv'
  BY <1>1, QuietKeepsChange, <1>q DEF Report
<1>2. CASE RecordVersion
  BY <1>2, QuietKeepsChange, <1>q DEF RecordVersion
<1>3. CASE CountTotal
  BY <1>3, QuietKeepsChange, <1>q, <1>h DEF CountTotal, Write
<1>4. CASE RecordActive
  BY <1>4, QuietKeepsChange, <1>q DEF RecordActive
<1>5. CASE ReadActive
  BY <1>5, QuietKeepsChange, <1>q DEF ReadActive
<1>6. CASE WriteActive
  BY <1>6, QuietKeepsChange, <1>q, <1>h DEF WriteActive, Write
<1>7. CASE Compare
  <2> DEFINE d == Change
  <2>1. d \in Changes \cup {"Platform"} BY ChangeIsOne
  <2>2. UNCHANGED <<hourly, Hourly, raced>> /\ pc = "compare" BY <1>7 DEF Compare
  <2>3. \/ UNCHANGED events /\ pc' = "idle"
        \/ /\ d \in Changes /\ count' = Hourly[d] /\ pc' = "write"
           /\ events' = [events EXCEPT ![d] = @ + 1]
           /\ UNCHANGED <<old, version>>
    BY <1>7, <2>1 DEF Compare, Leave
  <2>4. CASE UNCHANGED events /\ pc' = "idle"
    BY <2>2, <2>4, QuietKeepsChange
  <2>5. CASE /\ d \in Changes /\ count' = Hourly[d] /\ pc' = "write"
             /\ events' = [events EXCEPT ![d] = @ + 1]
             /\ UNCHANGED <<old, version>>
    <3>1. Change' = d BY <2>5, SameChange
    <3> HIDE DEF d
    <3>2. \A c \in Changes : events'[c] = events[c] + (IF d = c THEN 1 ELSE 0)
      BY <2>5, CountsOfChanges DEF CountsType
    <3>3. ~raced => \A c \in Changes :
              events[c] = reported[c] + (IF hpc = "clear" THEN 0 ELSE Hourly[c])
      BY <2>2, CountsOfChanges DEF ChangeInv, ChangeInOneHour
    <3>4. ASSUME ~raced', NEW c \in Changes
          PROVE  events'[c] = reported'[c] + (IF hpc' = "clear" THEN 0 ELSE Hourly'[c])
                              + (IF pc' = "write" /\ Change' = c THEN 1 ELSE 0)
      BY <2>2, <2>5, <3>1, <3>2, <3>3, <3>4, CountsOfChanges
    <3>5. count' = Hourly'[Change'] BY <2>2, <2>5, <3>1
    <3> QED BY <3>4, <3>5 DEF ChangeInv, ChangeInOneHour
  <2> QED BY <2>3, <2>4, <2>5
<1>8. CASE Increment
  <2> DEFINE d == Change
  <2>1. d \in Changes BY <1>8, <1>q DEF Increment
  <2>2. /\ pc = "write" /\ pc' = "idle" /\ UNCHANGED <<hpc, events, reported>>
        /\ Hourly' = [Hourly EXCEPT ![d] = count + 1]
        /\ raced' = (raced \/ Counting)
    BY <1>8 DEF Increment, Write, Leave
  <2> HIDE DEF d
  <2>3. ~raced' => ~raced /\ hpc # "clear" BY <2>2 DEF Counting
  <2>4. ~raced => count = Hourly[d] BY <2>2 DEF ChangeInv, d
  <2>5. ~raced' => \A c \in Changes :
            events[c] = reported[c] + Hourly[c] + (IF d = c THEN 1 ELSE 0)
    BY <2>2, <2>3 DEF ChangeInv, ChangeInOneHour, d
  <2>6. Hourly \in Counts BY DEF CountsType
  <2>7. ~raced' => \A c \in Changes :
            Hourly'[c] = Hourly[c] + (IF d = c THEN 1 ELSE 0)
    BY <2>1, <2>2, <2>3, <2>4, <2>6 DEF Counts, Changes
  <2>8. ASSUME ~raced', NEW c \in Changes
        PROVE  events'[c] = reported'[c] + (IF hpc' = "clear" THEN 0 ELSE Hourly'[c])
                            + (IF pc' = "write" /\ Change' = c THEN 1 ELSE 0)
    <3>1. events[c] \in Nat /\ reported[c] \in Nat /\ Hourly[c] \in Nat
      BY CountsOfChanges
    <3>2. hpc' # "clear" /\ pc' # "write" BY <2>2, <2>3, <2>8
    <3>3. events[c] = reported[c] + Hourly[c] + (IF d = c THEN 1 ELSE 0)
      BY <2>5, <2>8
    <3>4. Hourly'[c] = Hourly[c] + (IF d = c THEN 1 ELSE 0) BY <2>7, <2>8
    <3> QED BY <2>2, <3>1, <3>2, <3>3, <3>4
  <2> QED BY <2>2, <2>8 DEF ChangeInv, ChangeInOneHour
<1>9. CASE SendLast
  BY <1>9, QuietKeepsChange, <1>q DEF SendLast
<1>10. CASE HourlyRead("readActive", HourlyHash, "writeActive")
  BY <1>10, QuietKeepsChange, <1>q DEF HourlyRead
<1>11. CASE HourlyWrite("writeActive", "ActiveVersions", "readTotal")
  BY <1>11, QuietKeepsChange, <1>q, <1>h DEF HourlyWrite
<1>12. CASE HourlyRead("readTotal", VersionHash, "writeTotal")
  BY <1>12, QuietKeepsChange, <1>q DEF HourlyRead
<1>13. CASE HourlyWrite("writeTotal", "TotalVersions", "compare")
  BY <1>13, QuietKeepsChange, <1>q, <1>h DEF HourlyWrite
<1>14. CASE CompareHour
  BY <1>14, QuietKeepsChange, <1>q DEF CompareHour
<1>15. CASE CopyHour
  <2>1. /\ hpc = "copy" /\ hpc' = "clear"
        /\ reported' = [c \in Changes |-> reported[c] + Hourly[c]]
        /\ UNCHANGED <<events, pc, old, version, count, Hourly, raced>>
    BY <1>15 DEF CopyHour
  <2>2. Change' = Change BY <2>1, SameChange
  <2>3. ASSUME ~raced', NEW c \in Changes
        PROVE  events'[c] = reported'[c] + 0
                            + (IF pc' = "write" /\ Change' = c THEN 1 ELSE 0)
    BY <2>1, <2>2, <2>3, CountsOfChanges DEF ChangeInv, ChangeInOneHour
  <2>4. ~raced' /\ pc' = "write" => count' = Hourly'[Change']
    BY <2>1, <2>2 DEF ChangeInv
  <2> QED BY <2>1, <2>3, <2>4 DEF ChangeInv, ChangeInOneHour
<1>16. CASE ClearHour
  <2>1. /\ hpc = "clear" /\ hpc' = "empty" /\ Hourly' = Zero
        /\ raced' = (raced \/ pc \in {"writeActive", "write"})
        /\ UNCHANGED <<events, reported, pc>>
    BY <1>16 DEF ClearHour
  <2>2. ~raced' => ~raced /\ pc' # "write" BY <2>1
  <2>3. ASSUME ~raced', NEW c \in Changes
        PROVE  events'[c] = reported'[c] + Hourly'[c]
                            + (IF pc' = "write" /\ Change' = c THEN 1 ELSE 0)
    BY <2>1, <2>2, <2>3, CountsOfChanges DEF ChangeInv, ChangeInOneHour
  <2> QED BY <2>1, <2>2, <2>3 DEF ChangeInv, ChangeInOneHour
<1>17. CASE EmptyHash
  BY <1>17, QuietKeepsChange, <1>q DEF EmptyHash
<1>18. CASE SendHour
  BY <1>18, QuietKeepsChange, <1>q DEF SendHour
<1>19. ASSUME NEW u \in User, AprsSvcRegisterUser(u) PROVE ChangeInv'
  BY <1>19, QuietKeepsChange, <1>q DEF AprsSvcRegisterUser
<1>20. CASE AprsSvcPurgeUserPackets
  BY <1>20, QuietKeepsChange, <1>q DEF AprsSvcPurgeUserPackets
<1>21. CASE UNCHANGED vars
  BY <1>21, QuietKeepsChange, <1>q
<1> QED BY <1>1, <1>2, <1>3, <1>4, <1>5, <1>6, <1>7, <1>8, <1>9, <1>10, <1>11, <1>12,
      <1>13, <1>14, <1>15, <1>16, <1>17, <1>18, <1>19, <1>20, <1>21
  DEF Next, ListenerStep, HourlyStep

(* The telemetry.                                                          *)
LEMMA TelemetryKept ==
    ASSUME Base, TelemetryInv, [Next]_vars
    PROVE  TelemetryInv'
<1> USE DEF Base, TypeOK, HourlyType
<1>1. ASSUME NEW u \in User, NEW v \in Said, Report(u, v) PROVE TelemetryInv'
  BY <1>1 DEF Report, TelemetryInv
<1>2. CASE RecordVersion
  BY <1>2 DEF RecordVersion, TelemetryInv
<1>3. CASE CountTotal
  BY <1>3 DEF CountTotal, Write, Counting, TelemetryInv
<1>4. CASE RecordActive
  BY <1>4 DEF RecordActive, TelemetryInv
<1>5. CASE ReadActive
  BY <1>5 DEF ReadActive, TelemetryInv
<1>6. CASE WriteActive
  BY <1>6 DEF WriteActive, Write, Counting, TelemetryInv
<1>7. CASE Compare
  BY <1>7 DEF Compare, TelemetryInv
<1>8. CASE Increment
  BY <1>8 DEF Increment, Write, Counting, TelemetryInv
<1>9. CASE SendLast
  BY <1>9 DEF SendLast, TelemetryInv
<1>10. CASE HourlyRead("readActive", HourlyHash, "writeActive")
  BY <1>10 DEF HourlyRead, TelemetryInv
<1>11. CASE HourlyWrite("writeActive", "ActiveVersions", "readTotal")
  BY <1>11 DEF HourlyWrite, TelemetryInv
<1>12. CASE HourlyRead("readTotal", VersionHash, "writeTotal")
  BY <1>12 DEF HourlyRead, TelemetryInv
<1>13. CASE HourlyWrite("writeTotal", "TotalVersions", "compare")
  BY <1>13 DEF HourlyWrite, TelemetryInv
<1>14. CASE CompareHour
  BY <1>14 DEF CompareHour, TelemetryInv
<1>15. CASE CopyHour
  BY <1>15 DEF CopyHour, TelemetryInv
<1>16. CASE ClearHour
  BY <1>16 DEF ClearHour, TelemetryInv
<1>17. CASE EmptyHash
  BY <1>17 DEF EmptyHash, TelemetryInv
<1>18. CASE SendHour
  BY <1>18 DEF SendHour, TelemetryInv
<1>19. ASSUME NEW u \in User, AprsSvcRegisterUser(u) PROVE TelemetryInv'
  BY <1>19 DEF AprsSvcRegisterUser, TelemetryInv
<1>20. CASE AprsSvcPurgeUserPackets
  BY <1>20 DEF AprsSvcPurgeUserPackets, TelemetryInv
<1>21. CASE UNCHANGED vars
  BY <1>21 DEF TelemetryInv
<1> QED BY <1>1, <1>2, <1>3, <1>4, <1>5, <1>6, <1>7, <1>8, <1>9, <1>10, <1>11, <1>12,
      <1>13, <1>14, <1>15, <1>16, <1>17, <1>18, <1>19, <1>20, <1>21
  DEF Next, ListenerStep, HourlyStep

(* The number of active versions.                                          *)
LEMMA ActiveKept ==
    ASSUME Base, ActiveInv, [Next]_vars
    PROVE  ActiveInv'
<1> USE DEF Base, TypeOK, HourlyType, CountsType, Counts
<1>1. ASSUME NEW u \in User, NEW v \in Said, Report(u, v) PROVE ActiveInv'
  BY <1>1 DEF Report, ActiveInv
<1>2. CASE RecordVersion
  BY <1>2 DEF RecordVersion, ActiveInv
<1>3. CASE CountTotal
  BY <1>3 DEF CountTotal, Write, Counting, ActiveInv
<1>4. CASE RecordActive
  BY <1>4 DEF RecordActive, Counting, ActiveInv
<1>5. CASE ReadActive
  BY <1>5 DEF ReadActive, ActiveInv
<1>6. CASE WriteActive
  BY <1>6 DEF WriteActive, Write, Counting, ActiveInv
<1>7. CASE Compare
  BY <1>7 DEF Compare, ActiveInv
<1>8. CASE Increment
  BY <1>8 DEF Increment, Write, Counting, ActiveInv
<1>9. CASE SendLast
  BY <1>9 DEF SendLast, ActiveInv
<1>10. CASE HourlyRead("readActive", HourlyHash, "writeActive")
  BY <1>10 DEF HourlyRead, ActiveInv
<1>11. CASE HourlyWrite("writeActive", "ActiveVersions", "readTotal")
  BY <1>11 DEF HourlyWrite, ActiveInv
<1>12. CASE HourlyRead("readTotal", VersionHash, "writeTotal")
  BY <1>12 DEF HourlyRead, ActiveInv
<1>13. CASE HourlyWrite("writeTotal", "TotalVersions", "compare")
  BY <1>13 DEF HourlyWrite, ActiveInv
<1>14. CASE CompareHour
  BY <1>14 DEF CompareHour, ActiveInv
<1>15. CASE CopyHour
  BY <1>15 DEF CopyHour, ActiveInv
<1>16. CASE ClearHour
  BY <1>16 DEF ClearHour, ActiveInv
<1>17. CASE EmptyHash
  BY <1>17 DEF EmptyHash, ActiveInv
<1>18. CASE SendHour
  BY <1>18 DEF SendHour, ActiveInv
<1>19. ASSUME NEW u \in User, AprsSvcRegisterUser(u) PROVE ActiveInv'
  BY <1>19 DEF AprsSvcRegisterUser, ActiveInv
<1>20. CASE AprsSvcPurgeUserPackets
  BY <1>20 DEF AprsSvcPurgeUserPackets, ActiveInv
<1>21. CASE UNCHANGED vars
  BY <1>21 DEF ActiveInv
<1> QED BY <1>1, <1>2, <1>3, <1>4, <1>5, <1>6, <1>7, <1>8, <1>9, <1>10, <1>11, <1>12,
      <1>13, <1>14, <1>15, <1>16, <1>17, <1>18, <1>19, <1>20, <1>21
  DEF Next, ListenerStep, HourlyStep

LEMMA VersionCount == ASSUME ControlOK PROVE Cardinality(VersionHash) \in Nat
BY FS_CardinalityType DEF ControlOK

(* The number of versions.                                                 *)
LEMMA TotalKept ==
    ASSUME Base, TotalInv, [Next]_vars
    PROVE  TotalInv'
<1> USE DEF Base, TypeOK, CountsType, Counts, HourlyType, Zero
<1>1. ASSUME NEW u \in User, NEW v \in Said, Report(u, v) PROVE TotalInv'
  BY <1>1 DEF Report, TotalInv
<1>2. CASE RecordVersion
  <2>1. VersionHash' = VersionHash \cup {version} /\ UNCHANGED <<LastHourly, Hourly, hcount>>
    BY <1>2 DEF RecordVersion
  <2>2. hpc' = hpc \/ hpc' = "sleep" BY <1>2 DEF RecordVersion
  <2>3. IsFiniteSet(VersionHash) BY DEF ControlOK
  <2>4. Cardinality(VersionHash') = IF version \in VersionHash THEN Cardinality(VersionHash)
                                    ELSE Cardinality(VersionHash) + 1
    BY <2>1, <2>3, FS_AddElement
  <2> QED BY <2>1, <2>2, <2>4, VersionCount DEF TotalInv
<1>3. CASE CountTotal
  BY <1>3, VersionCount DEF CountTotal, Write, TotalInv
<1>4. CASE RecordActive
  BY <1>4 DEF RecordActive, TotalInv
<1>5. CASE ReadActive
  BY <1>5 DEF ReadActive, TotalInv
<1>6. CASE WriteActive
  BY <1>6 DEF WriteActive, Write, TotalInv
<1>7. CASE Compare
  BY <1>7 DEF Compare, TotalInv
<1>8. CASE Increment
  <2>1. Change \in Changes BY <1>8 DEF Increment, ControlOK
  <2>2. Hourly'.TotalVersions = Hourly.TotalVersions
    BY <1>8, <2>1 DEF Increment, Write, Changes
  <2> QED BY <1>8, <2>2 DEF Increment, TotalInv
<1>9. CASE SendLast
  BY <1>9 DEF SendLast, TotalInv
<1>10. CASE HourlyRead("readActive", HourlyHash, "writeActive")
  BY <1>10, VersionCount DEF HourlyRead, TotalInv
<1>11. CASE HourlyWrite("writeActive", "ActiveVersions", "readTotal")
  BY <1>11 DEF HourlyWrite, TotalInv
<1>12. CASE HourlyRead("readTotal", VersionHash, "writeTotal")
  BY <1>12, VersionCount DEF HourlyRead, TotalInv
<1>13. CASE HourlyWrite("writeTotal", "TotalVersions", "compare")
  BY <1>13, VersionCount DEF HourlyWrite, TotalInv
<1>14. CASE CompareHour
  BY <1>14 DEF CompareHour, TotalInv
<1>15. CASE CopyHour
  BY <1>15 DEF CopyHour, TotalInv
<1>16. CASE ClearHour
  BY <1>16, VersionCount DEF ClearHour, TotalInv
<1>17. CASE EmptyHash
  BY <1>17 DEF EmptyHash, TotalInv
<1>18. CASE SendHour
  BY <1>18 DEF SendHour, TotalInv
<1>19. ASSUME NEW u \in User, AprsSvcRegisterUser(u) PROVE TotalInv'
  BY <1>19 DEF AprsSvcRegisterUser, TotalInv
<1>20. CASE AprsSvcPurgeUserPackets
  BY <1>20 DEF AprsSvcPurgeUserPackets, TotalInv
<1>21. CASE UNCHANGED vars
  BY <1>21 DEF TotalInv
<1> QED BY <1>1, <1>2, <1>3, <1>4, <1>5, <1>6, <1>7, <1>8, <1>9, <1>10, <1>11, <1>12,
      <1>13, <1>14, <1>15, <1>16, <1>17, <1>18, <1>19, <1>20, <1>21
  DEF Next, ListenerStep, HourlyStep

-----------------------------------------------------------------------------
LEMMA InvHolds == Spec => []IInv
<1>1. Init => IInv
  <2> SUFFICES ASSUME Init PROVE IInv OBVIOUS
  <2> USE DEF Init
  <2>1. TypeOK
    <3>1. TablesType /\ HashesType BY DEF TablesType, HashesType
    <3>2. CountsType BY DEF CountsType, Counts, Changes, Zero
    <3>3. MessagesType BY DEF MessagesType
    <3>4. ListenerType BY DEF ListenerType, Said, Pc
    <3>5. HourlyType BY DEF HourlyType, Hpc
    <3>6. WorldType BY DEF WorldType
    <3> QED BY <3>1, <3>2, <3>3, <3>4, <3>5, <3>6 DEF TypeOK
  <2>2. ControlOK BY FS_EmptySet DEF ControlOK
  <2>3. HourlyIsOwned /\ UserHasRow BY DEF HourlyIsOwned, UserHasRow
  <2>4. ChangeInv BY DEF ChangeInv, ChangeInOneHour, Zero, Changes
  <2>5. TelemetryInv /\ ActiveInv BY DEF TelemetryInv, ActiveInv
  <2>6. TotalInv BY FS_EmptySet DEF TotalInv, Zero
  <2> QED BY <2>1, <2>2, <2>3, <2>4, <2>5, <2>6 DEF IInv, Base
<1>2. IInv /\ [Next]_vars => IInv'
  <2> SUFFICES ASSUME IInv, [Next]_vars PROVE IInv' OBVIOUS
  <2> USE DEF IInv, Base
  <2>1. TypeOK'
    BY TablesTypeKept, HashesTypeKept, CountsTypeKept, MessagesTypeKept,
       ListenerTypeKept, HourlyTypeKept, WorldTypeKept DEF TypeOK
  <2>2. ControlOK' BY ControlKept
  <2>3. HourlyIsOwned' /\ UserHasRow' BY OwnedKept, RowKept
  <2>4. ChangeInv' BY ChangeKept
  <2>5. TelemetryInv' /\ ActiveInv' BY TelemetryKept, ActiveKept
  <2>6. TotalInv' BY TotalKept
  <2> QED BY <2>1, <2>2, <2>3, <2>4, <2>5, <2>6
<1> QED BY <1>1, <1>2, PTL DEF Spec

(* Every variable keeps its type.                                          *)
THEOREM TypeCorrect == Spec => []TypeOK
<1>1. IInv => TypeOK BY DEF IInv, Base
<1> QED BY <1>1, InvHolds, PTL

(* HourlyHash points to versions that VersionHash owns, and packets and    *)
(* registrations are those of users who have a row.                        *)
THEOREM RowsAndHashesAgree == Spec => [](HourlyIsOwned /\ UserHasRow)
<1>1. IInv => HourlyIsOwned /\ UserHasRow BY DEF IInv
<1> QED BY <1>1, InvHolds, PTL

(* Every new user, upgrade and downgrade is counted in exactly one hour,   *)
(* unless the two threads met in the counters.                             *)
THEOREM CountedInOneHour == Spec => []ChangeInOneHour
<1>1. IInv => ChangeInOneHour BY DEF IInv, ChangeInv
<1> QED BY <1>1, InvHolds, PTL

(* The active versions of an hour are those of the hash that is emptied at *)
(* its end, unless the two threads met.                                    *)
THEOREM ActiveCounted == Spec => []ActiveIsHash
<1>1. IInv => ActiveIsHash BY DEF IInv, ActiveInv, ActiveIsHash
<1> QED BY <1>1, InvHolds, PTL

(* The telemetry sent last is that of the last hour while UDPHourly sleeps,*)
(* unless the two threads met.                                             *)
THEOREM TelemetryCurrent == Spec => []TelemetryIsLastHour
<1>1. IInv => TelemetryIsLastHour BY DEF IInv, TelemetryInv, TelemetryIsLastHour
<1> QED BY <1>1, InvHolds, PTL

(* The number of versions reported does not fall, however they meet.       *)
THEOREM TotalsNeverFall == Spec => TotalNeverFalls
<1>1. IInv /\ [Next]_vars => [LastHourly'.TotalVersions >= LastHourly.TotalVersions]_vars
  <2> SUFFICES ASSUME IInv, Next
               PROVE  LastHourly'.TotalVersions >= LastHourly.TotalVersions
    OBVIOUS
  <2>1. LastHourly.TotalVersions \in Nat BY DEF IInv, Base, TypeOK, CountsType, Counts
  <2>2. CASE CopyHour
    BY <2>1, <2>2 DEF CopyHour, IInv, TotalInv, Base, TypeOK, CountsType, Counts
  <2>3. CASE UNCHANGED LastHourly BY <2>1, <2>3
  <2>4. CopyHour \/ UNCHANGED LastHourly
    BY DEF Next, ListenerStep, HourlyStep, Report, RecordVersion, CountTotal,
           RecordActive, ReadActive, WriteActive, Compare, Increment, SendLast,
           HourlyRead, HourlyWrite, CompareHour, ClearHour, EmptyHash, SendHour,
           AprsSvcRegisterUser, AprsSvcPurgeUserPackets
  <2> QED BY <2>2, <2>3, <2>4
<1> QED BY <1>1, InvHolds, PTL DEF Spec, TotalNeverFalls
=============================================================================
