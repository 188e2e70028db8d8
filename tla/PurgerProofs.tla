---------------------------- MODULE PurgerProofs ----------------------------
(***************************************************************************)
(* Proofs about Purger, for any values of KEEP_DAYS, any sizes of batches  *)
(* and tables, and any number of changes.                                  *)
(***************************************************************************)
EXTENDS Purger, TLAPS

USE PauseAssumption, PurgerAssumption

-----------------------------------------------------------------------------
(* The arithmetic of a pause.                                              *)

\* A quotient in the naturals.
LEMMA DivNat ==
    ASSUME NEW a \in Nat, NEW b \in Nat \ {0}
    PROVE  /\ a \div b \in Nat
           /\ (a \div b) * b <= a
BY SMT

\* The next number of a pass.
LEMMA NextPass ==
    ASSUME NEW a \in 0..(ZipEvery - 1)
    PROVE  (a + 1) % ZipEvery \in 0..(ZipEvery - 1)
<1>1. a + 1 \in Nat /\ ZipEvery \in Nat \ {0} OBVIOUS
<1> QED BY <1>1, SMT

\* C's quotient is an integer.
LEMMA QuotientInt ==
    ASSUME NEW a \in Int, NEW b \in Nat \ {0}
    PROVE  Quotient(a, b) \in Int
<1>1. CASE a >= 0
  <2>1. a \in Nat BY <1>1
  <2>2. Quotient(a, b) = a \div b BY <1>1 DEF Quotient
  <2> QED BY <2>1, <2>2, DivNat
<1>2. CASE ~(a >= 0)
  <2>1. -a \in Nat BY <1>2
  <2>2. Quotient(a, b) = -((-a) \div b) BY <1>2 DEF Quotient
  <2>3. (-a) \div b \in Nat BY <2>1, DivNat
  <2> QED BY <2>2, <2>3
<1> QED BY <1>1, <1>2

\* A share of some extra time is no more than all of it.
LEMMA ShareIsPart ==
    ASSUME NEW e \in Int, NEW d \in Nat \ {0}, NEW c \in Nat \ {0}, d <= c,
           Quotient(e * d, c) > 0
    PROVE  Quotient(e * d, c) <= e
<1> DEFINE q == (e * d) \div c
<1>1. CASE e >= 0
  <2>1. e \in Nat /\ e * d \in Nat BY <1>1, SMT
  <2>2. Quotient(e * d, c) = q BY <2>1 DEF Quotient
  <2>3. q \in Nat /\ q * c <= e * d BY <2>1, DivNat
  <2>4. e * d <= e * c BY <2>1, SMT
  <2> HIDE DEF q
  <2>5. e * d \in Int /\ e * c \in Int /\ q * c \in Int BY <2>1, <2>3, SMT
  <2>6. q * c <= e * c BY <2>3, <2>4, <2>5
  <2>7. q <= e BY <2>1, <2>3, <2>6, SMT
  <2> QED BY <2>2, <2>7
<1>2. CASE ~(e >= 0)
  <2>1. e * d \in Int /\ e * d < 0 BY <1>2, SMT
  <2>2. -(e * d) \in Nat BY <2>1
  <2>3. Quotient(e * d, c) = -((-(e * d)) \div c) BY <2>1 DEF Quotient
  <2>4. (-(e * d)) \div c \in Nat BY <2>2, DivNat
  <2>5. FALSE BY <2>3, <2>4
  <2> QED BY <2>5
<1> QED BY <1>1, <1>2

-----------------------------------------------------------------------------
(* The strengthening of the invariants.                                    *)

\* The action sleeps when there is time left for it.
PauseInv == pc = "pause" => info.msSleep > 0 /\ PauseWithinTarget

\* A record that was deleted by an old value, after the callback, is the last
\* one of its pass: ChangeIsNoticed says that the flag was set by then.
LateInv ==
    /\ late <= 1
    /\ pc \in {"record", "pause"} => late = 0
    /\ pc = "test" /\ late # 0 => KeepDaysChanged

IInv == TypeOK /\ PauseInv /\ LateInv /\ ChangeIsNoticed

USE DEF vars, delayVars, symbol, pass, sleep, cursor

\* How long a pause is: an integer, and within the time that is left.
LEMMA PauseForOK ==
    ASSUME TypeOK, NEW count \in Nat \ {0}, info.TotalCount > count
    PROVE  /\ PauseFor(count, Batch) \in Int
           /\ PauseFor(count, Batch) > 0 => PauseFor(count, Batch) <= msExtra(msElapsed, count)
<1> DEFINE c == info.TotalCount - count
           e == msExtra(msElapsed, count)
           share == IF Batch > c THEN e ELSE Quotient(e * Batch, c)
<1>1. c \in Nat \ {0} BY DEF TypeOK, DelayInfo
<1>2. msElapsed \div count \in Nat BY DivNat DEF TypeOK
<1>3. (msElapsed \div count) * c \in Int
  <2> DEFINE m == msElapsed \div count
  <2> HIDE DEF c, m
  <2>1. m \in Nat /\ c \in Nat BY <1>1, <1>2 DEF m
  <2>2. m * c \in Int BY <2>1
  <2> QED BY <2>2 DEF m
<1>4. e \in Int BY <1>1, <1>3 DEF msExtra, msRequired, TypeOK, DelayInfo
<1>5. e * Batch \in Int
  <2> HIDE DEF e
  <2> QED BY <1>4
<1>6. PauseFor(count, Batch) = IF share > MaxPause THEN MaxPause ELSE share
  BY DEF PauseFor
<1> HIDE DEF c, e
<1>7. share \in Int /\ (share > 0 => share <= e)
  <2>1. CASE Batch > c BY <2>1, <1>4
  <2>2. CASE ~(Batch > c)
    <3>1. share = Quotient(e * Batch, c) BY <2>2
    <3>2. Batch <= c BY <1>1, <2>2
    <3>3. Quotient(e * Batch, c) \in Int BY <1>1, <1>5, QuotientInt
    <3>4. Quotient(e * Batch, c) > 0 => Quotient(e * Batch, c) <= e
      BY <1>1, <1>4, <3>2, ShareIsPart
    <3> QED BY <3>1, <3>3, <3>4
  <2> QED BY <2>1, <2>2
<1> HIDE DEF share
<1>8. PauseFor(count, Batch) \in Int
      /\ (PauseFor(count, Batch) > 0 => PauseFor(count, Batch) <= e)
  BY <1>4, <1>6, <1>7
<1> QED BY <1>8 DEF e

\* The types without the lock, and the lock.
VarsOK ==
    /\ info \in DelayInfo
    /\ msElapsed \in Nat
    /\ KEEP_DAYS \in Days /\ KeepDays \in Days /\ logDays \in Days
    /\ calling \in BOOLEAN /\ KeepDaysChanged \in BOOLEAN /\ shuttingDown \in BOOLEAN
    /\ pc \in PC
    /\ dirs \in Nat
    /\ PassCount \in 0..(ZipEvery - 1)
    /\ SleepIndex \in Nat /\ Elapsed \in Nat
    /\ left \in Nat /\ PacketsPurged \in Nat /\ late \in Nat /\ changes \in Nat

LockOK == GroupLock = (pc \in {"record", "test", "complete"})

\* The types are those of the variables and the place of the lock.
LEMMA TypeSplit == TypeOK <=> VarsOK /\ LockOK
BY DEF TypeOK, VarsOK, LockOK

\* Every step keeps the types of the variables.
LEMMA VarsKept ==
    ASSUME IInv, [Next]_vars
    PROVE  VarsOK'
<1>0. VarsOK /\ LockOK BY TypeSplit DEF IInv
<1> USE <1>0 DEF VarsOK, LockOK, DelayInfo, PC
<1>1. CASE SetSymbolValue
  BY <1>1 DEF SetSymbolValue
<1>2. CASE AprsMonitorKeepDays
  BY <1>2 DEF AprsMonitorKeepDays
<1>3. CASE ShutDown
  BY <1>3 DEF ShutDown
<1>4. CASE FirstDelay
  <2>1. pc' \in {"loop", "delay"} BY <1>4, Zenon DEF FirstDelay
  <2>2. SleepIndex' \in Nat /\ KeepDaysChanged' = FALSE BY <1>4 DEF FirstDelay
  <2> QED BY <1>4, <2>1, <2>2 DEF FirstDelay
<1>5. CASE ReadKeepDays
  BY <1>5 DEF ReadKeepDays
<1>6. CASE End
  BY <1>6 DEF End
<1>7. CASE AprsPurgeSubDir
  BY <1>7 DEF AprsPurgeSubDir
<1>8. CASE LogsPurged
  BY <1>8 DEF LogsPurged
<1>9. CASE QueryPackets
  <2> PICK n \in 0..MaxRecords :
         /\ left' = n
         /\ IF n = 0 THEN UNCHANGED delayVars ELSE ThBeginDelayedAction(Wake, n)
         /\ pc' = IF n = 0 THEN "sleep" ELSE "record"
         /\ PassCount' = IF n = 0 THEN (PassCount + 1) % ZipEvery ELSE PassCount
    BY <1>9 DEF QueryPackets
  <2>1. info' \in DelayInfo /\ msElapsed' \in Nat
    <3>1. CASE n = 0 BY <3>1
    <3>2. CASE n # 0
      <4>1. ThBeginDelayedAction(Wake, n) /\ n \in Nat BY <3>2
      <4> QED BY <4>1 DEF ThBeginDelayedAction
    <3> QED BY <3>1, <3>2
  <2>2. PassCount' \in 0..(ZipEvery - 1) BY NextPass
  <2>3. left' \in Nat /\ pc' \in PC OBVIOUS
  <2> QED BY <1>9, <2>1, <2>2, <2>3 DEF QueryPackets
<1>10. CASE PurgeRecord
  BY <1>10 DEF PurgeRecord
<1>11. CASE TestChange
  <2>1. CASE UNCHANGED delayVars BY <1>11, <2>1 DEF TestChange
  <2>2. CASE ThContinueDelayedAction(PacketsPurged, Batch)
    <3> DEFINE ms == IF PacketsPurged # 0 /\ info.TotalCount > PacketsPurged
                     THEN PauseFor(PacketsPurged, Batch) ELSE 0
    <3>1. ms \in Int BY PauseForOK DEF IInv
    <3>2. info' = [info EXCEPT !.CurrentCount = PacketsPurged, !.msSleep = ms]
          /\ msElapsed' = msElapsed
      BY <2>2 DEF ThContinueDelayedAction
    <3> HIDE DEF ms
    <3>3. info' \in DelayInfo BY <3>1, <3>2
    <3> QED BY <1>11, <3>2, <3>3 DEF TestChange
  <2> QED BY <1>11, <2>1, <2>2 DEF TestChange
<1>12. CASE Pause
  BY <1>12 DEF Pause, Slept, IInv, PauseInv
<1>13. CASE Complete
  <2>1. info' \in DelayInfo /\ msElapsed' = msElapsed
    BY <1>13 DEF Complete, ThCompleteDelayedAction
  <2>2. PassCount' \in 0..(ZipEvery - 1) BY <1>13, NextPass DEF Complete
  <2> QED BY <1>13, <2>1, <2>2 DEF Complete
<1>14. CASE Sleep
  BY <1>14 DEF Sleep
<1>15. CASE ClearChanged
  BY <1>15 DEF ClearChanged
<1>16. CASE UNCHANGED vars
  BY <1>16
<1>17. CASE QueryFails
  BY <1>17 DEF QueryFails
<1> QED BY <1>1, <1>2, <1>3, <1>4, <1>5, <1>6, <1>7, <1>8, <1>9, <1>10, <1>11, <1>12, <1>13, <1>14, <1>15, <1>16,
  <1>17 DEF Next, PurgerStep

\* The lock is taken and released with the loop over the records.
LEMMA LockKept ==
    ASSUME IInv, [Next]_vars
    PROVE  LockOK'
<1>0. VarsOK /\ LockOK BY TypeSplit DEF IInv
<1> USE <1>0 DEF LockOK
<1>1. CASE SetSymbolValue
  BY <1>1 DEF SetSymbolValue
<1>2. CASE AprsMonitorKeepDays
  BY <1>2 DEF AprsMonitorKeepDays
<1>3. CASE ShutDown
  BY <1>3 DEF ShutDown
<1>4. CASE FirstDelay
  BY <1>4 DEF FirstDelay
<1>5. CASE ReadKeepDays
  BY <1>5 DEF ReadKeepDays
<1>6. CASE End
  BY <1>6 DEF End
<1>7. CASE AprsPurgeSubDir
  BY <1>7 DEF AprsPurgeSubDir
<1>8. CASE LogsPurged
  BY <1>8 DEF LogsPurged
<1>9. CASE QueryPackets
  <2> PICK n \in 0..MaxRecords :
         /\ IF n = 0 THEN UNCHANGED delayVars ELSE ThBeginDelayedAction(Wake, n)
         /\ pc' = IF n = 0 THEN "sleep" ELSE "record"
    BY <1>9 DEF QueryPackets
  <2>1. pc \notin {"record", "test", "complete"} BY <1>9 DEF QueryPackets
  <2>2. CASE n = 0
    <3>1. GroupLock' = GroupLock /\ pc' \notin {"record", "test", "complete"} BY <2>2
    <3>2. (pc \in {"record", "test", "complete"}) = FALSE
          /\ (pc' \in {"record", "test", "complete"}) = FALSE BY <2>1, <3>1
    <3> QED BY <3>1, <3>2, Zenon
  <2>3. CASE n # 0
    <3>1. GroupLock' = TRUE BY <2>3 DEF ThBeginDelayedAction
    <3>2. pc' \in {"record", "test", "complete"} BY <2>3
    <3> QED BY <3>1, <3>2, Zenon
  <2> QED BY <2>2, <2>3
<1>10. CASE PurgeRecord
  BY <1>10 DEF PurgeRecord
<1>11. CASE TestChange
  <2>1. GroupLock = TRUE BY <1>11 DEF TestChange
  <2>2. CASE UNCHANGED delayVars /\ pc' \in {"complete", "record"}
    BY <2>1, <2>2
  <2>3. CASE /\ ThContinueDelayedAction(PacketsPurged, Batch)
             /\ pc' = IF ~GroupLock' THEN "pause"
                      ELSE IF shuttingDown THEN "complete" ELSE "record"
    <3>1. GroupLock' \in BOOLEAN BY <2>3 DEF ThContinueDelayedAction
    <3> QED BY <2>3, <3>1
  <2> QED BY <1>11, <2>2, <2>3, Zenon DEF TestChange
<1>12. CASE Pause
  BY <1>12 DEF Pause, Slept
<1>13. CASE Complete
  <2>1. GroupLock' = FALSE BY <1>13 DEF Complete, ThCompleteDelayedAction
  <2>2. (pc' \in {"record", "test", "complete"}) = FALSE BY <1>13 DEF Complete
  <2> QED BY <2>1, <2>2, Zenon
<1>14. CASE Sleep
  BY <1>14 DEF Sleep
<1>15. CASE ClearChanged
  BY <1>15 DEF ClearChanged
<1>16. CASE UNCHANGED vars
  BY <1>16
<1>17. CASE QueryFails
  BY <1>17 DEF QueryFails
<1> QED BY <1>1, <1>2, <1>3, <1>4, <1>5, <1>6, <1>7, <1>8, <1>9, <1>10, <1>11, <1>12, <1>13, <1>14, <1>15, <1>16,
  <1>17 DEF Next, PurgerStep

\* Every step keeps what is known of a pause.
LEMMA PauseKept ==
    ASSUME IInv, [Next]_vars
    PROVE  PauseInv'
<1> USE DEF IInv, TypeOK, DelayInfo, PC
<1>1. CASE SetSymbolValue
  BY <1>1 DEF SetSymbolValue, PauseInv, PauseWithinTarget
<1>2. CASE AprsMonitorKeepDays
  BY <1>2 DEF AprsMonitorKeepDays, PauseInv, PauseWithinTarget
<1>3. CASE ShutDown
  BY <1>3 DEF ShutDown, PauseInv, PauseWithinTarget
<1>4. CASE FirstDelay
  BY <1>4 DEF FirstDelay, PauseInv, PauseWithinTarget
<1>5. CASE ReadKeepDays
  BY <1>5 DEF ReadKeepDays, PauseInv, PauseWithinTarget
<1>6. CASE End
  BY <1>6 DEF End, PauseInv, PauseWithinTarget
<1>7. CASE AprsPurgeSubDir
  BY <1>7 DEF AprsPurgeSubDir, PauseInv, PauseWithinTarget
<1>8. CASE LogsPurged
  BY <1>8 DEF LogsPurged, PauseInv, PauseWithinTarget
<1>9. CASE QueryPackets
  BY <1>9 DEF QueryPackets, PauseInv, PauseWithinTarget
<1>10. CASE PurgeRecord
  BY <1>10 DEF PurgeRecord, PauseInv, PauseWithinTarget
<1>11. CASE TestChange
  <2> SUFFICES ASSUME pc' = "pause" PROVE PauseInv' BY DEF PauseInv
  <2> DEFINE ms == PauseFor(PacketsPurged, Batch)
  <2>1. ThContinueDelayedAction(PacketsPurged, Batch) /\ ~GroupLock'
    BY <1>11 DEF TestChange
  <2>2. PacketsPurged # 0 /\ info.TotalCount > PacketsPurged /\ ~(ms <= 0)
    <3> DEFINE m == IF PacketsPurged # 0 /\ info.TotalCount > PacketsPurged THEN ms ELSE 0
    <3>1. GroupLock' = (m <= 0) BY <2>1, Zenon DEF ThContinueDelayedAction
    <3>2. ~(m <= 0) BY <2>1, <3>1, Zenon
    <3> HIDE DEF ms
    <3> QED BY <3>2
  <2>3. info' = [info EXCEPT !.CurrentCount = PacketsPurged, !.msSleep = ms]
        /\ msElapsed' = msElapsed
    BY <2>1, <2>2 DEF ThContinueDelayedAction
  <2>4. ms \in Int /\ ms > 0 /\ ms <= msExtra(msElapsed, PacketsPurged)
    BY <2>2, PauseForOK
  <2> DEFINE req == msRequired(msElapsed, PacketsPurged, info.TotalCount)
  <2>5. req \in Int
    <3> DEFINE a == msElapsed \div PacketsPurged
               b == info.TotalCount - PacketsPurged
    <3>1. a \in Nat BY <2>2, DivNat
    <3>2. b \in Int BY <2>2
    <3> HIDE DEF a, b
    <3>3. a * b \in Int BY <3>1, <3>2
    <3> QED BY <3>3 DEF a, b, msRequired
  <2>6. msExtra(msElapsed, PacketsPurged) = info.Elapsed - msElapsed - req BY DEF msExtra
  <2> HIDE DEF ms, req
  <2>7. msElapsed + ms + req <= info.Elapsed BY <2>4, <2>5, <2>6
  <2>8. info'.msSleep = ms /\ info'.CurrentCount = PacketsPurged
        /\ info'.TotalCount = info.TotalCount /\ info'.Elapsed = info.Elapsed
    BY <2>3
  <2>9. msRequired(msElapsed', info'.CurrentCount, info'.TotalCount) = req
    BY <2>3, <2>8 DEF req
  <2> QED BY <2>3, <2>4, <2>7, <2>8, <2>9 DEF PauseInv, PauseWithinTarget
<1>12. CASE Pause
  BY <1>12 DEF Pause, PauseInv, PauseWithinTarget
<1>13. CASE Complete
  BY <1>13 DEF Complete, PauseInv, PauseWithinTarget
<1>14. CASE Sleep
  BY <1>14 DEF Sleep, PauseInv, PauseWithinTarget
<1>15. CASE ClearChanged
  BY <1>15 DEF ClearChanged, PauseInv, PauseWithinTarget
<1>16. CASE UNCHANGED vars
  BY <1>16 DEF PauseInv, PauseWithinTarget
<1>17. CASE QueryFails
  BY <1>17 DEF QueryFails, PauseInv, PauseWithinTarget
<1> QED BY <1>1, <1>2, <1>3, <1>4, <1>5, <1>6, <1>7, <1>8, <1>9, <1>10, <1>11, <1>12, <1>13, <1>14, <1>15, <1>16,
  <1>17 DEF Next, PurgerStep

\* Every step keeps what is known of the records deleted by an old value.
LEMMA LateKept ==
    ASSUME IInv, [Next]_vars
    PROVE  LateInv'
<1> USE DEF IInv, TypeOK, DelayInfo, PC
<1>1. CASE SetSymbolValue
  BY <1>1 DEF SetSymbolValue, LateInv
<1>2. CASE AprsMonitorKeepDays
  BY <1>2 DEF AprsMonitorKeepDays, LateInv
<1>3. CASE ShutDown
  BY <1>3 DEF ShutDown, LateInv
<1>4. CASE FirstDelay
  BY <1>4 DEF FirstDelay, LateInv
<1>5. CASE ReadKeepDays
  BY <1>5 DEF ReadKeepDays, LateInv
<1>6. CASE End
  BY <1>6 DEF End, LateInv
<1>7. CASE AprsPurgeSubDir
  BY <1>7 DEF AprsPurgeSubDir, LateInv
<1>8. CASE LogsPurged
  BY <1>8 DEF LogsPurged, LateInv
<1>9. CASE QueryPackets
  BY <1>9 DEF QueryPackets, LateInv
<1>10. CASE PurgeRecord
  BY <1>10 DEF PurgeRecord, LateInv, ChangeIsNoticed
<1>11. CASE TestChange
  BY <1>11 DEF TestChange, LateInv
<1>12. CASE Pause
  BY <1>12 DEF Pause, LateInv
<1>13. CASE Complete
  BY <1>13 DEF Complete, LateInv
<1>14. CASE Sleep
  BY <1>14 DEF Sleep, LateInv
<1>15. CASE ClearChanged
  BY <1>15 DEF ClearChanged, LateInv
<1>16. CASE UNCHANGED vars
  BY <1>16 DEF LateInv
<1>17. CASE QueryFails
  BY <1>17 DEF QueryFails, LateInv
<1> QED BY <1>1, <1>2, <1>3, <1>4, <1>5, <1>6, <1>7, <1>8, <1>9, <1>10, <1>11, <1>12, <1>13, <1>14, <1>15, <1>16,
  <1>17 DEF Next, PurgerStep

\* No step loses a change of KEEP_DAYS.
LEMMA NoticedKept ==
    ASSUME IInv, [Next]_vars
    PROVE  ChangeIsNoticed'
<1> USE DEF IInv, TypeOK, DelayInfo, PC
<1>1. CASE SetSymbolValue
  BY <1>1 DEF SetSymbolValue, ChangeIsNoticed
<1>2. CASE AprsMonitorKeepDays
  BY <1>2 DEF AprsMonitorKeepDays, ChangeIsNoticed
<1>3. CASE ShutDown
  BY <1>3 DEF ShutDown, ChangeIsNoticed
<1>4. CASE FirstDelay
  BY <1>4 DEF FirstDelay, ChangeIsNoticed
<1>5. CASE ReadKeepDays
  BY <1>5 DEF ReadKeepDays, ChangeIsNoticed
<1>6. CASE End
  BY <1>6 DEF End, ChangeIsNoticed
<1>7. CASE AprsPurgeSubDir
  BY <1>7 DEF AprsPurgeSubDir, ChangeIsNoticed
<1>8. CASE LogsPurged
  BY <1>8 DEF LogsPurged, ChangeIsNoticed
<1>9. CASE QueryPackets
  BY <1>9 DEF QueryPackets, ChangeIsNoticed
<1>10. CASE PurgeRecord
  BY <1>10 DEF PurgeRecord, ChangeIsNoticed
<1>11. CASE TestChange
  BY <1>11 DEF TestChange, ChangeIsNoticed
<1>12. CASE Pause
  BY <1>12 DEF Pause, ChangeIsNoticed
<1>13. CASE Complete
  BY <1>13 DEF Complete, ChangeIsNoticed
<1>14. CASE Sleep
  BY <1>14 DEF Sleep, ChangeIsNoticed
<1>15. CASE ClearChanged
  BY <1>15 DEF ClearChanged, ChangeIsNoticed
<1>16. CASE UNCHANGED vars
  BY <1>16 DEF ChangeIsNoticed
<1>17. CASE QueryFails
  BY <1>17 DEF QueryFails, ChangeIsNoticed
<1> QED BY <1>1, <1>2, <1>3, <1>4, <1>5, <1>6, <1>7, <1>8, <1>9, <1>10, <1>11, <1>12, <1>13, <1>14, <1>15, <1>16,
  <1>17 DEF Next, PurgerStep

-----------------------------------------------------------------------------
\* The inductive invariant holds in every state.
LEMMA InvHolds == Spec => []IInv
<1>1. Init => IInv
  <2> SUFFICES ASSUME Init PROVE IInv OBVIOUS
  <2> USE DEF Init, DelayInit
  <2>1. VarsOK
    <3>1. info \in DelayInfo /\ msElapsed \in Nat BY DEF DelayInfo
    <3>2. PassCount \in 0..(ZipEvery - 1) OBVIOUS
    <3> QED BY <3>1, <3>2 DEF VarsOK, PC
  <2>2. LockOK
    <3>1. (pc \in {"record", "test", "complete"}) = FALSE /\ GroupLock = FALSE OBVIOUS
    <3> QED BY <3>1, Zenon DEF LockOK
  <2>3. PauseInv /\ LateInv /\ ChangeIsNoticed BY DEF PauseInv, LateInv, ChangeIsNoticed
  <2> QED BY <2>1, <2>2, <2>3, TypeSplit DEF IInv
<1>2. IInv /\ [Next]_vars => IInv'
  <2> SUFFICES ASSUME IInv, [Next]_vars PROVE IInv' OBVIOUS
  <2>1. VarsOK' /\ LockOK' BY VarsKept, LockKept
  <2>2. TypeOK' BY <2>1, Zenon DEF TypeOK, VarsOK, LockOK
  <2> QED BY <2>2, PauseKept, LateKept, NoticedKept DEF IInv
<1> QED BY <1>1, <1>2, PTL DEF Spec

\* Every variable keeps its type, and the purger has the lock of its group while
\* it works on the records, and at no other time.
THEOREM TypeCorrect == Spec => []TypeOK
<1>1. IInv => TypeOK BY DEF IInv
<1> QED BY <1>1, InvHolds, PTL

\* A change of KEEP_DAYS is not lost, however often and whenever it comes.
THEOREM ChangesNoticed == Spec => []ChangeIsNoticed
<1>1. IInv => ChangeIsNoticed BY DEF IInv
<1> QED BY <1>1, InvHolds, PTL

\* After the callback of a change a pass deletes one more record at most by the
\* value it has read before, whatever the batches and the pauses.
THEOREM OneRecordLate == Spec => []OneRecordAfterCallback
<1>1. IInv => OneRecordAfterCallback BY DEF IInv, LateInv, OneRecordAfterCallback
<1> QED BY <1>1, InvHolds, PTL

\* A pause leaves the rest of the records the time they need at the pace so far,
\* for any size of batch and any number of records.
THEOREM PausesWithinTarget == Spec => []PauseWithinTarget
<1>1. IInv => PauseWithinTarget BY DEF IInv, PauseInv, PauseWithinTarget
<1> QED BY <1>1, InvHolds, PTL

=============================================================================
