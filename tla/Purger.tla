------------------------------- MODULE Purger -------------------------------
(* AprsPurger (aprs.c): the thread that deletes old packets and logs, and   *)
(* the symbol KEEP_DAYS, which may change while it does.  The tables it     *)
(* works on are in PacketStore; here a packet is one of the records of a    *)
(* query, and a second of the code is one unit of ThDelay's time.           *)
(*                                                                          *)
(* Operators with a name of the form <Definition>_<Fault> are the           *)
(* definition with a plausible fault of the code: each shows that a         *)
(* property can fail.  No specification uses them.                          *)
EXTENDS ThDelay

CONSTANTS
    Days,          \* the values of KEEP_DAYS
    DelayTurns,    \* turns of the first delay, WAKE_MINUTES * 4 in the code
    Wake,          \* WAKE_MINUTES * 60
    ZipEvery,      \* ZIP_MINUTES / WAKE_MINUTES
    Batch,         \* records between two pauses, 1000 in the code
    SubDirs,       \* the number of log directories
    MaxRecords,    \* bound: records of a query
    MaxChanges,    \* bound: changes of KEEP_DAYS
    MaxElapsed     \* bound: the time a pass takes without its pauses

ASSUME PurgerAssumption ==
    /\ Days \subseteq Nat
    /\ {DelayTurns, Wake, ZipEvery, Batch} \subseteq Nat \ {0}
    /\ {SubDirs, MaxRecords, MaxChanges, MaxElapsed} \subseteq Nat

VARIABLES
    KEEP_DAYS,         \* the value of the symbol
    calling,           \* TRUE between the change and its callback
    KeepDaysChanged,
    pc,
    KeepDays,          \* what the pass has read
    logDays,           \* what AprsPurgeSubDir has read last in this pass
    dirs,              \* log directories left
    PassCount,         \* modulo ZipEvery
    SleepIndex,
    Elapsed,
    left,              \* records left in the cursor
    PacketsPurged,
    shuttingDown,      \* CiIsShuttingDown()
    late,              \* history: records deleted in this pass by a value that
                       \* was old and whose callbacks had returned
    changes            \* history: changes of KEEP_DAYS

symbol == <<KEEP_DAYS, calling, changes>>
pass   == <<KeepDays, logDays, dirs, PassCount>>
sleep  == <<SleepIndex, Elapsed>>
cursor == <<left, PacketsPurged, late>>
vars   == <<delayVars, symbol, pass, sleep, cursor, KeepDaysChanged, pc, shuttingDown>>

PC == {"delay", "loop", "logs", "query", "record", "test", "pause", "complete",
       "sleep", "clear", "ended"}

Init ==
    /\ DelayInit
    /\ KEEP_DAYS \in Days
    /\ calling = FALSE
    /\ KeepDaysChanged = FALSE
    /\ pc = "delay"
    /\ KeepDays = KEEP_DAYS
    /\ logDays = KEEP_DAYS
    /\ dirs = 0
    /\ PassCount = 0
    /\ SleepIndex = 0
    /\ Elapsed = 0
    /\ left = 0
    /\ PacketsPurged = 0
    /\ shuttingDown = FALSE
    /\ late = 0
    /\ changes = 0

-----------------------------------------------------------------------------
(* The symbol and the process around the purger.                           *)

\* The value is set first; then the thread that set it calls the callbacks.
SetSymbolValue ==
    /\ ~calling
    /\ changes < MaxChanges
    /\ \E d \in Days \ {KEEP_DAYS} : KEEP_DAYS' = d
    /\ calling' = TRUE
    /\ changes' = changes + 1
    /\ UNCHANGED <<delayVars, pass, sleep, cursor, KeepDaysChanged, pc, shuttingDown>>

AprsMonitorKeepDays ==
    /\ calling
    /\ calling' = FALSE
    /\ KeepDaysChanged' = TRUE
    /\ UNCHANGED <<delayVars, KEEP_DAYS, changes, pass, sleep, cursor, pc, shuttingDown>>

ShutDown ==
    /\ ~shuttingDown
    /\ shuttingDown' = TRUE
    /\ UNCHANGED <<delayVars, symbol, pass, sleep, cursor, KeepDaysChanged, pc>>

-----------------------------------------------------------------------------
(* A pass of the purger.                                                   *)

\* A turn of the first delay, which a change ends.
FirstDelay ==
    /\ pc = "delay"
    /\ SleepIndex' = SleepIndex + 1
    /\ pc' = IF KeepDaysChanged \/ SleepIndex + 1 = DelayTurns THEN "loop" ELSE "delay"
    /\ KeepDaysChanged' = FALSE
    /\ UNCHANGED <<delayVars, symbol, pass, Elapsed, cursor, shuttingDown>>

\* The head of the loop: reads KEEP_DAYS for the pass.  The orphan positions
\* that go next are in PacketStore.
ReadKeepDays_Static ==
    /\ pc = "loop"
    /\ ~shuttingDown
    /\ logDays' = KeepDays
    /\ Elapsed' = 0
    /\ dirs' = IF KeepDays # 0 /\ PassCount = 0 THEN SubDirs ELSE 0
    /\ pc' = "logs"
    /\ UNCHANGED <<delayVars, symbol, KeepDays, PassCount, SleepIndex, cursor,
                   KeepDaysChanged, shuttingDown>>
ReadKeepDays ==
    /\ pc = "loop"
    /\ ~shuttingDown
    /\ KeepDays' = KEEP_DAYS
    /\ logDays' = KEEP_DAYS
    /\ Elapsed' = 0
    /\ dirs' = IF KEEP_DAYS # 0 /\ PassCount = 0 THEN SubDirs ELSE 0
    /\ pc' = "logs"
    /\ UNCHANGED <<delayVars, symbol, PassCount, SleepIndex, cursor, KeepDaysChanged,
                   shuttingDown>>

End ==
    /\ pc = "loop"
    /\ shuttingDown
    /\ pc' = "ended"
    /\ UNCHANGED <<delayVars, symbol, pass, sleep, cursor, KeepDaysChanged, shuttingDown>>

\* The logs of one directory go by what KEEP_DAYS is by now.
AprsPurgeSubDir ==
    /\ pc = "logs"
    /\ dirs > 0
    /\ logDays' = KEEP_DAYS
    /\ dirs' = dirs - 1
    /\ UNCHANGED <<delayVars, symbol, KeepDays, PassCount, sleep, cursor,
                   KeepDaysChanged, pc, shuttingDown>>

LogsPurged ==
    /\ pc = "logs"
    /\ dirs = 0
    /\ pc' = "query"
    /\ UNCHANGED <<delayVars, symbol, pass, sleep, cursor, KeepDaysChanged, shuttingDown>>

\* DbQuery returns NULL, which ends the process.
QueryFails ==
    /\ pc = "query"
    /\ pc' = "ended"
    /\ UNCHANGED <<delayVars, symbol, pass, sleep, cursor, KeepDaysChanged, shuttingDown>>

\* Some packets are old, and the delayed action begins, or none is.
QueryPackets ==
    /\ pc = "query"
    /\ \E n \in 0..MaxRecords :
         /\ left' = n
         /\ IF n = 0 THEN UNCHANGED delayVars ELSE ThBeginDelayedAction(Wake, n)
         /\ pc' = IF n = 0 THEN "sleep" ELSE "record"
         /\ PassCount' = IF n = 0 THEN (PassCount + 1) % ZipEvery ELSE PassCount
    /\ PacketsPurged' = 0
    /\ late' = 0
    /\ SleepIndex' = 0
    /\ UNCHANGED <<symbol, KeepDays, logDays, dirs, Elapsed, KeepDaysChanged, shuttingDown>>

\* One record of the cursor with its hops; a service may have deleted it already.
PurgeRecord ==
    /\ pc = "record"
    /\ left > 0
    /\ left' = left - 1
    /\ \E deleted \in {0, 1} :
         /\ PacketsPurged' = PacketsPurged + deleted
         /\ late' = IF KeepDays # KEEP_DAYS /\ ~calling THEN late + deleted ELSE late
    /\ \E t \in {0, 1} :
         /\ msElapsed + t <= MaxElapsed
         /\ msElapsed' = msElapsed + t
    /\ pc' = "test"
    /\ UNCHANGED <<info, GroupLock, symbol, pass, sleep, KeepDaysChanged, shuttingDown>>

\* A change ends the loop; otherwise every Batch records may bring a pause.
TestChange_Never ==
    /\ pc = "test"
    /\ IF PacketsPurged % Batch = 0
       THEN /\ ThContinueDelayedAction(PacketsPurged, Batch)
            /\ pc' = IF ~GroupLock' THEN "pause"
                     ELSE IF shuttingDown THEN "complete" ELSE "record"
       ELSE pc' = "record" /\ UNCHANGED delayVars
    /\ UNCHANGED <<symbol, pass, sleep, cursor, KeepDaysChanged, shuttingDown>>
TestChange ==
    /\ pc = "test"
    /\ IF KeepDaysChanged
       THEN pc' = "complete" /\ UNCHANGED delayVars
       ELSE IF PacketsPurged % Batch = 0
       THEN /\ ThContinueDelayedAction(PacketsPurged, Batch)
            /\ pc' = IF ~GroupLock' THEN "pause"
                     ELSE IF shuttingDown THEN "complete" ELSE "record"
       ELSE pc' = "record" /\ UNCHANGED delayVars
    /\ UNCHANGED <<symbol, pass, sleep, cursor, KeepDaysChanged, shuttingDown>>

Pause ==
    /\ pc = "pause"
    /\ Slept
    /\ pc' = IF shuttingDown THEN "complete" ELSE "record"
    /\ UNCHANGED <<symbol, pass, sleep, cursor, KeepDaysChanged, shuttingDown>>

\* The end of the cursor or of the loop: what it took shortens the sleep.
Complete ==
    /\ pc = "complete" \/ (pc = "record" /\ left = 0)
    /\ ThCompleteDelayedAction
    /\ Elapsed' = msElapsed
    /\ PassCount' = (PassCount + 1) % ZipEvery
    /\ pc' = "sleep"
    /\ UNCHANGED <<symbol, KeepDays, logDays, dirs, SleepIndex, cursor, KeepDaysChanged,
                   shuttingDown>>

\* A second of the sleep, which a change ends.
Sleep ==
    /\ pc = "sleep"
    /\ IF SleepIndex < Wake - Elapsed
       THEN /\ SleepIndex' = IF KeepDaysChanged THEN SleepIndex ELSE SleepIndex + 1
            /\ pc' = IF KeepDaysChanged THEN "clear" ELSE "sleep"
       ELSE pc' = "clear" /\ UNCHANGED SleepIndex
    /\ UNCHANGED <<delayVars, symbol, pass, Elapsed, cursor, KeepDaysChanged, shuttingDown>>

ClearChanged ==
    /\ pc = "clear"
    /\ KeepDaysChanged' = FALSE
    /\ pc' = "loop"
    /\ UNCHANGED <<delayVars, symbol, pass, sleep, cursor, shuttingDown>>

PurgerStep ==
    \/ FirstDelay \/ ReadKeepDays \/ End \/ AprsPurgeSubDir \/ LogsPurged
    \/ QueryFails \/ QueryPackets \/ PurgeRecord \/ TestChange \/ Pause \/ Complete
    \/ Sleep \/ ClearChanged

Next ==
    \/ PurgerStep
    \/ SetSymbolValue \/ AprsMonitorKeepDays \/ ShutDown
    \/ pc = "ended" /\ UNCHANGED vars

Spec == Init /\ [][Next]_vars

\* The purger sleeps and works on; who changed the symbol calls its callbacks.
FairSpec == Spec /\ WF_vars(PurgerStep) /\ WF_vars(AprsMonitorKeepDays)

-----------------------------------------------------------------------------
(* Properties.                                                             *)

\* Every variable keeps its type, and the lock of the group belongs to the loop
\* over the records except for its pauses.
TypeOK ==
    /\ info \in DelayInfo
    /\ msElapsed \in Nat
    /\ KEEP_DAYS \in Days /\ KeepDays \in Days /\ logDays \in Days
    /\ calling \in BOOLEAN /\ KeepDaysChanged \in BOOLEAN /\ shuttingDown \in BOOLEAN
    /\ pc \in PC
    /\ dirs \in Nat
    /\ PassCount \in 0..(ZipEvery - 1)
    /\ SleepIndex \in Nat /\ Elapsed \in Nat
    /\ left \in Nat /\ PacketsPurged \in Nat /\ late \in Nat /\ changes \in Nat
    /\ GroupLock = (pc \in {"record", "test", "complete"})

\* No change of KEEP_DAYS is lost, although KeepDaysChanged is cleared at the
\* end of every pass: whenever a pass goes by another value than the symbol
\* has, or its logs went by another, the flag is set or about to be, or the
\* purger has yet to read the symbol again.
ChangeIsNoticed ==
    KeepDaysChanged \/ calling \/ pc \in {"delay", "loop", "ended"}
    \/ (KeepDays = KEEP_DAYS /\ logDays = KEEP_DAYS)

\* Once the callback of a change has returned, a pass that goes by another value
\* than the symbol has deletes one more record at most, also when it is in a
\* pause: the flag is not lost until the pass has seen it.  Between the change
\* and its callback the pass may delete any number.
OneRecordAfterCallback == late <= 1

\* A pause ends early enough for the rest of the records, at the pace so far, to
\* be deleted within the time the action is to take.
PauseWithinTarget ==
    pc = "pause" =>
        msElapsed + info.msSleep
          + msRequired(msElapsed, info.CurrentCount, info.TotalCount) <= info.Elapsed

\* The purger goes by a new value of KEEP_DAYS in the end, or ends itself.
ChangeTakesEffect ==
    KeepDays # KEEP_DAYS ~> KeepDays = KEEP_DAYS \/ pc = "ended"

=============================================================================
