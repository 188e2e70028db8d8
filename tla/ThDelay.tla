------------------------------- MODULE ThDelay -------------------------------
(* Delayed actions (ThDelay.c): work on a number of things that is spread   *)
(* over a time by pauses.  The info of the one action of the program, that  *)
(* of the purger, and the lock of its group; time is in milliseconds.       *)
(* MILLISECS_F and COUNT_F are signed, as the test msSleep > 0 takes them.  *)
(*                                                                          *)
(* Operators with a name of the form <Definition>_<Fault> are the           *)
(* definition with a plausible fault of the code: each shows that a         *)
(* property can fail.  No specification uses them.                          *)
EXTENDS Integers

CONSTANTS MaxPause    \* the longest pause, 60000 in the code

ASSUME PauseAssumption == MaxPause \in Nat \ {0}

VARIABLES
    info,        \* TH_DELAY_INFO_S of the action
    GroupLock,   \* TRUE while the action holds the lock of its group
    msElapsed    \* RtGetMsec() - Info->msStart, while the action is active

delayVars == <<info, GroupLock, msElapsed>>

DelayInfo == [Active : BOOLEAN, Elapsed : Nat, TotalCount : Nat,
              CurrentCount : Nat, msSleep : Int]

DelayInit ==
    /\ info = [Active |-> FALSE, Elapsed |-> 0, TotalCount |-> 0,
               CurrentCount |-> 0, msSleep |-> 0]
    /\ GroupLock = FALSE
    /\ msElapsed = 0

\* Begins the action, which is to take `elapsed' for `total' things.
ThBeginDelayedAction(elapsed, total) ==
    /\ ~GroupLock
    /\ info' = [Active |-> TRUE, Elapsed |-> elapsed, TotalCount |-> total,
                CurrentCount |-> 0, msSleep |-> 0]
    /\ GroupLock' = TRUE
    /\ msElapsed' = 0

\* C divides towards zero.
Quotient(a, b) == IF a >= 0 THEN a \div b ELSE -((-a) \div b)

\* What the rest of the things takes at the pace so far.
msRequired(elapsed, count, total) == (elapsed \div count) * (total - count)

msExtra(elapsed, count) ==
    info.Elapsed - elapsed - msRequired(elapsed, count, info.TotalCount)

\* The share of the extra time until the next `delta' things are done.
PauseFor_AlwaysShare(count, delta) ==
    LET cRemain == info.TotalCount - count
        share == Quotient(msExtra(msElapsed, count) * delta, cRemain)
    IN  IF share > MaxPause THEN MaxPause ELSE share
PauseFor(count, delta) ==
    LET cRemain == info.TotalCount - count
        extra == msExtra(msElapsed, count)
        share == IF delta > cRemain THEN extra ELSE Quotient(extra * delta, cRemain)
    IN  IF share > MaxPause THEN MaxPause ELSE share

\* `count' things are done: how long to sleep, 0 when all or none are.  The lock
\* is given back for the sleep.
ThContinueDelayedAction(count, delta) ==
    LET ms == IF count # 0 /\ info.TotalCount > count THEN PauseFor(count, delta) ELSE 0
    IN  /\ info' = [info EXCEPT !.CurrentCount = count, !.msSleep = ms]
        /\ GroupLock' = (ms <= 0)
        /\ UNCHANGED msElapsed

\* The end of the sleep.
Slept_Unlocked ==
    /\ ~GroupLock
    /\ msElapsed' = msElapsed + info.msSleep
    /\ UNCHANGED <<info, GroupLock>>
Slept ==
    /\ ~GroupLock
    /\ GroupLock' = TRUE
    /\ msElapsed' = msElapsed + info.msSleep
    /\ UNCHANGED info

\* Gives the lock back; the caller takes msElapsed as what it all took.
ThCompleteDelayedAction ==
    /\ GroupLock
    /\ GroupLock' = FALSE
    /\ info' = [info EXCEPT !.Active = FALSE, !.CurrentCount = info.TotalCount]
    /\ UNCHANGED msElapsed

=============================================================================
