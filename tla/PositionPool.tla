---------------------------- MODULE PositionPool ----------------------------
(***************************************************************************)
(* What the Position table promises the rest of the server: a pool of      *)
(* interned coordinates.  Whoever has a coordinate gets the index of its   *)
(* one row, just touched; rows refer to positions by index; a position     *)
(* goes away only when it is old and nothing refers to it, in one step,    *)
(* whatever scans and locks that takes.                                    *)
(***************************************************************************)
CONSTANTS Coord, PosIndex, NoRow

VARIABLES
    pos,    \* index -> coordinate and age of its row, or NoRow
    refs    \* the indices that stored rows refer to

LivePos == {i \in PosIndex : pos[i] # NoRow}

Init == pos = [i \in PosIndex |-> NoRow] /\ refs = {}

(* AprsGetPositionIndex: the row of a coordinate is touched, or inserted   *)
(* under an index that is not in use.                                      *)
Intern(w, i) ==
    /\ \/ i \in LivePos /\ pos[i].where = w
       \/ i \notin LivePos /\ \A j \in LivePos : pos[j].where # w
    /\ pos' = [pos EXCEPT ![i] = [where |-> w, old |-> FALSE]]
    /\ UNCHANGED refs

Age(i) ==
    /\ i \in LivePos
    /\ pos' = [pos EXCEPT ![i].old = TRUE]
    /\ UNCHANGED refs

(* Rows are stored and deleted; what they refer to is in the pool.         *)
Refer(new) ==
    /\ new \subseteq LivePos
    /\ refs' = new
    /\ UNCHANGED pos

Purge(i) ==
    /\ i \in LivePos \ refs
    /\ pos[i].old
    /\ pos' = [pos EXCEPT ![i] = NoRow]
    /\ UNCHANGED refs

Next == \/ \E i \in PosIndex : Age(i) \/ Purge(i) \/ \E w \in Coord : Intern(w, i)
        \/ \E new \in SUBSET PosIndex : Refer(new)

Spec == Init /\ [][Next]_<<pos, refs>>
=============================================================================
