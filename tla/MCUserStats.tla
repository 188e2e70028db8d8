------------------------------ MODULE MCUserStats ------------------------------
(* UserStats for TLC.                                                      *)
EXTENDS UserStats, TLC

CONSTANTS u1, u2

\* Two versions of a program, and the later one without its name.
Versions == {"ISCE 1", "ISCE 2", "2"}
VersionName(v) == IF v = "2" THEN "2" ELSE "ISCE"
VersionRest(v) == CASE v = "ISCE 1" -> 1 [] v = "ISCE 2" -> 2 [] v = "2" -> 0
VersionWithin(v, w) == v = "2" /\ w = "ISCE 2"

Alike == Permutations(User)
=============================================================================
