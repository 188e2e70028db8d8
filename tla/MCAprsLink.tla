----------------------------- MODULE MCAprsLink -----------------------------
(* Instances of AprsLink for TLC.                                          *)
EXTENDS AprsLink, TLC

CONSTANTS poller, a1, s1, s2

(* Sockets are interchangeable; used where no liveness is checked.         *)
Handles == Permutations(Socket)

=============================================================================
