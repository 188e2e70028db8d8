----------------------------- MODULE MCAprsServer -----------------------------
(* AprsServer for TLC: handles and reader threads are interchangeable.     *)
EXTENDS AprsServer, TLC

CONSTANTS udp, r1, r2, r3, s1, s2, s3

Alike == Permutations(Socket) \cup Permutations(Reader)
=============================================================================
