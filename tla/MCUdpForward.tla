----------------------------- MODULE MCUdpForward -----------------------------
(* UdpForward for TLC.                                                     *)
EXTENDS UdpForward

CONSTANTS s1, s2

D(a, s, i) == [action |-> a, from |-> s, n |-> i]

\* Three of a client that numbers them, the second only for the log, one of another.
Sent == {D("IGated", s1, 1), D("Msg2RF", s1, 2),
         D("IGated", s1, 3), D("RFtoRF", s2, 1)}
=============================================================================
