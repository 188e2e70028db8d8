---------------------------- MODULE MCPacketStore ----------------------------
(* Instances of PacketStore for TLC.                                       *)
EXTENDS PacketStore, TLC

CONSTANTS h1, h2, A, B, x, y

Report(s, c, p, w) ==
    [service |-> s, obj |-> c, path |-> p, where |-> w, message |-> FALSE]

(* Two stations that move between two coordinates; the IGate of A is B,    *)
(* and the destination is dropped from the path, so its name is free.      *)
MovingStations ==
    {Report("is", A, <<A, B, B>>, x), Report("is", A, <<A, B, B>>, y),
     Report("rf", B, <<B>>, y)}

(* One station that moves, with the packets that have no position: stored  *)
(* when heard on RF, a touch of the station or a message otherwise.        *)
MovesAndTouches ==
    {Report("is", A, <<A>>, x), Report("is", A, <<A>>, y),
     Report("rf", A, <<A>>, NoCoord), Report("is", A, <<A>>, NoCoord),
     [Report("is", A, <<A>>, NoCoord) EXCEPT !.message = TRUE]}

=============================================================================
