----------------------------- MODULE MCZnpPort ------------------------------
(* Frames for the runs of ZnpPort: an empty payload, and one made of the    *)
(* start-of-frame marker and what looks like a frame of no payload.         *)
EXTENDS ZnpPort

Ping == [type |-> 2, subsystem |-> 1, command |-> 1, payload |-> <<>>]
Tricky == [type |-> 4, subsystem |-> 5, command |-> 254,
           payload |-> <<254, 0, 1, 254>>]
MCFrame == {Ping, Tricky}
MCGarbled == {0, 17, SOF}
=============================================================================
