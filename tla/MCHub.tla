------------------------------- MODULE MCHub --------------------------------
(* Two devices and their addresses for the run of Hub, with one fault of any  *)
(* kind or two rejoins, by which one device takes over the other's address.   *)
EXTENDS Hub

MCHome == [d \in Devices |-> IF d = "button" THEN "a1" ELSE "a2"]
MCBudgets == {[k \in Kinds |-> IF k = f THEN IF f = "rejoin" THEN 2 ELSE 1 ELSE 0] : f \in Kinds}
=============================================================================
