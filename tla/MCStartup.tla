----------------------------- MODULE MCStartup -----------------------------
(* Instances of Startup for TLC: its other constants are in the .cfg files.  *)
EXTENDS Startup

\* As GCC evaluates the arguments, from the last to the first, and as written.
LastFirst  == <<"presharedkey", "chan_list", "pan_id", "startup_option">>
FirstLast  == <<"startup_option", "pan_id", "chan_list">>
=============================================================================
