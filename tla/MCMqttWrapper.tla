--------------------------- MODULE MCMqttWrapper ----------------------------
(* Messages and topics for the runs of MqttWrapper.                         *)
EXTENDS MqttWrapper

\* Messages of every quality of service, two of each that is acknowledged; main
\* uses 1 throughout.
MixedItems == {"at_most", "at_least", "at_least_too", "exactly", "exactly_too"}
MixedQos   == [i \in MixedItems |-> CASE i = "at_most" -> 0
                                      [] i \in {"at_least", "at_least_too"} -> 1
                                      [] i \in {"exactly", "exactly_too"} -> 2]
ReportItems == {"first", "second"}
ReportQos   == [i \in ReportItems |-> 1]
=============================================================================
