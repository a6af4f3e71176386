-------------------------------- MODULE Rpc ---------------------------------
(***************************************************************************)
(* What the users of ZnpApi rely on (main.cpp, zcl_endpoint.cpp): a call is *)
(* asked, the dongle answers that call with success or failure, and the     *)
(* future of the call then tells exactly that answer, once.  An impatient   *)
(* call may give up at any time between asking and hearing the answer, and  *)
(* then another impatient call may be told the answer meant for it.         *)
(* Once the link is broken (a request or an answer was lost) a call may hear *)
(* another answer than its own, still once.                                 *)
(***************************************************************************)
CONSTANTS Calls, Impatient
VARIABLES asked, answer, outcome, broken

rpcVars == <<asked, answer, outcome, broken>>

Init ==
  /\ asked = {}
  /\ answer = [c \in Calls |-> "none"]
  /\ outcome = [c \in Calls |-> "pending"]
  /\ broken = FALSE

Ask(c) ==
  /\ c \notin asked
  /\ asked' = asked \cup {c}
  /\ UNCHANGED <<answer, outcome, broken>>

Answer(c) ==
  /\ c \in asked
  /\ answer[c] = "none"
  /\ \E a \in {"ok", "failed"} : answer' = [answer EXCEPT ![c] = a]
  /\ UNCHANGED <<asked, outcome, broken>>

\* Answers are shifted among the impatient calls once one of them gave up.
Shifted(c, a) ==
  /\ c \in Impatient
  /\ \E d \in Impatient : outcome[d] = "timeout"
  /\ \E d \in Impatient : answer[d] = a

Hear(c) ==
  /\ outcome[c] = "pending"
  /\ c \in asked
  /\ \E a \in {"ok", "failed"} :
       /\ answer[c] = a \/ broken \/ Shifted(c, a)
       /\ outcome' = [outcome EXCEPT ![c] = a]
  /\ UNCHANGED <<asked, answer, broken>>

GiveUp(c) ==
  /\ c \in Impatient \cap asked
  /\ outcome[c] = "pending"
  /\ outcome' = [outcome EXCEPT ![c] = "timeout"]
  /\ UNCHANGED <<asked, answer, broken>>

\* The request can not be sent.
Refuse(c) ==
  /\ c \notin asked
  /\ asked' = asked \cup {c}
  /\ outcome' = [outcome EXCEPT ![c] = "failed"]
  /\ broken' = TRUE
  /\ UNCHANGED answer

Break == ~broken /\ broken' = TRUE /\ UNCHANGED <<asked, answer, outcome>>

Next ==
  \/ \E c \in Calls : Ask(c) \/ Answer(c) \/ Hear(c) \/ GiveUp(c) \/ Refuse(c)
  \/ Break

Spec == Init /\ [][Next]_rpcVars
=============================================================================
