------------------------------ MODULE Startup -------------------------------
(***************************************************************************)
(* The coroutine Initialize (main.cpp): reset the dongle, compare the        *)
(* configuration in its non-volatile memory with the desired one, rewrite it *)
(* when they differ, start the network and register the endpoint.  The       *)
(* program may be killed at any point, or exit on a failed answer, and is     *)
(* then started again; the dongle keeps its memory, and what it was sent.    *)
(*                                                                         *)
(* Resume is the coroutine between two awaits, OnFrame the handling of one   *)
(* received frame.  Requests and answers are matched as ZnpApi.tla shows:     *)
(* each awaited request gets its own answer.                               *)
(***************************************************************************)
EXTENDS Naturals, Sequences, Functions

CONSTANTS
  FieldOrder,   \* the options, as the compiler orders the requests for them
  PanId,        \* --panid: "mine", or "any" for 0xFFFF
  MaxFails,     \* bound on the requests the dongle fails
  MaxLeaves,    \* bound on the starts of the network it declines
  MaxCrashes,   \* bound on restarts of the program
  MaxBoots      \* bound on resets of the dongle on its own

\* The requests are arguments of when_all, whose order C++ leaves open.
Fields == Range(FieldOrder)

ASSUME OptionsAssumption ==
  FieldOrder \in Seq(Fields) /\ {"startup_option", "pan_id"} \subseteq Fields
ASSUME PanIdAssumption == PanId \in {"mine", "any"}
ASSUME BoundsAssumption ==
  MaxFails \in Nat /\ MaxLeaves \in Nat /\ MaxCrashes \in Nat /\ MaxBoots \in Nat

VARIABLES
  pc,            \* what Initialize awaits
  answer,        \* whether it has come: "pending", "ok" or "failed"
  awaiting,      \* futures of when_all still to come
  current_config,
  future_state,  \* the future of WaitForState
  toDongle, fromDongle,
  nv,            \* the dongle's configuration memory (external)
  dev,           \* its DeviceState
  registered,    \* endpoint 1 is registered
  permit,        \* the network is open for joining
  fails, leaves, crashes, boots

host   == <<pc, answer, awaiting, current_config, future_state>>
dongle == <<nv, dev, registered, permit>>
bounds == <<fails, leaves, crashes, boots>>
vars   == <<host, toDongle, fromDongle, dongle, bounds>>

Values ==
  [f \in Fields |-> CASE f = "startup_option" -> {"none", "clear"}
                      [] f = "pan_id" -> {"any", "mine", "other"}
                      [] OTHER -> {"mine", "factory", "other"}]
Configs == {c \in [Fields -> UNION {Values[f] : f \in Fields}] :
              \A f \in Fields : c[f] \in Values[f]}
desired_config ==
  [f \in Fields |-> CASE f = "startup_option" -> "none" [] f = "pan_id" -> PanId
                      [] OTHER -> "mine"]
Factory ==
  [f \in Fields |-> CASE f = "startup_option" -> "none" [] f = "pan_id" -> "any"
                      [] OTHER -> "factory"]

\* The coroutine awaits the answers of this name, at each of these points.
Awaited ==
  [start |-> "none", reset |-> "resetind", ieee |-> "ieee", read |-> "read",
   clear |-> "write", reset2 |-> "resetind", write |-> "write",
   startup |-> "startup", state |-> "none", permit |-> "permit",
   register |-> "register", ready |-> "none", exited |-> "none"]
DeviceStates == {"HOLD", "COORD_STARTING", "ZB_COORD", "NWK_ORPHAN"}

\* What the two sides send.
Requests ==
  [op : {"reset", "ieee", "state", "startup", "permit", "register"}]
    \cup {[op |-> "read", field |-> f] : f \in Fields}
    \cup UNION {{[op |-> "write", field |-> f, value |-> v] : v \in Values[f]} : f \in Fields}
Frames ==
  [op : {"resetind"}, ok : {TRUE}]
    \cup [op : {"write", "startup", "permit", "register"}, ok : BOOLEAN]
    \cup [op : {"ieee", "read", "state"}, ok : {FALSE}]
    \cup [op : {"ieee"}, ok : {TRUE}, field : {"none"}, value : {"none"}]
    \cup [op : {"state"}, ok : {TRUE}, field : {"none"}, value : DeviceStates]
    \cup [op : {"stateind"}, ok : {TRUE}, value : DeviceStates]
    \cup UNION {{[op |-> "read", ok |-> TRUE, field |-> f, value |-> v] :
                   v \in Values[f]} : f \in Fields}

TypeOK ==
  /\ pc \in DOMAIN Awaited /\ answer \in {"pending", "ok", "failed"}
  /\ awaiting \in 0 .. Len(FieldOrder)
  /\ current_config \in Configs
  /\ future_state \in {"none", "asked", "subscribed", "done", "failed"}
  /\ toDongle \in Seq(Requests) /\ fromDongle \in Seq(Frames)
  /\ nv \in Configs /\ dev \in DeviceStates
  /\ registered \in BOOLEAN /\ permit \in BOOLEAN
  /\ fails \in 0 .. MaxFails /\ leaves \in 0 .. MaxLeaves
  /\ crashes \in 0 .. MaxCrashes /\ boots \in 0 .. MaxBoots

\* A dongle just powered, with any configuration left by an earlier use.
Init ==
  /\ pc = "start" /\ answer = "ok" /\ awaiting = 0
  /\ current_config = Factory
  /\ future_state = "none"
  /\ toDongle = <<>> /\ fromDongle = <<>>
  /\ nv \in Configs /\ dev = "HOLD" /\ registered = FALSE /\ permit = FALSE
  /\ fails = 0 /\ leaves = 0 /\ crashes = 0 /\ boots = 0

-----------------------------------------------------------------------------
(* The host.                                                                *)

Req(op) == [op |-> op]
Reads  == [i \in DOMAIN FieldOrder |-> [op |-> "read", field |-> FieldOrder[i]]]
Write(f, v) == [op |-> "write", field |-> f, value |-> v]
Writes == [i \in DOMAIN FieldOrder |-> Write(FieldOrder[i], desired_config[FieldOrder[i]])]

\* Mutant: only the startup option is compared.
MatchesFirst(c, d) == c["startup_option"] = d["startup_option"]

\* FullConfiguration::operator==.
Matches(c, d) ==
  /\ \A f \in Fields \ {"pan_id"} : c[f] = d[f]
  /\ c["pan_id"] = d["pan_id"] \/ c["pan_id"] = "any" \/ d["pan_id"] = "any"

\* Mutant: only the first of several futures is awaited.
AwaitFirst(next, requests) ==
  /\ pc' = next
  /\ toDongle' = toDongle \o requests
  /\ answer' = "pending" /\ awaiting' = 1

\* Send requests at once and await them all.
Await(next, requests) ==
  /\ pc' = next
  /\ toDongle' = toDongle \o requests
  /\ answer' = "pending" /\ awaiting' = Len(requests)

\* WaitForState asks for the state before ZdoStartupFromApp is called.
StartZdo ==
  /\ pc' = "startup"
  /\ toDongle' = toDongle \o <<Req("state"), Req("startup")>>
  /\ answer' = "pending" /\ awaiting' = 1
  /\ future_state' = "asked"

\* Mutant: no RESET frame is sent.
SysResetSkipped(next) ==
  pc' = next /\ UNCHANGED <<answer, awaiting, toDongle>>

\* SysReset is resolved by the next RESET_IND, whatever caused it.
SysReset(next) == Await(next, <<Req("reset")>>)

StateAnswer(s) == CASE s = "done" -> "ok" [] s = "failed" -> "failed" [] OTHER -> "pending"

\* Initialize, from one await to the next.  Its last await, of the subscription
\* to MQTT, is resolved by a posted task (MqttWrapper.tla) and is left out.
Resume ==
  /\ answer = "ok"
  /\ \/ pc = "startup" /\ pc' = "state" /\ answer' = StateAnswer(future_state)
                      /\ UNCHANGED <<awaiting, toDongle, future_state>>
     \/ /\ pc \in {"read", "write"}
        /\ pc = "read" => Matches(current_config, desired_config)
        /\ StartZdo
     \/ /\ \/ pc = "start"    /\ SysReset("reset")
           \/ pc = "reset"    /\ Await("ieee", <<Req("ieee")>>)
           \/ pc = "ieee"     /\ Await("read", Reads)
           \/ pc = "read"     /\ ~Matches(current_config, desired_config)
                              /\ Await("clear", <<Write("startup_option", "clear")>>)
           \/ pc = "clear"    /\ SysReset("reset2")
           \/ pc = "reset2"   /\ Await("write", Writes)
           \/ pc = "state"    /\ Await("permit", <<Req("permit")>>)
           \/ pc = "permit"   /\ Await("register", <<Req("register")>>)
           \/ pc = "register" /\ pc' = "ready" /\ UNCHANGED <<answer, awaiting, toDongle>>
        /\ UNCHANGED future_state
  /\ UNCHANGED <<current_config, fromDongle, dongle, bounds>>

\* An exception leaves Initialize: io_service.stop, EXIT_FAILURE.
Exit ==
  /\ answer = "failed" /\ pc # "exited"
  /\ pc' = "exited"
  /\ UNCHANGED <<answer, awaiting, current_config, future_state, toDongle, fromDongle,
                 dongle, bounds>>

\* Mutants of WaitForState: the listener is not connected; any allowed state will
\* do; the state itself is the result.
WaitForStateNoConnect(f) ==
  IF ~f.ok THEN "failed" ELSE IF f.value = "ZB_COORD" THEN "done"
  ELSE IF f.value \in {"HOLD", "COORD_STARTING"} THEN "asked" ELSE "failed"
WaitForStateAny(f) ==
  IF f.ok /\ f.value \in {"ZB_COORD", "HOLD", "COORD_STARTING"} THEN "done" ELSE "failed"
WaitForStateRaw(f) == IF ~f.ok THEN "failed" ELSE f.value

\* The answer to GET_DEVICE_INFO within WaitForState; the future is then ready,
\* or resolved by the listener for later changes.
WaitForState(f) ==
  IF ~f.ok THEN "failed" ELSE IF f.value = "ZB_COORD" THEN "done"
  ELSE IF f.value \in {"HOLD", "COORD_STARTING"} THEN "subscribed" ELSE "failed"

\* The listener: an allowed state leaves it connected.
OnStateChange(f) ==
  IF future_state # "subscribed" THEN future_state
  ELSE IF f.value = "ZB_COORD" THEN "done"
  ELSE IF f.value \in {"HOLD", "COORD_STARTING"} THEN "subscribed" ELSE "failed"

\* One of the awaited answers; when_all fails with the first failure.  Failed is an
\* answer that throws: the value ZdoStartupFromApp returns is logged, no more.
Answered(f) ==
  /\ Awaited[pc] = f.op /\ answer = "pending"
  /\ awaiting' = awaiting - 1
  /\ answer' = IF ~f.ok THEN "failed" ELSE IF awaiting = 1 THEN "ok" ELSE "pending"
  /\ current_config' = IF f.op = "read" /\ f.ok
                       THEN [current_config EXCEPT ![f.field] = f.value]
                       ELSE current_config
  /\ UNCHANGED future_state

\* While future_state is awaited, its resolution is the answer.
StateFrame(f) ==
  /\ f.op \in {"state", "stateind"}
  /\ future_state' = IF f.op = "stateind" THEN OnStateChange(f)
                     ELSE IF future_state = "asked" THEN WaitForState(f) ELSE future_state
  /\ answer' = IF pc = "state" THEN StateAnswer(future_state') ELSE answer
  /\ UNCHANGED <<awaiting, current_config>>

\* A frame nobody waits for is dropped.
Unhandled(f) ==
  /\ f.op \notin {"state", "stateind"}
  /\ Awaited[pc] # f.op \/ answer # "pending"
  /\ UNCHANGED <<answer, awaiting, current_config, future_state>>

OnFrame ==
  /\ pc # "exited" /\ fromDongle # <<>>
  /\ fromDongle' = Tail(fromDongle)
  /\ LET f == Head(fromDongle) IN Answered(f) \/ StateFrame(f) \/ Unhandled(f)
  /\ UNCHANGED <<pc, toDongle, dongle, bounds>>

\* The program is killed, or has exited, and is started again.  The dongle may
\* still receive the first part of what was sent to it.
Restart ==
  /\ crashes < MaxCrashes
  /\ crashes' = crashes + 1
  /\ pc' = "start" /\ answer' = "ok" /\ awaiting' = 0
  /\ current_config' = Factory /\ future_state' = "none"
  /\ \E k \in 0 .. Len(toDongle) : toDongle' = SubSeq(toDongle, 1, k)
  /\ fromDongle' \in {<<>>, fromDongle}
  /\ UNCHANGED <<dongle, fails, leaves, boots>>

-----------------------------------------------------------------------------
(* The dongle (external).                                                   *)

Put(f) == fromDongle' = Append(fromDongle, f)

\* A reset obeys STARTUP_OPTION and forgets all but the configuration; what it
\* had not yet read from the line is lost, or read afterwards.
Reset ==
  /\ nv' = IF nv["startup_option"] = "clear" THEN Factory ELSE nv
  /\ dev' = "HOLD" /\ registered' = FALSE /\ permit' \in BOOLEAN
  /\ Put([op |-> "resetind", ok |-> TRUE])

Grants(r) ==
  \/ /\ r.op \in {"ieee", "read", "state"}
     /\ Put([op |-> r.op, ok |-> TRUE,
             field |-> IF r.op = "read" THEN r.field ELSE "none",
             value |-> CASE r.op = "read" -> nv[r.field] [] r.op = "state" -> dev
                         [] OTHER -> "none"])
     /\ UNCHANGED dongle
  \/ /\ r.op = "write" /\ nv' = [nv EXCEPT ![r.field] = r.value]
     /\ Put([op |-> "write", ok |-> TRUE])
     /\ UNCHANGED <<dev, registered, permit>>
  \/ /\ r.op = "startup" /\ dev' = "COORD_STARTING"
     /\ fromDongle' = fromDongle \o <<[op |-> "startup", ok |-> TRUE],
                        [op |-> "stateind", ok |-> TRUE, value |-> "COORD_STARTING"]>>
     /\ UNCHANGED <<nv, registered, permit>>
  \/ /\ r.op = "permit" /\ permit' = FALSE
     /\ Put([op |-> "permit", ok |-> TRUE])
     /\ UNCHANGED <<nv, dev, registered>>
  \/ /\ r.op = "register" /\ registered' = TRUE
     /\ Put([op |-> "register", ok |-> ~registered])
     /\ UNCHANGED <<nv, dev, permit>>

\* ZDO_STARTUP_FROM_APP answered with StartupFromAppResponse::Leave, "leave and not
\* started": an answer like the others, and no network.
Declines(r) ==
  /\ r.op = "startup" /\ leaves < MaxLeaves
  /\ leaves' = leaves + 1
  /\ Put([op |-> "startup", ok |-> TRUE])
  /\ UNCHANGED <<dongle, fails>>

\* An error status, or a frame that can not be decoded.
Fails(r) ==
  /\ fails < MaxFails
  /\ fails' = fails + 1
  /\ Put([op |-> r.op, ok |-> FALSE])
  /\ UNCHANGED <<dongle, leaves>>

DongleServe ==
  /\ toDongle # <<>>
  /\ LET r == Head(toDongle)
     IN \/ /\ r.op = "reset" /\ Reset /\ toDongle' \in {<<>>, Tail(toDongle)}
           /\ UNCHANGED <<fails, leaves>>
        \/ /\ r.op # "reset" /\ toDongle' = Tail(toDongle)
           /\ \/ Grants(r) /\ UNCHANGED <<fails, leaves>>
              \/ Declines(r)
              \/ Fails(r)
  /\ UNCHANGED <<host, crashes, boots>>

\* The network is formed, or can not be.
DongleForms ==
  /\ dev = "COORD_STARTING"
  /\ \E s \in {"ZB_COORD", "NWK_ORPHAN"} :
       /\ s = "NWK_ORPHAN" => fails < MaxFails
       /\ fails' = IF s = "NWK_ORPHAN" THEN fails + 1 ELSE fails
       /\ dev' = s
       /\ Put([op |-> "stateind", ok |-> TRUE, value |-> s])
  /\ UNCHANGED <<host, toDongle, nv, registered, permit, leaves, crashes, boots>>

\* A watchdog or a power glitch.
DongleReboots ==
  /\ boots < MaxBoots
  /\ boots' = boots + 1
  /\ Reset
  /\ toDongle' = <<>>
  /\ UNCHANGED <<host, fails, leaves, crashes>>

Next ==
  \/ Resume \/ Exit \/ OnFrame \/ Restart
  \/ DongleServe \/ DongleForms \/ DongleReboots

\* The io_service resumes the coroutine and reads frames; the dongle answers.
Fairness ==
  WF_vars(Resume) /\ WF_vars(Exit) /\ WF_vars(OnFrame)
    /\ WF_vars(DongleServe) /\ WF_vars(DongleForms)

Spec     == Init /\ [][Next]_vars
FairSpec == Spec /\ Fairness

-----------------------------------------------------------------------------
(* Properties.                                                              *)

Running == dev \in {"COORD_STARTING", "ZB_COORD"}

\* The dongle never runs a network with an option other than the one desired
\* (PanIdHonoured is about the PAN ID), though they are rewritten one by one and
\* the program may be killed, a write refused or the dongle reset between any two.
\* (A program killed again and again before the dongle answered collects so many
\* stale answers that each start takes those of an earlier one for its own: four
\* such kills are enough to break this and ReadyMeansUp, two are not.)
StartsConfigured ==
  Running => \A f \in Fields \ {"pan_id"} : nv[f] = desired_config[f]

\* When Initialize returns, the network is up, closed for joining, and endpoint 1
\* registered, if the dongle did not reset on its own meanwhile.
ReadyMeansUp == pc = "ready" /\ boots = 0 => dev = "ZB_COORD" /\ registered /\ ~permit

\* The dongle is never asked to register an endpoint it has registered (it would
\* refuse, and the program exit): SysReset comes first in every start.
RegisterIsFresh ==
  toDongle # <<>> /\ Head(toDongle).op = "register" => ~registered

\* A start ends, ready or with a failure: no answer or state change is missed,
\* the one WaitForState waits for least of all.  Three things can make it wait for
\* ever.  A crash or a reset of the dongle leaves SREQs nobody answers, and RawSReq
\* has no timeout; a dongle that declines to start its network (Declines) says so
\* only in the value Initialize logs, stays in HOLD, which WaitForState allows, and
\* no state change follows.
StartEnds ==
  (pc = "start") ~>
    (pc \in {"ready", "exited"} \/ crashes > 0 \/ boots > 0 \/ leaves > 0)

\* "Desired configuration matches current configuration, ready to start!": the
\* PAN ID asked for with --panid is the one in use.
PanIdHonoured == Running /\ PanId # "any" => nv["pan_id"] = PanId
=============================================================================
