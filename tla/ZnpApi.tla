------------------------------- MODULE ZnpApi -------------------------------
(***************************************************************************)
(* Class ZnpApi (znp/znp_api.cpp): request/response matching over the serial *)
(* link to the Zigbee dongle.                                              *)
(*                                                                         *)
(* A call pushes a frame handler at the end of the list handlers_ and sends *)
(* an SREQ; OnFrame offers each received frame to the handlers in list      *)
(* order and the first that matches consumes it.  Frames carry no request   *)
(* identifier: an answer belongs to the first handler waiting for its       *)
(* command.  A two-phase call then waits, with or without a timeout, for an *)
(* AREQ.  All of this runs on one thread; an action is one io_service        *)
(* handler, with the continuations the immediate executor runs inside it.   *)
(*                                                                         *)
(* std::list with push_back and erase is kept as positions: the handler of  *)
(* call c is listed iff phase[c] \in Listed, at position at[c], and tail is *)
(* the position of the next push_back.  The handlers AddSimpleEventHandler   *)
(* puts in front are not modelled: they match other commands.               *)
(***************************************************************************)
EXTENDS Naturals, Sequences, FiniteSets, ZnpOps

CONSTANTS
  Calls,        \* the calls made; a repeated request is another call
  Op,           \* Op[c]: the record of ZnpOps.tla call c makes
  Oversized,    \* the calls whose payload exceeds 255 bytes
  MaxCalls,     \* bound on how many of the calls are made
  MaxDrops,     \* bound on the frames lost to a bad checksum
  InOrder       \* the dongle sends equal confirms in the order of the requests

NoCall == "nocall"

ASSUME CallsAssumption == NoCall \notin Calls
\* What is so of every record of ZnpOps.tla: an AREQ is waited for with a timeout
\* by all its requests or by none, and only untimed requests compare the answer.
ASSUME OpAssumption ==
  \A c \in Calls : /\ Op[c].request \in Op[c].responses
                   /\ Op[c].timed \in BOOLEAN
                   /\ Op[c].timed => Op[c].echo = None
                   /\ \A d \in Calls : Op[c].confirm = Op[d].confirm =>
                                      Op[c].timed = Op[d].timed
ASSUME BoundsAssumption ==
  /\ Oversized \subseteq Calls /\ InOrder \in BOOLEAN
  /\ MaxCalls \in Nat /\ MaxDrops \in Nat

VARIABLES
  phase,        \* what handler of the call is listed, see Phases
  at,           \* position of that handler in handlers_
  tail,         \* position of the next handler pushed
  result,       \* how the future of the call was resolved
  timer,        \* the deadline_timer of AddHandlerWithTimeout
  toDongle,     \* SREQs on the wire, by call
  fromDongle,   \* SRSP and AREQ frames on the wire
  verdict,      \* what the dongle made of the request (external)
  issued,       \* the order of the calls, for the dongle and the properties
  replied,      \* history: the call whose SRSP this call consumed
  confirmed,    \* history: the call whose AREQ this call consumed
  drops         \* frames lost so far

hostVars   == <<phase, at, tail, result, timer, replied, confirmed>>
dongleVars == <<verdict, issued>>
vars == <<phase, at, tail, result, timer, toDongle, fromDongle, verdict,
          issued, replied, confirmed, drops>>

\* "srsp": the lambda of RawSReq; "orphan": the same, of a call whose SendFrame
\* threw; "confirm": the lambda of WaitFor; "expired": the same, after its timer.
Listed   == {"srsp", "orphan", "confirm", "expired"}
Phases   == Listed \cup {"idle", "done"}
Failures == {"status", "rpc", "mismatch", "timeout", "oversize"}
Results  == {"pending", "ok"} \cup Failures
Replies  == UNION {Op[c].responses : c \in Calls}
Confirms == {Op[c].confirm : c \in Calls}
Frames   == [kind : {"srsp", "rpc", "areq"}, call : Calls,
             cmd : Replies \cup Confirms, ok : BOOLEAN]

TypeOK ==
  /\ phase \in [Calls -> Phases]
  /\ at \in [Calls -> Nat]
  /\ tail \in Nat
  /\ result \in [Calls -> Results]
  /\ timer \in [Calls -> {"off", "armed", "fired"}]
  /\ toDongle \in Seq(Calls)
  /\ fromDongle \in Seq(Frames)
  /\ verdict \in [Calls -> {"none", "working", "ok", "failed"}]
  /\ issued \in [Calls -> Nat]
  /\ replied \in [Calls -> Calls \cup {NoCall}]
  /\ confirmed \in [Calls -> Calls \cup {NoCall}]
  /\ drops \in Nat

Init ==
  /\ phase = [c \in Calls |-> "idle"]
  /\ at = [c \in Calls |-> 0]
  /\ tail = 0
  /\ result = [c \in Calls |-> "pending"]
  /\ timer = [c \in Calls |-> "off"]
  /\ toDongle = <<>>
  /\ fromDongle = <<>>
  /\ verdict = [c \in Calls |-> "none"]
  /\ issued = [c \in Calls |-> 0]
  /\ replied = [c \in Calls |-> NoCall]
  /\ confirmed = [c \in Calls |-> NoCall]
  /\ drops = 0

-----------------------------------------------------------------------------
(* The host: RawSReq, OnFrame, AddHandlerWithTimeout.                       *)

\* RawSReq pushes the handler before SendFrame can throw.
RawSReq(c) ==
  /\ phase[c] = "idle"
  /\ Cardinality({d \in Calls : phase[d] # "idle"}) < MaxCalls
  /\ at' = [at EXCEPT ![c] = tail]
  /\ issued' = [issued EXCEPT ![c] = tail]
  /\ tail' = tail + 1
  /\ \/ /\ c \notin Oversized
        /\ phase' = [phase EXCEPT ![c] = "srsp"]
        /\ toDongle' = Append(toDongle, c)
        /\ UNCHANGED result
     \/ /\ c \in Oversized
        /\ phase' = [phase EXCEPT ![c] = "orphan"]
        /\ result' = [result EXCEPT ![c] = "oversize"]
        /\ UNCHANGED toDongle
  /\ UNCHANGED <<timer, fromDongle, verdict, replied, confirmed, drops>>

\* Mutants of Takers: the wrapper does not look at active; RPC_Error is ignored.
TakersInactiveToo(f) ==
  {c \in Calls :
     IF f.kind = "areq"
     THEN /\ phase[c] \in {"confirm", "expired"}
          /\ Op[c].confirm = f.cmd
          /\ Op[c].prefix \in {None, Op[f.call].prefix}
     ELSE phase[c] \in {"srsp", "orphan"} /\ f.cmd \in Op[c].responses}
TakersNoRpcError(f) ==
  {c \in Calls :
     \/ f.kind = "srsp" /\ phase[c] \in {"srsp", "orphan"} /\ f.cmd \in Op[c].responses
     \/ /\ f.kind = "areq" /\ phase[c] = "confirm" /\ Op[c].confirm = f.cmd
        /\ Op[c].prefix \in {None, Op[f.call].prefix}}

\* The listed handlers that would return stop_processing for frame f.
Takers(f) ==
  {c \in Calls :
     \/ /\ f.kind \in {"srsp", "rpc"}
        /\ phase[c] \in {"srsp", "orphan"}
        /\ f.cmd \in Op[c].responses
     \/ /\ f.kind = "areq"
        /\ phase[c] = "confirm"
        /\ Op[c].confirm = f.cmd
        /\ Op[c].prefix \in {None, Op[f.call].prefix}}

\* Mutant: handlers are pushed at the front of the list.
IsLast(c, S) == c \in S /\ \A d \in S : at[d] <= at[c]

\* The handler OnFrame comes to first.
IsFirst(c, S) == c \in S /\ \A d \in S : at[c] <= at[d]

\* The handlers OnFrame erases on its way because their timer fired: those
\* listed before the taker, or all when there is none.
Swept(S) ==
  {d \in Calls : phase[d] = "expired" /\ \A c \in S : at[d] < at[c]}

\* Mutants of Outcome: the status is not checked; the reply is not compared with
\* the request; the future is resolved with the frame as it is.
OutcomeNoStatus(c, f) ==
  IF f.kind = "rpc" THEN "rpc"
  ELSE IF Op[c].echo \in {None, Op[f.call].echo} THEN "ok" ELSE "mismatch"
OutcomeNoEcho(c, f) ==
  IF f.kind = "rpc" THEN "rpc" ELSE IF ~f.ok THEN "status" ELSE "ok"
OutcomeRaw(c, f) ==
  IF f.kind = "rpc" THEN "rpc" ELSE IF ~f.ok THEN "status" ELSE f.cmd

\* How the future is resolved by the last answer of call c.
Outcome(c, f) ==
  IF f.kind = "rpc" THEN "rpc"
  ELSE IF ~f.ok THEN "status"
  ELSE IF Op[c].echo \in {None, Op[f.call].echo} THEN "ok" ELSE "mismatch"

\* Mutant: without a timeout no handler is added.
StartsWaitIfTimed(c, f) ==
  f.kind = "srsp" /\ f.ok /\ Op[c].confirm # None /\ Op[c].timed

\* The Success SRSP of a two-phase call: its handler goes and, within the same
\* OnFrame, WaitFor pushes the next one and arms its timer.
StartsWait(c, f) == f.kind = "srsp" /\ f.ok /\ Op[c].confirm # None

\* Mutant: async_wait is never called.
WaitForNoTimer(c) ==
  /\ phase' = [d \in Calls |-> IF d = c THEN "confirm"
                               ELSE IF d \in Swept({c}) THEN "done" ELSE phase[d]]
  /\ at' = [at EXCEPT ![c] = tail]
  /\ tail' = tail + 1
  /\ UNCHANGED <<timer, result>>

WaitFor(c) ==
  /\ phase' = [d \in Calls |-> IF d = c THEN "confirm"
                               ELSE IF d \in Swept({c}) THEN "done" ELSE phase[d]]
  /\ at' = [at EXCEPT ![c] = tail]
  /\ tail' = tail + 1
  /\ timer' = [timer EXCEPT ![c] = IF Op[c].timed THEN "armed" ELSE "off"]
  /\ UNCHANGED result

Resolve(c, f) ==
  /\ phase' = [d \in Calls |-> IF d \in Swept({c}) \cup {c} THEN "done" ELSE phase[d]]
  /\ result' = [result EXCEPT ![c] = IF phase[c] = "orphan" THEN @ ELSE Outcome(c, f)]
  /\ UNCHANGED <<at, tail, timer>>

\* The first matching handler consumes the frame, those after it never see it.
Consume(c, f) ==
  /\ IsFirst(c, Takers(f))
  /\ IF phase[c] = "srsp" /\ StartsWait(c, f) THEN WaitFor(c) ELSE Resolve(c, f)
  /\ replied' = IF f.kind = "areq" THEN replied ELSE [replied EXCEPT ![c] = f.call]
  /\ confirmed' = IF f.kind = "areq" THEN [confirmed EXCEPT ![c] = f.call] ELSE confirmed

\* "Unhandled frame": every handler was offered it.
Unhandled(f) ==
  /\ Takers(f) = {}
  /\ phase' = [d \in Calls |-> IF d \in Swept({}) THEN "done" ELSE phase[d]]
  /\ UNCHANGED <<at, tail, result, timer, replied, confirmed>>

OnFrame ==
  /\ fromDongle # <<>>
  /\ fromDongle' = Tail(fromDongle)
  /\ \/ Unhandled(Head(fromDongle))
     \/ \E c \in Calls : Consume(c, Head(fromDongle))
  /\ UNCHANGED <<toDongle, verdict, issued, drops>>

\* Mutants of OnTimer: active is not tested; active is not cleared.
OnTimerUnchecked(c) ==
  /\ timer[c] = "armed"
  /\ timer' = [timer EXCEPT ![c] = "fired"]
  /\ phase' = [phase EXCEPT ![c] = IF @ = "confirm" THEN "expired" ELSE @]
  /\ result' = [result EXCEPT ![c] = "timeout"]
  /\ UNCHANGED <<at, tail, toDongle, fromDongle, verdict, issued, replied,
                 confirmed, drops>>
OnTimerStaysActive(c) ==
  /\ timer[c] = "armed"
  /\ timer' = [timer EXCEPT ![c] = "fired"]
  /\ result' = [result EXCEPT ![c] = IF phase[c] = "confirm" THEN "timeout" ELSE @]
  /\ UNCHANGED <<phase, at, tail, toDongle, fromDongle, verdict, issued, replied,
                 confirmed, drops>>

\* The completion of async_wait.  The timer is never cancelled: it fires also
\* for a call that was answered, and then finds active false.
OnTimer(c) ==
  /\ timer[c] = "armed"
  /\ timer' = [timer EXCEPT ![c] = "fired"]
  /\ IF phase[c] = "confirm"
     THEN /\ phase' = [phase EXCEPT ![c] = "expired"]
          /\ result' = [result EXCEPT ![c] = "timeout"]
     ELSE UNCHANGED <<phase, result>>
  /\ UNCHANGED <<at, tail, toDongle, fromDongle, verdict, issued, replied,
                 confirmed, drops>>

-----------------------------------------------------------------------------
(* The dongle (external) and the serial link.                               *)

Put(kind, c, cmd, ok) ==
  fromDongle' = Append(fromDongle, [kind |-> kind, call |-> c, cmd |-> cmd, ok |-> ok])

\* It serves SREQs one at a time: refuses, fails, or accepts the request.
DongleServe ==
  /\ toDongle # <<>>
  /\ toDongle' = Tail(toDongle)
  /\ LET c == Head(toDongle)
     IN \/ /\ Put("rpc", c, Op[c].request, FALSE)
           /\ verdict' = [verdict EXCEPT ![c] = "failed"]
        \/ \E cmd \in Op[c].responses, ok \in BOOLEAN :
             /\ Put("srsp", c, cmd, ok)
             /\ verdict' = [verdict EXCEPT ![c] =
                  IF ~ok THEN "failed"
                  ELSE IF Op[c].confirm = None THEN "ok" ELSE "working"]
  /\ UNCHANGED <<hostVars, issued, drops>>

\* Later it reports how an accepted two-phase request ended.
DongleConfirm(c) ==
  /\ verdict[c] = "working"
  /\ InOrder => \A d \in Calls :
       verdict[d] = "working" /\ Op[d].confirm = Op[c].confirm => issued[c] <= issued[d]
  /\ \E ok \in BOOLEAN :
       /\ Put("areq", c, Op[c].confirm, ok)
       /\ verdict' = [verdict EXCEPT ![c] = IF ok THEN "ok" ELSE "failed"]
  /\ UNCHANGED <<hostVars, toDongle, issued, drops>>

\* FrameHandler, or the dongle, drops a frame whose checksum is wrong.
LoseFrame ==
  /\ drops < MaxDrops
  /\ drops' = drops + 1
  /\ \/ /\ toDongle # <<>>
        /\ toDongle' = Tail(toDongle)
        /\ UNCHANGED fromDongle
     \/ /\ fromDongle # <<>>
        /\ fromDongle' = Tail(fromDongle)
        /\ UNCHANGED toDongle
  /\ UNCHANGED <<hostVars, dongleVars>>

Next ==
  \/ \E c \in Calls : RawSReq(c)
  \/ OnFrame
  \/ \E c \in Calls : OnTimer(c)
  \/ DongleServe
  \/ \E c \in Calls : DongleConfirm(c)
  \/ LoseFrame

\* The io_service runs ready handlers and timers expire; the dongle answers.
Fairness ==
  /\ WF_vars(OnFrame)
  /\ WF_vars(DongleServe)
  /\ \A c \in Calls : WF_vars(OnTimer(c)) /\ WF_vars(DongleConfirm(c))

Spec     == Init /\ [][Next]_vars
FairSpec == Spec /\ Fairness

-----------------------------------------------------------------------------
(* Properties.                                                              *)

\* So far no frame was lost and every SREQ was sent.
Lossless == drops = 0 /\ \A c \in Calls : result[c] # "oversize"

\* Matching by command and list order gives each call the SRSP the dongle sent
\* for that very call (RawSReq, OnFrame), on a link that loses nothing.
OwnReply == Lossless => \A c \in Calls : replied[c] \in {NoCall, c}

\* ... and each untimed two-phase call the AREQ sent for it (WaitAfter, WaitFor),
\* when the dongle keeps equal confirms in order.  A call with a timeout has no
\* such promise: the late answer to a call that timed out may reach its retry.
OwnConfirm ==
  Lossless => \A c \in Calls : ~Op[c].timed => confirmed[c] \in {NoCall, c}

\* The AREQ can not overtake the handler for it: WaitFor runs inside the OnFrame
\* of the SRSP, so when an AREQ is received the handler of its call is listed.
ConfirmFindsWaiter ==
  Lossless /\ fromDongle # <<>> /\ Head(fromDongle).kind = "areq" =>
    LET c == Head(fromDongle).call IN ~Op[c].timed => phase[c] = "confirm"

\* A future is unresolved exactly as long as a live handler is listed for it: no
\* coroutine waits for a call nobody listens for, and no listed handler of
\* RawSReq or WaitFor holds the promise of a call already resolved.
StillListening ==
  \A c \in Calls : phase[c] # "idle" =>
    (result[c] = "pending" <=> phase[c] \in {"srsp", "confirm"})

\* A promise is set once: neither a timer that fires after the answer nor an
\* answer that arrives after the timer (AddHandlerWithTimeout) sets it again.
ResultIsFinal ==
  [][\A c \in Calls : result[c] # "pending" => result'[c] = result[c]]_vars

\* The late answer of a call that timed out is not fed to its handler.
TimeoutIsSilent ==
  \A c \in Calls : result[c] = "timeout" => confirmed[c] = NoCall /\ timer[c] = "fired"

\* Where a continuation compares the reply with the request (the option of
\* READ_CONFIGURATION, the info of GET_DEVICE_INFO, the endpoint of
\* DATA_CONFIRM), a success never carries an answer about something else, even
\* when lost frames have shifted the replies from call to call.
CheckedReply ==
  \A c \in Calls : result[c] = "ok" /\ Op[c].echo # None =>
    LET d == IF Op[c].confirm = None THEN replied[c] ELSE confirmed[c]
    IN Op[d].echo = Op[c].echo

\* With a dongle that answers, a future is unresolved for ever only if a frame
\* was lost or an SREQ could not be sent.
EveryCallResolves ==
  \A c \in Calls : (phase[c] # "idle") ~> (result[c] # "pending" \/ ~Lossless)

\* A call with a timeout is resolved even if its AREQ is lost, once it waits.
TimedWaitEnds ==
  \A c \in {d \in Calls : Op[d].timed} :
    (phase[c] = "confirm") ~> (result[c] # "pending")

-----------------------------------------------------------------------------
\* The state of Rpc.tla that a state of ZnpApi stands for: the calls made, what
\* the dongle made of them and what their futures tell.
Timed    == {c \in Calls : Op[c].timed}
Asked    == {c \in Calls : phase[c] # "idle"}
Answered == [c \in Calls |-> IF verdict[c] \in {"ok", "failed"} THEN verdict[c] ELSE "none"]
Told     == [c \in Calls |-> IF result[c] \in Failures \ {"timeout"}
                             THEN "failed" ELSE result[c]]

\* What ZnpApi promises (Rpc.tla): each call gets the verdict of the dongle on
\* that call, once; after a loss still some verdict at most once.
Promise ==
  INSTANCE Rpc WITH Impatient <- Timed, broken <- ~Lossless,
                    asked <- Asked, answer <- Answered, outcome <- Told
ImplementsRpc == Promise!Spec
=============================================================================
