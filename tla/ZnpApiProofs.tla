---------------------------- MODULE ZnpApiProofs ----------------------------
(***************************************************************************)
(* Theorems about ZnpApi.tla, for any set of calls and any requests.        *)
(***************************************************************************)
EXTENDS ZnpApi, SequenceTheorems, TLAPS

\* A frame for a call, with one of the commands the dongle uses, is a frame.
LEMMA FrameType ==
  ASSUME NEW c \in Calls, NEW ok \in BOOLEAN,
         NEW kind \in {"srsp", "rpc", "areq"},
         NEW cmd \in Op[c].responses \cup {Op[c].confirm}
  PROVE  [kind |-> kind, call |-> c, cmd |-> cmd, ok |-> ok] \in Frames
<1>1. cmd \in Op[c].responses => cmd \in Replies
  BY DEF Replies
<1>2. cmd = Op[c].confirm => cmd \in Confirms
  BY DEF Confirms
<1> QED BY <1>1, <1>2 DEF Frames

\* The state types are kept by every action, whatever is lost or reordered.
LEMMA TypeStep == TypeOK /\ [Next]_vars => TypeOK'
<1> SUFFICES ASSUME TypeOK, [Next]_vars
             PROVE  TypeOK'
  OBVIOUS
<1> USE CallsAssumption
<1>1. ASSUME NEW c \in Calls, RawSReq(c)
      PROVE  TypeOK'
  <2>1. toDongle' \in Seq(Calls)
    <3>1. Append(toDongle, c) \in Seq(Calls)
      BY AppendProperties DEF TypeOK
    <3> QED BY <1>1, <3>1 DEF RawSReq, TypeOK
  <2>2. phase' \in [Calls -> Phases] /\ result' \in [Calls -> Results]
    BY <1>1 DEF RawSReq, TypeOK, Phases, Listed, Results, Failures
  <2> QED BY <1>1, <2>1, <2>2 DEF TypeOK, RawSReq
<1>2. CASE OnFrame
  <2> DEFINE f == Head(fromDongle)
  <2>1. f \in Frames /\ fromDongle' \in Seq(Frames)
    BY <1>2, HeadTailProperties DEF OnFrame, TypeOK
  <2>2. f.call \in Calls
    BY <2>1 DEF Frames
  <2>3. CASE Unhandled(f)
    BY <1>2, <2>1, <2>3 DEF TypeOK, OnFrame, Unhandled, Phases, Listed
  <2>4. ASSUME NEW c \in Calls, Consume(c, f)
        PROVE  TypeOK'
    <3>1. Outcome(c, f) \in Results
      BY <2>1 DEF Outcome, Results, Failures, Frames
    <3>2. /\ replied' \in [Calls -> Calls \cup {NoCall}]
          /\ confirmed' \in [Calls -> Calls \cup {NoCall}]
      BY <2>2, <2>4 DEF Consume, TypeOK
    <3>3. CASE WaitFor(c)
      BY <1>2, <2>1, <3>2, <3>3 DEF TypeOK, OnFrame, WaitFor, Phases, Listed
    <3>4. CASE Resolve(c, f)
      BY <1>2, <2>1, <3>1, <3>2, <3>4 DEF TypeOK, OnFrame, Resolve, Phases, Listed
    <3> QED BY <2>4, <3>3, <3>4 DEF Consume
  <2> QED BY <1>2, <2>3, <2>4 DEF OnFrame
<1>3. ASSUME NEW c \in Calls, OnTimer(c)
      PROVE  TypeOK'
  BY <1>3 DEF TypeOK, OnTimer, Phases, Listed, Results, Failures
<1>4. CASE DongleServe
  <2> DEFINE c == Head(toDongle)
  <2>1. c \in Calls /\ toDongle' \in Seq(Calls)
    BY <1>4, HeadTailProperties DEF DongleServe, TypeOK
  <2>2. fromDongle' \in Seq(Frames)
    <3>1. ASSUME NEW kind \in {"srsp", "rpc"}, NEW cmd \in Op[c].responses,
                 NEW ok \in BOOLEAN, Put(kind, c, cmd, ok)
          PROVE  fromDongle' \in Seq(Frames)
      <4>1. [kind |-> kind, call |-> c, cmd |-> cmd, ok |-> ok] \in Frames
        BY <2>1, FrameType
      <4> QED BY <4>1, <3>1 DEF Put, TypeOK
    <3> QED BY <1>4, <2>1, <3>1, OpAssumption DEF DongleServe
  <2>3. verdict' \in [Calls -> {"none", "working", "ok", "failed"}]
    BY <1>4, <2>1 DEF DongleServe, TypeOK
  <2> QED BY <1>4, <2>1, <2>2, <2>3 DEF TypeOK, DongleServe, hostVars
<1>5. ASSUME NEW c \in Calls, DongleConfirm(c)
      PROVE  TypeOK'
  <2>1. PICK ok \in BOOLEAN :
          /\ Put("areq", c, Op[c].confirm, ok)
          /\ verdict' = [verdict EXCEPT ![c] = IF ok THEN "ok" ELSE "failed"]
    BY <1>5 DEF DongleConfirm
  <2>2. [kind |-> "areq", call |-> c, cmd |-> Op[c].confirm, ok |-> ok] \in Frames
    BY FrameType
  <2>3. fromDongle' \in Seq(Frames)
    BY <2>1, <2>2 DEF Put, TypeOK
  <2> QED BY <1>5, <2>1, <2>3 DEF TypeOK, DongleConfirm, hostVars
<1>6. CASE LoseFrame
  <2>1. toDongle # <<>> => Tail(toDongle) \in Seq(Calls)
    BY HeadTailProperties DEF TypeOK
  <2>2. fromDongle # <<>> => Tail(fromDongle) \in Seq(Frames)
    BY HeadTailProperties DEF TypeOK
  <2>3. toDongle' \in Seq(Calls) /\ fromDongle' \in Seq(Frames)
    BY <1>6, <2>1, <2>2 DEF LoseFrame, TypeOK
  <2> QED BY <1>6, <2>3 DEF TypeOK, LoseFrame, hostVars, dongleVars
<1>7. CASE UNCHANGED vars
  BY <1>7 DEF TypeOK, vars
<1> QED BY <1>1, <1>2, <1>3, <1>4, <1>5, <1>6, <1>7 DEF Next

\* Type correctness of the request/response machinery of ZnpApi.
THEOREM TypeCorrect == Spec => []TypeOK
<1>1. Init => TypeOK
  BY EmptySeq DEF Init, TypeOK, Phases, Listed, Results
<1> QED BY <1>1, TypeStep, PTL DEF Spec

-----------------------------------------------------------------------------
(* A future and its handler: StillListening, ResultIsFinal, TimeoutIsSilent. *)

\* StillListening with the calls not made yet, which is what makes it inductive.
Listening ==
  \A c \in Calls : result[c] = "pending" <=> phase[c] \in {"idle", "srsp", "confirm"}

\* Only a call still waiting in WaitFor can consume an AREQ, and then it is over.
Silence ==
  \A c \in Calls :
    /\ confirmed[c] # NoCall => phase[c] = "done" /\ result[c] # "timeout"
    /\ result[c] = "timeout" => timer[c] = "fired" /\ phase[c] \in {"expired", "done"}

ListenInv == TypeOK /\ Listening /\ Silence

\* Every step keeps each registered listener in its place.
LEMMA ListeningStep == ListenInv /\ [Next]_vars => Listening'
<1> SUFFICES ASSUME ListenInv, [Next]_vars
             PROVE  Listening'
  OBVIOUS
<1> USE DEF ListenInv, Listening
<1>1. ASSUME NEW c \in Calls, RawSReq(c)
      PROVE  Listening'
  BY <1>1 DEF RawSReq, TypeOK
<1>2. CASE OnFrame
  <2> DEFINE f == Head(fromDongle)
  <2>1. CASE Unhandled(f)
    BY <2>1 DEF Unhandled, Swept, TypeOK
  <2>2. ASSUME NEW c \in Calls, Consume(c, f)
        PROVE  Listening'
    <3>1. phase[c] \in {"srsp", "orphan", "confirm"}
      BY <2>2 DEF Consume, IsFirst, Takers
    <3>2. CASE phase[c] = "srsp" /\ WaitFor(c)
      BY <3>1, <3>2 DEF WaitFor, Swept, TypeOK
    <3>3. CASE Resolve(c, f)
      <4>1. Outcome(c, f) # "pending"
        BY DEF Outcome
      <4> QED BY <3>1, <3>3, <4>1 DEF Resolve, Swept, TypeOK
    <3> QED BY <2>2, <3>2, <3>3 DEF Consume
  <2> QED BY <1>2, <2>1, <2>2 DEF OnFrame
<1>3. ASSUME NEW c \in Calls, OnTimer(c)
      PROVE  Listening'
  BY <1>3 DEF OnTimer, TypeOK
<1>4. CASE DongleServe
  BY <1>4 DEF DongleServe, hostVars
<1>5. ASSUME NEW c \in Calls, DongleConfirm(c)
      PROVE  Listening'
  BY <1>5 DEF DongleConfirm, hostVars
<1>6. CASE LoseFrame
  BY <1>6 DEF LoseFrame, hostVars
<1>7. CASE UNCHANGED vars
  BY <1>7 DEF vars
<1> QED BY <1>1, <1>2, <1>3, <1>4, <1>5, <1>6, <1>7 DEF Next

\* Every step keeps it that a confirmation is consumed only by a call that is over
\* and did not time out.
LEMMA SilenceStep == ListenInv /\ [Next]_vars => Silence'
<1> SUFFICES ASSUME ListenInv, [Next]_vars
             PROVE  Silence'
  OBVIOUS
<1> USE DEF ListenInv, Silence
<1>1. ASSUME NEW c \in Calls, RawSReq(c)
      PROVE  Silence'
  BY <1>1 DEF RawSReq, TypeOK
<1>2. CASE OnFrame
  <2> DEFINE f == Head(fromDongle)
  <2>1. CASE Unhandled(f)
    BY <2>1 DEF Unhandled, Swept, TypeOK
  <2>2. ASSUME NEW c \in Calls, Consume(c, f)
        PROVE  Silence'
    <3>1. phase[c] \in {"srsp", "orphan", "confirm"}
      BY <2>2 DEF Consume, IsFirst, Takers
    <3>2. CASE phase[c] = "srsp" /\ StartsWait(c, f) /\ WaitFor(c)
      <4>1. confirmed' = confirmed
        BY <2>2, <3>2 DEF Consume, StartsWait
      <4> QED BY <3>1, <3>2, <4>1 DEF WaitFor, Swept, TypeOK, Listening
    <3>3. CASE Resolve(c, f)
      <4>1. Outcome(c, f) # "timeout"
        BY DEF Outcome
      <4>2. confirmed' = [confirmed EXCEPT ![c] = f.call] \/ confirmed' = confirmed
        BY <2>2 DEF Consume
      <4>3. result[c] # "timeout"
        BY <3>1
      <4> QED BY <3>1, <3>3, <4>1, <4>2, <4>3 DEF Resolve, Swept, TypeOK
    <3> QED BY <2>2, <3>2, <3>3 DEF Consume
  <2> QED BY <1>2, <2>1, <2>2 DEF OnFrame
<1>3. ASSUME NEW c \in Calls, OnTimer(c)
      PROVE  Silence'
  BY <1>3 DEF OnTimer, TypeOK
<1>4. CASE DongleServe
  BY <1>4 DEF DongleServe, hostVars
<1>5. ASSUME NEW c \in Calls, DongleConfirm(c)
      PROVE  Silence'
  BY <1>5 DEF DongleConfirm, hostVars
<1>6. CASE LoseFrame
  BY <1>6 DEF LoseFrame, hostVars
<1>7. CASE UNCHANGED vars
  BY <1>7 DEF vars
<1> QED BY <1>1, <1>2, <1>3, <1>4, <1>5, <1>6, <1>7 DEF Next

\* The invariant about the listeners holds in every state.
LEMMA ListenInvariant == Spec => []ListenInv
<1>1. Init => ListenInv
  BY EmptySeq DEF Init, ListenInv, Listening, Silence, TypeOK, Phases, Listed, Results
<1>2. ListenInv /\ [Next]_vars => ListenInv'
  BY TypeStep, ListeningStep, SilenceStep DEF ListenInv
<1> QED BY <1>1, <1>2, PTL DEF Spec

\* Whatever the link loses, every unresolved future has a live handler (RawSReq,
\* WaitFor) and no live handler belongs to a resolved one.
THEOREM StillListeningHolds == Spec => []StillListening
<1>1. ListenInv => StillListening
  BY DEF ListenInv, Listening, StillListening
<1> QED BY <1>1, ListenInvariant, PTL

\* A late answer never reaches the handler of a call that timed out.
THEOREM TimeoutIsSilentHolds == Spec => []TimeoutIsSilent
<1>1. ListenInv => TimeoutIsSilent
  BY DEF ListenInv, Silence, TimeoutIsSilent
<1> QED BY <1>1, ListenInvariant, PTL

\* No step changes a result that is set.
LEMMA FinalStep ==
  ListenInv /\ Next => \A c \in Calls : result[c] # "pending" => result'[c] = result[c]
<1> DEFINE Final == \A c \in Calls : result[c] # "pending" => result'[c] = result[c]
<1> SUFFICES ASSUME ListenInv, Next
             PROVE  Final
  OBVIOUS
<1> USE DEF ListenInv, Listening, TypeOK
<1>1. ASSUME NEW c \in Calls, RawSReq(c)
      PROVE  Final
  BY <1>1 DEF RawSReq
<1>2. CASE OnFrame
  <2> DEFINE f == Head(fromDongle)
  <2>1. CASE Unhandled(f)
    BY <2>1 DEF Unhandled
  <2>2. ASSUME NEW c \in Calls, Consume(c, f)
        PROVE  Final
    <3>1. phase[c] \in {"srsp", "orphan", "confirm"}
      BY <2>2 DEF Consume, IsFirst, Takers
    <3>2. CASE WaitFor(c)
      BY <3>2 DEF WaitFor
    <3>3. CASE Resolve(c, f)
      BY <3>1, <3>3 DEF Resolve
    <3> QED BY <2>2, <3>2, <3>3 DEF Consume
  <2> QED BY <1>2, <2>1, <2>2 DEF OnFrame
<1>3. ASSUME NEW c \in Calls, OnTimer(c)
      PROVE  Final
  BY <1>3 DEF OnTimer
<1>4. CASE DongleServe \/ LoseFrame \/ \E c \in Calls : DongleConfirm(c)
  BY <1>4 DEF DongleServe, LoseFrame, DongleConfirm, hostVars
<1> QED BY <1>1, <1>2, <1>3, <1>4 DEF Next

\* The promise of a call is set at most once.
THEOREM ResultIsFinalHolds == Spec => ResultIsFinal
<1> DEFINE Final == \A c \in Calls : result[c] # "pending" => result'[c] = result[c]
<1>1. ListenInv /\ [Next]_vars => [Final]_vars
  BY FinalStep
<1> QED BY <1>1, ListenInvariant, PTL DEF Spec, ResultIsFinal

-----------------------------------------------------------------------------
(* CheckedReply: what the comparison of a reply with its request is worth     *)
(* when lost frames have shifted the replies.                               *)

\* A success comes from the handler it took off the list; a handler that gave up
\* before keeps its failure.
SuccessIsDone ==
  \A c \in Calls : /\ result[c] = "ok" => phase[c] = "done"
                   /\ phase[c] = "confirm" => Op[c].confirm # None

CheckedInv == ListenInv /\ SuccessIsDone /\ CheckedReply

\* The arrival of a frame keeps what is known of the calls that succeeded.
LEMMA CheckedStepFrame == CheckedInv /\ OnFrame => (SuccessIsDone /\ CheckedReply)'
<1> SUFFICES ASSUME CheckedInv, OnFrame
             PROVE  (SuccessIsDone /\ CheckedReply)'
  OBVIOUS
<1> USE DEF CheckedInv, ListenInv
<1> DEFINE f == Head(fromDongle)
<1>1. CASE Unhandled(f)
  BY <1>1 DEF Unhandled, Swept, SuccessIsDone, CheckedReply, TypeOK
<1>2. ASSUME NEW c \in Calls, Consume(c, f)
      PROVE  (SuccessIsDone /\ CheckedReply)'
  <2>1. /\ phase[c] \in {"srsp", "orphan", "confirm"}
        /\ phase[c] = "confirm" <=> f.kind = "areq"
    BY <1>2 DEF Consume, IsFirst, Takers
  <2>2. result[c] # "ok"
    BY <2>1 DEF SuccessIsDone
  <2>3. \A d \in Calls : d # c => replied'[d] = replied[d] /\ confirmed'[d] = confirmed[d]
    BY <1>2 DEF Consume, TypeOK
  <2>4. CASE StartsWait(c, f) /\ WaitFor(c)
    <3>1. SuccessIsDone'
      BY <2>2, <2>4 DEF StartsWait, WaitFor, Swept, SuccessIsDone, TypeOK
    <3>2. result' = result
      BY <2>4 DEF WaitFor, Swept
    <3>3. CheckedReply'
      BY <2>2, <2>3, <3>2 DEF CheckedReply
    <3> QED BY <3>1, <3>3
  <2>5. CASE Resolve(c, f) /\ ~(phase[c] = "srsp" /\ StartsWait(c, f))
    <3>1. SuccessIsDone'
      BY <2>5 DEF Resolve, Swept, SuccessIsDone, TypeOK
    <3>2. ASSUME NEW d \in Calls, d # c, result'[d] = "ok", Op[d].echo # None
          PROVE  LET e == IF Op[d].confirm = None THEN replied'[d] ELSE confirmed'[d]
                 IN Op[e].echo = Op[d].echo
      BY <2>3, <2>5, <3>2 DEF Resolve, CheckedReply, TypeOK
    \* The reply that made c succeed is the one it was compared with.
    <3>3. ASSUME result'[c] = "ok", Op[c].echo # None
          PROVE  LET e == IF Op[c].confirm = None THEN replied'[c] ELSE confirmed'[c]
                 IN Op[e].echo = Op[c].echo
      <4>1. phase[c] # "orphan" /\ Outcome(c, f) = "ok"
        BY <2>2, <2>5, <3>3 DEF Resolve, TypeOK
      <4>2. f.kind # "rpc" /\ f.ok /\ Op[f.call].echo = Op[c].echo
        BY <3>3, <4>1 DEF Outcome
      <4>3. f \in Frames
        BY HeadTailProperties DEF OnFrame, TypeOK
      <4>4. CASE f.kind = "areq"
        <5>1. Op[c].confirm # None
          BY <2>1, <4>4 DEF SuccessIsDone
        <5>2. confirmed'[c] = f.call
          BY <1>2, <4>4 DEF Consume, TypeOK
        <5> QED BY <4>2, <5>1, <5>2
      <4>5. CASE f.kind = "srsp"
        <5>1. phase[c] = "srsp"
          BY <2>1, <4>1, <4>5
        <5>2. Op[c].confirm = None
          BY <2>5, <4>2, <4>5, <5>1 DEF StartsWait
        <5>3. replied'[c] = f.call
          BY <1>2, <4>5 DEF Consume, TypeOK
        <5> QED BY <4>2, <5>2, <5>3
      <4> QED BY <4>2, <4>3, <4>4, <4>5 DEF Frames
    <3> QED BY <3>1, <3>2, <3>3 DEF CheckedReply
  <2> QED BY <1>2, <2>4, <2>5 DEF Consume
<1> QED BY <1>1, <1>2 DEF OnFrame

\* So does every other step.
LEMMA CheckedStep == CheckedInv /\ [Next]_vars => CheckedInv'
<1> SUFFICES ASSUME CheckedInv, [Next]_vars
             PROVE  (SuccessIsDone /\ CheckedReply)'
  BY TypeStep, ListeningStep, SilenceStep DEF CheckedInv, ListenInv
<1>1. CASE OnFrame
  BY <1>1, CheckedStepFrame
<1> USE DEF CheckedInv, ListenInv, SuccessIsDone, CheckedReply, TypeOK
<1>2. ASSUME NEW c \in Calls, RawSReq(c)
      PROVE  (SuccessIsDone /\ CheckedReply)'
  <2>1. result[c] = "pending"
    BY <1>2 DEF RawSReq, Listening
  <2>2. \A d \in Calls : d # c => phase'[d] = phase[d] /\ result'[d] = result[d]
    BY <1>2 DEF RawSReq
  <2>3. result'[c] # "ok" /\ phase'[c] # "confirm"
    BY <1>2, <2>1 DEF RawSReq
  <2>4. replied' = replied /\ confirmed' = confirmed
    BY <1>2 DEF RawSReq
  <2> QED BY <2>2, <2>3, <2>4
<1>3. ASSUME NEW c \in Calls, OnTimer(c)
      PROVE  (SuccessIsDone /\ CheckedReply)'
  BY <1>3 DEF OnTimer
<1>4. CASE DongleServe \/ LoseFrame \/ \E c \in Calls : DongleConfirm(c)
  BY <1>4 DEF DongleServe, LoseFrame, DongleConfirm, hostVars
<1>5. CASE UNCHANGED vars
  BY <1>5 DEF vars
<1> QED BY <1>1, <1>2, <1>3, <1>4, <1>5 DEF Next

\* However many frames are lost or SREQs refused, and whatever the order of the
\* replies: where a continuation compares the reply with its request, a call never
\* succeeds with a reply about something else.
THEOREM CheckedReplyHolds == Spec => []CheckedReply
<1>1. Init => CheckedInv
  BY EmptySeq DEF Init, CheckedInv, ListenInv, Listening, Silence, SuccessIsDone,
                  CheckedReply, TypeOK, Phases, Listed, Results
<1>2. CheckedInv => CheckedReply
  BY DEF CheckedInv
<1> QED BY <1>1, <1>2, CheckedStep, PTL DEF Spec

-----------------------------------------------------------------------------
(* OwnReply: as long as nothing is lost, matching by command and position    *)
(* is matching by call.  The calls whose RawSReq handler is listed are those *)
(* whose SREQ or SRSP is on the wire, and the wire - the SRSPs followed by   *)
(* the SREQs - holds them in the order of the list.                          *)

IsReply(f) == f.kind \in {"srsp", "rpc"}

\* A position of fromDongle that holds an SRSP.
ReplyAt(i) == i \in 1 .. Len(fromDongle) /\ IsReply(fromDongle[i])

OnWire ==
  /\ \A i \in 1 .. Len(toDongle) : phase[toDongle[i]] = "srsp"
  /\ \A i \in 1 .. Len(fromDongle) : ReplyAt(i) =>
       /\ phase[fromDongle[i].call] = "srsp"
       /\ fromDongle[i].cmd \in Op[fromDongle[i].call].responses
  /\ \A c \in Calls : phase[c] = "srsp" =>
       \/ \E i \in 1 .. Len(toDongle) : toDongle[i] = c
       \/ \E i \in 1 .. Len(fromDongle) : ReplyAt(i) /\ fromDongle[i].call = c

WireOrder ==
  /\ \A i, j \in 1 .. Len(toDongle) : i < j => at[toDongle[i]] < at[toDongle[j]]
  /\ \A i, j \in 1 .. Len(fromDongle) :
       i < j /\ ReplyAt(i) /\ ReplyAt(j) => at[fromDongle[i].call] < at[fromDongle[j].call]
  /\ \A i \in 1 .. Len(fromDongle), j \in 1 .. Len(toDongle) :
       ReplyAt(i) => at[fromDongle[i].call] < at[toDongle[j]]

Positions ==
  \A c \in Calls : /\ phase[c] # "orphan"
                   /\ phase[c] # "idle" => at[c] < tail

\* OwnReply without its condition.
OwnReplies == \A c \in Calls : replied[c] \in {NoCall, c}

ReplyInv == TypeOK /\ OnWire /\ WireOrder /\ Positions /\ OwnReplies

\* The head and the tail of a queue by index.
LEMMA QueueFront ==
  ASSUME NEW S, NEW q \in Seq(S), q # <<>>
  PROVE  /\ Len(q) \in Nat /\ 1 \in 1 .. Len(q)
         /\ Head(q) = q[1] /\ q[1] \in S
         /\ Len(Tail(q)) = Len(q) - 1
         /\ \A i \in 1 .. Len(Tail(q)) : i + 1 \in 1 .. Len(q) /\ Tail(q)[i] = q[i + 1]
<1>1. Len(q) \in Nat \ {0}
  BY EmptySeq
<1>2. 1 \in 1 .. Len(q)
  BY <1>1
<1>3. q[1] \in S
  BY <1>2, ElementOfSeq
<1>4. Len(Tail(q)) = Len(q) - 1 /\ \A i \in 1 .. Len(Tail(q)) : Tail(q)[i] = q[i + 1]
  BY HeadTailProperties
<1> QED BY <1>1, <1>2, <1>3, <1>4

\* The SRSP in front is consumed by the call it was sent for.
LEMMA HeadReplyIsFirst ==
  ASSUME ReplyInv, fromDongle # <<>>, IsReply(Head(fromDongle)),
         NEW c \in Calls, IsFirst(c, Takers(Head(fromDongle)))
  PROVE  c = Head(fromDongle).call
<1> DEFINE h == Head(fromDongle).call
<1>1. /\ Len(fromDongle) \in Nat /\ 1 \in 1 .. Len(fromDongle)
      /\ Head(fromDongle) = fromDongle[1] /\ h \in Calls /\ ReplyAt(1)
  <2>1. fromDongle \in Seq(Frames)
    BY DEF ReplyInv, TypeOK
  <2>2. /\ Len(fromDongle) \in Nat /\ 1 \in 1 .. Len(fromDongle)
        /\ Head(fromDongle) = fromDongle[1] /\ fromDongle[1] \in Frames
    BY <2>1, QueueFront
  <2> QED BY <2>2 DEF ReplyAt, Frames
<1>2. phase[h] = "srsp" /\ h \in Takers(Head(fromDongle))
  BY <1>1 DEF ReplyInv, OnWire, Takers, IsReply
<1>3. phase[c] = "srsp" /\ at[c] <= at[h]
  BY <1>2 DEF IsFirst, Takers, IsReply, ReplyInv, Positions
<1>4. CASE \E j \in 1 .. Len(toDongle) : toDongle[j] = c
  BY <1>1, <1>3, <1>4 DEF ReplyInv, WireOrder, TypeOK
<1>5. CASE \E j \in 1 .. Len(fromDongle) : ReplyAt(j) /\ fromDongle[j].call = c
  <2>1. PICK j \in 1 .. Len(fromDongle) : ReplyAt(j) /\ fromDongle[j].call = c
    BY <1>5
  <2>2. CASE j = 1
    BY <1>1, <2>1, <2>2
  <2>3. CASE 1 < j
    BY <1>1, <1>3, <2>1, <2>3 DEF ReplyInv, WireOrder, TypeOK
  <2> QED BY <1>1, <2>2, <2>3
<1> QED BY <1>3, <1>4, <1>5 DEF ReplyInv, OnWire

\* The wire after OnFrame: one frame less, and if that was an SRSP, its call has
\* left the phase "srsp" and is nowhere else on the wire.
LEMMA ReplyStepFrame == ReplyInv /\ OnFrame => (OnWire /\ WireOrder /\ Positions /\ OwnReplies)'
<1> SUFFICES ASSUME ReplyInv, OnFrame
             PROVE  (OnWire /\ WireOrder /\ Positions /\ OwnReplies)'
  OBVIOUS
<1> DEFINE f == Head(fromDongle)
           h == f.call
<1>1. /\ Len(fromDongle) \in Nat /\ 1 \in 1 .. Len(fromDongle)
      /\ f = fromDongle[1] /\ f \in Frames /\ h \in Calls
      /\ Len(fromDongle') = Len(fromDongle) - 1
      /\ \A i \in 1 .. Len(fromDongle') :
           i + 1 \in 1 .. Len(fromDongle) /\ fromDongle'[i] = fromDongle[i + 1]
  <2>1. fromDongle \in Seq(Frames) /\ fromDongle # <<>> /\ fromDongle' = Tail(fromDongle)
    BY DEF ReplyInv, TypeOK, OnFrame
  <2>2. /\ Len(fromDongle) \in Nat /\ 1 \in 1 .. Len(fromDongle)
        /\ f = fromDongle[1] /\ fromDongle[1] \in Frames
        /\ Len(fromDongle') = Len(fromDongle) - 1
        /\ \A i \in 1 .. Len(fromDongle') :
             i + 1 \in 1 .. Len(fromDongle) /\ fromDongle'[i] = fromDongle[i + 1]
    BY <2>1, QueueFront
  <2> QED BY <2>2 DEF Frames
<1>2. toDongle' = toDongle
  BY DEF OnFrame
<1>3. ReplyAt(1) <=> IsReply(f)
  BY <1>1 DEF ReplyAt
<1>4. IsReply(f) => phase[h] = "srsp" /\ h \in Takers(f)
  BY <1>1, <1>3 DEF ReplyInv, OnWire, Takers, IsReply
<1>5. \A i \in 1 .. Len(fromDongle') : ReplyAt(i)' => ReplyAt(i + 1)
  BY <1>1 DEF ReplyAt
\* The calls whose RawSReq handler stays, with its place in the list.
<1> DEFINE Stays(d) == phase[d] = "srsp" /\ (IsReply(f) => d # h)
           Kept == \A d \in Calls : /\ phase'[d] = "srsp" <=> Stays(d)
                                    /\ Stays(d) => at'[d] = at[d]
                                    /\ phase'[d] # "orphan"
                                    /\ phase'[d] # "idle" => at'[d] < tail'
                                    /\ replied'[d] \in {NoCall, d}
<1>6. Kept
  <2> USE DEF ReplyInv, TypeOK, Positions, OwnReplies
  <2>1. CASE Unhandled(f)
    BY <1>4, <2>1 DEF Unhandled, Swept
  <2>2. ASSUME NEW c \in Calls, Consume(c, f)
        PROVE  Kept
    <3>1. /\ phase[c] \in {"srsp", "confirm"}
          /\ IsReply(f) <=> phase[c] = "srsp"
          /\ f.kind = "areq" <=> ~IsReply(f)
      BY <1>1, <2>2 DEF Consume, IsFirst, Takers, IsReply, Frames
    <3>2. IsReply(f) => c = h
      BY <2>2, HeadReplyIsFirst DEF Consume, OnFrame
    <3>3. \A d \in Calls : replied'[d] \in {NoCall, d}
      BY <2>2, <3>1, <3>2 DEF Consume
    <3>4. CASE phase[c] = "srsp" /\ WaitFor(c)
      BY <3>1, <3>2, <3>3, <3>4 DEF WaitFor, Swept
    <3>5. CASE Resolve(c, f)
      <4>1. at' = at /\ tail' = tail
        BY <3>5 DEF Resolve
      <4>2. \A d \in Calls : d # c => \/ phase'[d] = phase[d]
                                      \/ phase'[d] = "done" /\ phase[d] = "expired"
        BY <3>5 DEF Resolve, Swept
      <4>3. phase'[c] = "done"
        BY <3>5 DEF Resolve
      <4>4. \A d \in Calls : phase'[d] = "srsp" <=> Stays(d)
        BY <3>1, <3>2, <4>2, <4>3
      <4>5. \A d \in Calls : phase'[d] # "orphan"
        BY <4>2, <4>3
      <4>6. \A d \in Calls : phase'[d] # "idle" => at'[d] < tail'
        BY <3>1, <4>1, <4>2, <4>3
      <4> QED BY <3>3, <4>1, <4>4, <4>5, <4>6
    <3> QED BY <2>2, <3>4, <3>5 DEF Consume
  <2> QED BY <2>1, <2>2 DEF OnFrame
<1>7. \A i \in 1 .. Len(toDongle) : toDongle[i] \in Calls /\ Stays(toDongle[i])
  <2>1. \A i \in 1 .. Len(toDongle) : toDongle[i] \in Calls /\ phase[toDongle[i]] = "srsp"
    BY ElementOfSeq DEF ReplyInv, TypeOK, OnWire
  <2>2. IsReply(f) => \A i \in 1 .. Len(toDongle) : at[h] < at[toDongle[i]]
    BY <1>1, <1>3 DEF ReplyInv, WireOrder
  <2> QED BY <1>1, <2>1, <2>2 DEF ReplyInv, TypeOK
<1>8. \A i \in 2 .. Len(fromDongle) :
        ReplyAt(i) => fromDongle[i].call \in Calls /\ Stays(fromDongle[i].call)
  <2>1. \A i \in 1 .. Len(fromDongle) : fromDongle[i].call \in Calls
    <3>1. \A i \in 1 .. Len(fromDongle) : fromDongle[i] \in Frames
      BY ElementOfSeq DEF ReplyInv, TypeOK
    <3> QED BY <3>1 DEF Frames
  <2>2. IsReply(f) => \A i \in 2 .. Len(fromDongle) :
                        ReplyAt(i) => at[h] < at[fromDongle[i].call]
    BY <1>1, <1>3 DEF ReplyInv, WireOrder
  <2> QED BY <1>1, <2>1, <2>2 DEF ReplyInv, TypeOK, OnWire
<1>9. OnWire'
  <2>1. \A i \in 1 .. Len(fromDongle') : ReplyAt(i)' =>
          /\ phase'[fromDongle'[i].call] = "srsp"
          /\ fromDongle'[i].cmd \in Op[fromDongle'[i].call].responses
    BY <1>1, <1>5, <1>6, <1>8 DEF ReplyInv, OnWire
  <2>2. ASSUME NEW c \in Calls, phase'[c] = "srsp",
               ~ \E i \in 1 .. Len(toDongle') : toDongle'[i] = c
        PROVE  \E i \in 1 .. Len(fromDongle') : ReplyAt(i)' /\ fromDongle'[i].call = c
    <3>1. Stays(c)
      BY <1>6, <2>2
    <3>2. PICK i \in 1 .. Len(fromDongle) : ReplyAt(i) /\ fromDongle[i].call = c
      BY <1>2, <2>2, <3>1 DEF ReplyInv, OnWire
    <3>3. i # 1
      BY <1>1, <1>3, <3>1, <3>2
    <3>4. i - 1 \in 1 .. Len(fromDongle') /\ fromDongle'[i - 1] = fromDongle[i]
      BY <1>1, <3>2, <3>3
    <3> QED BY <3>2, <3>4 DEF ReplyAt
  <2> QED BY <1>2, <1>6, <1>7, <2>1, <2>2 DEF OnWire
<1>10. WireOrder'
  <2>1. \A i \in 1 .. Len(fromDongle') : ReplyAt(i)' =>
          /\ i + 1 \in 1 .. Len(fromDongle) /\ ReplyAt(i + 1)
          /\ at'[fromDongle'[i].call] = at[fromDongle[i + 1].call]
    BY <1>1, <1>5, <1>6, <1>8
  <2>2. \A j \in 1 .. Len(toDongle') : at'[toDongle'[j]] = at[toDongle[j]]
    BY <1>2, <1>6, <1>7
  <2>3. \A i, j \in 1 .. Len(toDongle') :
          i < j => at'[toDongle'[i]] < at'[toDongle'[j]]
    BY <1>2, <2>2 DEF ReplyInv, WireOrder
  <2>4. ASSUME NEW i \in 1 .. Len(fromDongle'), NEW j \in 1 .. Len(fromDongle'),
               i < j, ReplyAt(i)', ReplyAt(j)'
        PROVE  at'[fromDongle'[i].call] < at'[fromDongle'[j].call]
    <3>1. i + 1 < j + 1
      BY <1>1, <2>4
    <3> QED BY <2>1, <2>4, <3>1 DEF ReplyInv, WireOrder
  <2>5. ASSUME NEW i \in 1 .. Len(fromDongle'), NEW j \in 1 .. Len(toDongle'), ReplyAt(i)'
        PROVE  at'[fromDongle'[i].call] < at'[toDongle'[j]]
    BY <1>2, <2>1, <2>2, <2>5 DEF ReplyInv, WireOrder
  <2> QED BY <2>3, <2>4, <2>5 DEF WireOrder
<1>11. (Positions /\ OwnReplies)'
  BY <1>6 DEF Positions, OwnReplies
<1> QED BY <1>9, <1>10, <1>11

\* RawSReq puts its handler behind all others and its SREQ behind all others.
LEMMA ReplyStepCall ==
  ASSUME ReplyInv, NEW c \in Calls, RawSReq(c), result'[c] # "oversize"
  PROVE  (OnWire /\ WireOrder /\ Positions /\ OwnReplies)'
<1>1. /\ phase' = [phase EXCEPT ![c] = "srsp"] /\ at' = [at EXCEPT ![c] = tail]
      /\ tail' = tail + 1 /\ toDongle' = Append(toDongle, c)
      /\ UNCHANGED <<fromDongle, replied>> /\ phase[c] = "idle"
  BY DEF RawSReq, ReplyInv, TypeOK
<1>2. /\ Len(toDongle) \in Nat /\ Len(toDongle') = Len(toDongle) + 1
      /\ \A i \in 1 .. Len(toDongle) : toDongle'[i] = toDongle[i]
      /\ toDongle'[Len(toDongle) + 1] = c
  BY <1>1, AppendProperties, LenProperties DEF ReplyInv, TypeOK
<1>3. \A i \in 1 .. Len(toDongle) : toDongle[i] \in Calls /\ toDongle[i] # c
                                    /\ phase[toDongle[i]] = "srsp"
  BY <1>1, ElementOfSeq DEF ReplyInv, TypeOK, OnWire
<1>4. \A i \in 1 .. Len(fromDongle) : ReplyAt(i) =>
        /\ fromDongle[i].call \in Calls /\ fromDongle[i].call # c
        /\ phase[fromDongle[i].call] = "srsp"
  <2>1. \A i \in 1 .. Len(fromDongle) : fromDongle[i] \in Frames
    BY ElementOfSeq DEF ReplyInv, TypeOK
  <2> QED BY <1>1, <2>1 DEF ReplyInv, OnWire, Frames
<1>5. \A i \in 1 .. Len(fromDongle) : ReplyAt(i)' <=> ReplyAt(i)
  BY <1>1 DEF ReplyAt
<1>6. OnWire'
  <2>1. \A d \in Calls : phase'[d] = IF d = c THEN "srsp" ELSE phase[d]
    BY <1>1 DEF ReplyInv, TypeOK
  <2>2. \A i \in 1 .. Len(toDongle') : phase'[toDongle'[i]] = "srsp"
    BY <1>2, <1>3, <2>1
  <2>3. \A i \in 1 .. Len(fromDongle') : ReplyAt(i)' =>
          /\ phase'[fromDongle'[i].call] = "srsp"
          /\ fromDongle'[i].cmd \in Op[fromDongle'[i].call].responses
    BY <1>1, <1>4, <1>5, <2>1 DEF ReplyInv, OnWire
  <2>4. ASSUME NEW d \in Calls, phase'[d] = "srsp"
        PROVE  \/ \E i \in 1 .. Len(toDongle') : toDongle'[i] = d
               \/ \E i \in 1 .. Len(fromDongle') : ReplyAt(i)' /\ fromDongle'[i].call = d
    <3>1. CASE d = c
      BY <1>2, <3>1
    <3>2. CASE d # c /\ \E i \in 1 .. Len(toDongle) : toDongle[i] = d
      BY <1>2, <3>2
    <3>3. CASE d # c /\ \E i \in 1 .. Len(fromDongle) : ReplyAt(i) /\ fromDongle[i].call = d
      BY <1>1, <1>5, <3>3
    <3> QED BY <2>1, <2>4, <3>1, <3>2, <3>3 DEF ReplyInv, OnWire
  <2> QED BY <2>2, <2>3, <2>4 DEF OnWire
<1>7. /\ \A i \in 1 .. Len(toDongle) : at[toDongle[i]] < tail
      /\ \A i \in 1 .. Len(fromDongle) : ReplyAt(i) => at[fromDongle[i].call] < tail
  BY <1>3, <1>4 DEF ReplyInv, Positions
<1>8. /\ at'[c] = tail
      /\ \A i \in 1 .. Len(toDongle) : at'[toDongle'[i]] = at[toDongle[i]]
      /\ \A i \in 1 .. Len(fromDongle) :
           ReplyAt(i) => at'[fromDongle'[i].call] = at[fromDongle[i].call]
  BY <1>1, <1>2, <1>3, <1>4 DEF ReplyInv, TypeOK
<1>9. WireOrder'
  <2>1. ASSUME NEW i \in 1 .. Len(toDongle'), NEW j \in 1 .. Len(toDongle'), i < j
        PROVE  at'[toDongle'[i]] < at'[toDongle'[j]]
    <3>1. i \in 1 .. Len(toDongle)
      BY <1>2, <2>1
    <3>2. CASE j = Len(toDongle) + 1
      BY <1>2, <1>7, <1>8, <3>1, <3>2
    <3>3. CASE j \in 1 .. Len(toDongle)
      BY <1>8, <2>1, <3>1, <3>3 DEF ReplyInv, WireOrder
    <3> QED BY <1>2, <3>2, <3>3
  <2>2. ASSUME NEW i \in 1 .. Len(fromDongle'), NEW j \in 1 .. Len(toDongle'), ReplyAt(i)'
        PROVE  at'[fromDongle'[i].call] < at'[toDongle'[j]]
    <3>1. i \in 1 .. Len(fromDongle) /\ ReplyAt(i)
      BY <1>1, <1>5, <2>2
    <3>2. CASE j = Len(toDongle) + 1
      BY <1>2, <1>7, <1>8, <3>1, <3>2
    <3>3. CASE j \in 1 .. Len(toDongle)
      BY <1>8, <3>1, <3>3 DEF ReplyInv, WireOrder
    <3> QED BY <1>2, <3>2, <3>3
  <2>3. \A i, j \in 1 .. Len(fromDongle') :
          i < j /\ ReplyAt(i)' /\ ReplyAt(j)' =>
            at'[fromDongle'[i].call] < at'[fromDongle'[j].call]
    BY <1>1, <1>5, <1>8 DEF ReplyInv, WireOrder
  <2> QED BY <2>1, <2>2, <2>3 DEF WireOrder
<1>10. (Positions /\ OwnReplies)'
  BY <1>1 DEF ReplyInv, TypeOK, Positions, OwnReplies
<1> QED BY <1>6, <1>9, <1>10

\* A frame put on the wire behind the others.
LEMMA PutFrame ==
  ASSUME TypeOK, NEW c \in Calls, NEW kind \in {"srsp", "rpc", "areq"},
         NEW cmd \in Op[c].responses \cup {Op[c].confirm}, NEW ok \in BOOLEAN,
         Put(kind, c, cmd, ok)
  PROVE  /\ Len(fromDongle) \in Nat /\ Len(fromDongle') = Len(fromDongle) + 1
         /\ \A i \in 1 .. Len(fromDongle) :
              fromDongle[i].call \in Calls /\ fromDongle'[i] = fromDongle[i]
         /\ fromDongle'[Len(fromDongle) + 1] =
              [kind |-> kind, call |-> c, cmd |-> cmd, ok |-> ok]
<1> DEFINE f == [kind |-> kind, call |-> c, cmd |-> cmd, ok |-> ok]
<1>1. f \in Frames
  BY FrameType
<1>2. fromDongle \in Seq(Frames) /\ fromDongle' = Append(fromDongle, f)
  BY DEF TypeOK, Put
<1>3. \A i \in 1 .. Len(fromDongle) : fromDongle[i] \in Frames
  BY <1>2, ElementOfSeq
<1>4. /\ Len(fromDongle) \in Nat /\ Len(fromDongle') = Len(fromDongle) + 1
      /\ \A i \in 1 .. Len(fromDongle) : fromDongle'[i] = fromDongle[i]
      /\ fromDongle'[Len(fromDongle) + 1] = f
  BY <1>1, <1>2, AppendProperties, LenProperties
<1> QED BY <1>3, <1>4 DEF Frames

\* The dongle turns the first SREQ on the wire into the last SRSP.
LEMMA ReplyStepServe ==
  ReplyInv /\ DongleServe => (OnWire /\ WireOrder /\ Positions /\ OwnReplies)'
<1> SUFFICES ASSUME ReplyInv, DongleServe
             PROVE  (OnWire /\ WireOrder /\ Positions /\ OwnReplies)'
  OBVIOUS
<1> DEFINE c == Head(toDongle)
<1>n. PICK n \in Nat : n = Len(fromDongle)
  BY LenProperties DEF ReplyInv, TypeOK
<1>1. UNCHANGED <<phase, at, tail, replied>>
  BY DEF DongleServe, hostVars
<1>2. /\ Len(toDongle) \in Nat /\ 1 \in 1 .. Len(toDongle)
      /\ c = toDongle[1] /\ c \in Calls
      /\ Len(toDongle') = Len(toDongle) - 1
      /\ \A i \in 1 .. Len(toDongle') :
           i + 1 \in 1 .. Len(toDongle) /\ toDongle'[i] = toDongle[i + 1]
  BY QueueFront DEF ReplyInv, TypeOK, DongleServe
<1>3. PICK kind \in {"srsp", "rpc"}, cmd \in Op[c].responses, ok \in BOOLEAN :
        Put(kind, c, cmd, ok)
  BY <1>2, OpAssumption DEF DongleServe
<1>4. /\ n \in Nat /\ Len(fromDongle') = n + 1
      /\ \A i \in 1 .. n : fromDongle[i].call \in Calls /\ fromDongle'[i] = fromDongle[i]
      /\ fromDongle'[n + 1] = [kind |-> kind, call |-> c, cmd |-> cmd, ok |-> ok]
  <2>1. cmd \in Op[c].responses \cup {Op[c].confirm} /\ kind \in {"srsp", "rpc", "areq"}
    OBVIOUS
  <2> QED BY <1>n, <1>2, <1>3, <2>1, PutFrame DEF ReplyInv
<1>5. /\ \A i \in 1 .. n : ReplyAt(i)' <=> ReplyAt(i)
      /\ n + 1 \in 1 .. Len(fromDongle') /\ ReplyAt(n + 1)'
      /\ fromDongle'[n + 1].call = c /\ fromDongle'[n + 1].cmd = cmd
  <2>1. \A i \in 1 .. n : ReplyAt(i)' <=> ReplyAt(i)
    BY <1>n, <1>4 DEF ReplyAt
  <2>2. n + 1 \in 1 .. Len(fromDongle')
    BY <1>4
  <2>3. /\ fromDongle'[n + 1].call = c /\ fromDongle'[n + 1].cmd = cmd
        /\ fromDongle'[n + 1].kind = kind
    BY <1>4
  <2> QED BY <2>1, <2>2, <2>3 DEF ReplyAt, IsReply
<1>6. OnWire'
  <2>1. \A i \in 1 .. Len(toDongle') : phase'[toDongle'[i]] = "srsp"
    BY <1>1, <1>2 DEF ReplyInv, OnWire
  <2>2. ASSUME NEW i \in 1 .. Len(fromDongle'), ReplyAt(i)'
        PROVE  /\ phase'[fromDongle'[i].call] = "srsp"
               /\ fromDongle'[i].cmd \in Op[fromDongle'[i].call].responses
    <3>1. CASE i = n + 1
      BY <1>1, <1>2, <1>5, <3>1 DEF ReplyInv, OnWire
    <3>2. CASE i \in 1 .. n
      BY <1>1, <1>n, <1>4, <1>5, <2>2, <3>2 DEF ReplyInv, OnWire
    <3> QED BY <1>4, <3>1, <3>2
  <2>3. ASSUME NEW d \in Calls, phase'[d] = "srsp"
        PROVE  \/ \E i \in 1 .. Len(toDongle') : toDongle'[i] = d
               \/ \E i \in 1 .. Len(fromDongle') : ReplyAt(i)' /\ fromDongle'[i].call = d
    <3>1. CASE \E i \in 1 .. n : ReplyAt(i) /\ fromDongle[i].call = d
      <4>1. PICK i \in 1 .. n : ReplyAt(i) /\ fromDongle[i].call = d
        BY <3>1
      <4>2. i \in 1 .. Len(fromDongle') /\ ReplyAt(i)' /\ fromDongle'[i].call = d
        BY <1>n, <1>4, <1>5, <4>1
      <4> QED BY <4>2
    <3>2. CASE \E i \in 1 .. Len(toDongle) : toDongle[i] = d
      <4>1. PICK i \in 1 .. Len(toDongle) : toDongle[i] = d
        BY <3>2
      <4>2. CASE i = 1
        BY <1>2, <1>n, <1>4, <1>5, <4>1, <4>2
      <4>3. CASE i # 1
        <5>1. i - 1 \in 1 .. Len(toDongle') /\ (i - 1) + 1 = i
          <6>1. i \in Int /\ 1 < i /\ i <= Len(toDongle)
            BY <1>2, <4>1, <4>3
          <6> QED BY <1>2, <6>1
        <5>2. PICK k \in 1 .. Len(toDongle') : k + 1 = i
          BY <5>1
        <5>3. toDongle'[k] = d
          BY <1>2, <4>1, <5>2
        <5> QED BY <5>3
      <4> QED BY <4>2, <4>3
    <3> QED BY <1>n, <1>1, <2>3, <3>1, <3>2 DEF ReplyInv, OnWire
  <2> QED BY <2>1, <2>2, <2>3 DEF OnWire
<1>7. WireOrder'
  <2>1. \A i, j \in 1 .. Len(toDongle') : i < j => at'[toDongle'[i]] < at'[toDongle'[j]]
    <3>1. \A i, j \in 1 .. Len(toDongle') : i < j => i + 1 < j + 1
      BY <1>2
    <3> QED BY <1>1, <1>2, <3>1 DEF ReplyInv, WireOrder
  <2>2. ASSUME NEW i \in 1 .. Len(fromDongle'), NEW j \in 1 .. Len(fromDongle'),
               i < j, ReplyAt(i)', ReplyAt(j)'
        PROVE  at'[fromDongle'[i].call] < at'[fromDongle'[j].call]
    <3>1. i \in 1 .. n /\ ReplyAt(i)
      BY <1>n, <1>4, <1>5, <2>2
    <3>2. CASE j = n + 1
      BY <1>1, <1>2, <1>n, <1>4, <1>5, <3>1, <3>2 DEF ReplyInv, WireOrder
    <3>3. CASE j \in 1 .. n
      BY <1>1, <1>n, <1>4, <1>5, <2>2, <3>1, <3>3 DEF ReplyInv, WireOrder
    <3> QED BY <1>4, <3>2, <3>3
  <2>3. ASSUME NEW i \in 1 .. Len(fromDongle'), NEW j \in 1 .. Len(toDongle'), ReplyAt(i)'
        PROVE  at'[fromDongle'[i].call] < at'[toDongle'[j]]
    <3>1. CASE i = n + 1
      <4>1. 1 < j + 1
        BY <1>2
      <4> QED BY <1>1, <1>2, <1>5, <3>1, <4>1 DEF ReplyInv, WireOrder
    <3>2. CASE i \in 1 .. n
      BY <1>1, <1>2, <1>n, <1>4, <1>5, <2>3, <3>2 DEF ReplyInv, WireOrder
    <3> QED BY <1>4, <3>1, <3>2
  <2> QED BY <2>1, <2>2, <2>3 DEF WireOrder
<1>8. (Positions /\ OwnReplies)'
  BY <1>1 DEF ReplyInv, Positions, OwnReplies
<1> QED BY <1>6, <1>7, <1>8

\* An AREQ is put on the wire: no SREQ and no SRSP moves.
LEMMA ReplyStepConfirm ==
  ASSUME ReplyInv, NEW c \in Calls, DongleConfirm(c)
  PROVE  (OnWire /\ WireOrder /\ Positions /\ OwnReplies)'
<1>1. UNCHANGED <<phase, at, tail, replied, toDongle>>
  BY DEF DongleConfirm, hostVars
<1>n. PICK n \in Nat : n = Len(fromDongle)
  BY LenProperties DEF ReplyInv, TypeOK
<1>2. PICK ok \in BOOLEAN : Put("areq", c, Op[c].confirm, ok)
  BY DEF DongleConfirm
<1>3. /\ Len(fromDongle') = n + 1
      /\ \A i \in 1 .. n : fromDongle[i].call \in Calls /\ fromDongle'[i] = fromDongle[i]
      /\ fromDongle'[n + 1].kind = "areq"
  <2>1. Op[c].confirm \in Op[c].responses \cup {Op[c].confirm}
    OBVIOUS
  <2>2. fromDongle'[Len(fromDongle) + 1] =
          [kind |-> "areq", call |-> c, cmd |-> Op[c].confirm, ok |-> ok]
    BY <1>2, <2>1, PutFrame DEF ReplyInv
  <2> QED BY <1>n, <1>2, <2>1, <2>2, PutFrame DEF ReplyInv
<1>4. \A i \in 1 .. Len(fromDongle') : ReplyAt(i)' => i \in 1 .. n /\ ReplyAt(i)
  <2>1. ~IsReply(fromDongle'[n + 1])
    BY <1>3 DEF IsReply
  <2>2. \A i \in 1 .. Len(fromDongle') : ReplyAt(i)' => i # n + 1
    BY <2>1 DEF ReplyAt
  <2>3. \A i \in 1 .. Len(fromDongle') : i # n + 1 => i \in 1 .. n
    BY <1>3
  <2> QED BY <1>n, <1>3, <2>2, <2>3 DEF ReplyAt
<1>5. \A i \in 1 .. n : ReplyAt(i) => i \in 1 .. Len(fromDongle') /\ ReplyAt(i)'
  BY <1>n, <1>3 DEF ReplyAt, IsReply
<1>6. OnWire'
  <2>1. \A i \in 1 .. Len(fromDongle') : ReplyAt(i)' =>
          /\ phase'[fromDongle'[i].call] = "srsp"
          /\ fromDongle'[i].cmd \in Op[fromDongle'[i].call].responses
    BY <1>n, <1>1, <1>3, <1>4 DEF ReplyInv, OnWire
  <2>2. ASSUME NEW d \in Calls, phase'[d] = "srsp",
               NEW i \in 1 .. n, ReplyAt(i), fromDongle[i].call = d
        PROVE  \E j \in 1 .. Len(fromDongle') : ReplyAt(j)' /\ fromDongle'[j].call = d
    BY <1>3, <1>5, <2>2
  <2> QED BY <1>n, <1>1, <2>1, <2>2 DEF ReplyInv, OnWire
<1>7. WireOrder'
  BY <1>n, <1>1, <1>3, <1>4 DEF ReplyInv, WireOrder
<1>8. (Positions /\ OwnReplies)'
  BY <1>1 DEF ReplyInv, Positions, OwnReplies
<1> QED BY <1>6, <1>7, <1>8

\* Every step on a link that loses nothing keeps the order of requests and replies.
LEMMA ReplyStep ==
  ASSUME Lossless', ReplyInv, [Next]_vars
  PROVE  ReplyInv'
<1>1. TypeOK'
  BY TypeStep DEF ReplyInv
<1>2. ASSUME NEW c \in Calls, OnTimer(c)
      PROVE  (OnWire /\ WireOrder /\ Positions /\ OwnReplies)'
  <2>1. UNCHANGED <<at, tail, toDongle, fromDongle, replied>>
    BY <1>2 DEF OnTimer
  <2>2. \A d \in Calls : phase'[d] = phase[d] \/ (phase[d] = "confirm" /\ phase'[d] = "expired")
    BY <1>2 DEF OnTimer, ReplyInv, TypeOK
  <2>3. /\ \A i \in 1 .. Len(toDongle) : toDongle[i] \in Calls
        /\ \A i \in 1 .. Len(fromDongle) : fromDongle[i] \in Frames
    BY ElementOfSeq DEF ReplyInv, TypeOK
  <2>4. \A i \in 1 .. Len(fromDongle) : fromDongle[i].call \in Calls
    BY <2>3 DEF Frames
  <2>5. OnWire'
    BY <2>1, <2>2, <2>3, <2>4 DEF ReplyInv, OnWire, ReplyAt
  <2>6. WireOrder'
    BY <2>1 DEF ReplyInv, WireOrder, ReplyAt
  <2> QED BY <2>1, <2>2, <2>5, <2>6 DEF ReplyInv, Positions, OwnReplies
<1>3. ~LoseFrame
  BY DEF Lossless, LoseFrame, ReplyInv, TypeOK
<1>5. ASSUME NEW c \in Calls, RawSReq(c)
      PROVE  (OnWire /\ WireOrder /\ Positions /\ OwnReplies)'
  BY <1>5, ReplyStepCall DEF Lossless
<1>4. CASE UNCHANGED vars
  BY <1>4 DEF vars, ReplyInv, OnWire, WireOrder, Positions, OwnReplies, ReplyAt, TypeOK
<1> QED
  BY <1>1, <1>2, <1>3, <1>4, <1>5, ReplyStepFrame, ReplyStepServe, ReplyStepConfirm
     DEF Next, ReplyInv

\* A loss is never undone.
LEMMA LossStays == ListenInv /\ [Next]_vars /\ Lossless' => Lossless
<1> SUFFICES ASSUME ListenInv, [Next]_vars, Lossless'
             PROVE  Lossless
  OBVIOUS
<1>1. drops' = 0 => drops = 0
  <2>1. \A c \in Calls : RawSReq(c) \/ OnTimer(c) \/ DongleConfirm(c) => drops' = drops
    BY DEF RawSReq, OnTimer, DongleConfirm
  <2>2. OnFrame \/ DongleServe \/ UNCHANGED vars => drops' = drops
    BY DEF OnFrame, DongleServe, vars
  <2>3. LoseFrame => drops' = drops + 1
    BY DEF LoseFrame
  <2>4. drops \in Nat
    BY DEF ListenInv, TypeOK
  <2>5. drops' = drops \/ drops' = drops + 1
    BY <2>1, <2>2, <2>3 DEF Next
  <2> QED BY <2>4, <2>5
<1>2. \A c \in Calls : result[c] # "pending" => result'[c] = result[c]
  <2>1. Next => \A c \in Calls : result[c] # "pending" => result'[c] = result[c]
    BY FinalStep
  <2> QED BY <2>1 DEF vars
<1> QED BY <1>1, <1>2 DEF Lossless

\* As long as nothing was lost, the reply a call consumes is the reply to that
\* very call, however many calls of the same command are outstanding (OnFrame,
\* RawSReq), and whatever the order of the AREQs.
THEOREM OwnReplyHolds == Spec => []OwnReply
<1> DEFINE Inv == ListenInv /\ (Lossless => ReplyInv)
<1>1. Init => Inv
  <2>1. Init => ListenInv
    BY EmptySeq DEF Init, ListenInv, Listening, Silence, TypeOK, Phases, Listed, Results
  <2>2. Init => ReplyInv
    BY EmptySeq DEF Init, ReplyInv, OnWire, WireOrder, Positions, OwnReplies, ReplyAt,
                    TypeOK, Phases, Listed, Results
  <2> QED BY <2>1, <2>2
<1>2. Inv /\ [Next]_vars => Inv'
  <2>1. ListenInv /\ [Next]_vars => ListenInv'
    BY TypeStep, ListeningStep, SilenceStep DEF ListenInv
  <2>2. ReplyInv /\ [Next]_vars /\ Lossless' => ReplyInv'
    BY ReplyStep
  <2> QED BY <2>1, <2>2, LossStays
<1>3. Inv => OwnReply
  BY DEF ReplyInv, OwnReply, OwnReplies
<1> QED BY <1>1, <1>2, <1>3, PTL DEF Spec
=============================================================================
