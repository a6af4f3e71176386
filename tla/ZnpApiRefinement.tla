-------------------------- MODULE ZnpApiRefinement --------------------------
(***************************************************************************)
(* ZnpApi.tla keeps the promise of Rpc.tla, and each untimed call gets its   *)
(* own AREQ: for any set of calls and any requests ZnpOps.tla has, of a      *)
(* dongle that sends equal confirms in the order of the requests (InOrder).  *)
(*                                                                         *)
(* Ledger says what the verdicts of the dongle have to do with the frames on *)
(* the wire, whatever is lost.  Issue, Owes and ConfirmOrder say, as long as *)
(* nothing is lost, that the handlers of WaitFor are listed in the order in  *)
(* which the dongle confirms; a call with a timeout has that only while no   *)
(* timer found it waiting (Steady).                                        *)
(***************************************************************************)
EXTENDS ZnpApiProofs

\* The SRSP after which WaitFor listens for an AREQ.
Accepts(f) == f.kind = "srsp" /\ f.ok /\ Op[f.call].confirm # None

\* What every other frame says of its call.
Says(f) == IF f.kind # "rpc" /\ f.ok THEN "ok" ELSE "failed"

AcceptAt(i, c) ==
  i \in 1 .. Len(fromDongle) /\ fromDongle[i].call = c /\ Accepts(fromDongle[i])
ConfirmAt(i, c) ==
  i \in 1 .. Len(fromDongle) /\ fromDongle[i].call = c /\ fromDongle[i].kind = "areq"

-----------------------------------------------------------------------------
(* The ledger of the dongle.                                                *)

\* An SREQ on the wire is the only one of its call, and not judged yet.
Unjudged ==
  /\ \A i, j \in 1 .. Len(toDongle) : toDongle[i] = toDongle[j] => i = j
  /\ \A i \in 1 .. Len(toDongle) :
       verdict[toDongle[i]] = "none" /\ phase[toDongle[i]] # "idle"

\* A judged call was made, a confirm is due only where there is one, and only a
\* call with a timeout has a timer.
Judged ==
  \A c \in Calls : /\ verdict[c] # "none" => phase[c] # "idle"
                   /\ verdict[c] = "working" => Op[c].confirm # None
                   /\ timer[c] # "off" => Op[c].timed

\* A frame that ends its call carries the verdict.
Truthful ==
  \A i \in 1 .. Len(fromDongle) :
    /\ ~Accepts(fromDongle[i]) => verdict[fromDongle[i].call] = Says(fromDongle[i])
    /\ fromDongle[i].kind = "areq" => fromDongle[i].cmd = Op[fromDongle[i].call].confirm

Ledger == TypeOK /\ Unjudged /\ Judged /\ Truthful

\* A queue without its head says of its frames, or SREQs, what it said before.
LEMMA LedgerTails ==
  ASSUME Ledger, UNCHANGED verdict, toDongle' \in {toDongle, Tail(toDongle)},
         fromDongle' \in {fromDongle, Tail(fromDongle)},
         toDongle' # toDongle => toDongle # <<>>,
         fromDongle' # fromDongle => fromDongle # <<>>,
         \A c \in Calls : phase[c] # "idle" => phase'[c] # "idle"
  PROVE  (Unjudged /\ Truthful)'
<1>1. toDongle \in Seq(Calls) /\ fromDongle \in Seq(Frames)
  BY DEF Ledger, TypeOK
<1>2. /\ \A i \in 1 .. Len(toDongle) : toDongle[i] \in Calls
      /\ Len(toDongle) \in Nat
  BY <1>1, ElementOfSeq, LenProperties
<1>3. Unjudged'
  <2>1. CASE toDongle' = toDongle
    BY <1>2, <2>1 DEF Ledger, Unjudged
  <2>2. CASE toDongle' = Tail(toDongle) /\ toDongle # <<>>
    <3>1. /\ Len(toDongle') = Len(toDongle) - 1
          /\ \A i \in 1 .. Len(toDongle') :
               i + 1 \in 1 .. Len(toDongle) /\ toDongle'[i] = toDongle[i + 1]
      BY <1>1, <2>2, QueueFront
    <3>2. \A i, j \in 1 .. Len(toDongle') : i + 1 = j + 1 => i = j
      BY <1>2, <3>1
    <3> QED BY <1>2, <3>1, <3>2 DEF Ledger, Unjudged
  <2> QED BY <2>1, <2>2
<1>4. Truthful'
  <2>1. CASE fromDongle' = fromDongle
    BY <2>1 DEF Ledger, Truthful
  <2>2. CASE fromDongle' = Tail(fromDongle) /\ fromDongle # <<>>
    <3>1. \A i \in 1 .. Len(fromDongle') :
            i + 1 \in 1 .. Len(fromDongle) /\ fromDongle'[i] = fromDongle[i + 1]
      BY <1>1, <2>2, QueueFront
    <3> QED BY <3>1 DEF Ledger, Truthful
  <2> QED BY <2>1, <2>2
<1> QED BY <1>3, <1>4

\* A received frame makes no call and takes none back, and arms only the timer of
\* a call with a timeout.
LEMMA FrameOnHost ==
  ASSUME TypeOK, OnFrame, NEW d \in Calls
  PROVE  /\ phase'[d] = "idle" <=> phase[d] = "idle"
         /\ timer'[d] # "off" => timer[d] # "off" \/ Op[d].timed
<1> DEFINE f == Head(fromDongle)
<1>1. CASE Unhandled(f)
  BY <1>1 DEF Unhandled, Swept, TypeOK
<1>2. ASSUME NEW c \in Calls, Consume(c, f)
      PROVE  /\ phase'[d] = "idle" <=> phase[d] = "idle"
             /\ timer'[d] # "off" => timer[d] # "off" \/ Op[d].timed
  <2>1. phase[c] # "idle"
    BY <1>2 DEF Consume, IsFirst, Takers
  <2>2. CASE WaitFor(c)
    <3>1. phase'[d] = "idle" <=> phase[d] = "idle"
      BY <2>1, <2>2 DEF WaitFor, Swept, TypeOK
    <3>2. CASE d = c
      <4>1. timer'[d] = IF Op[d].timed THEN "armed" ELSE "off"
        BY <2>2, <3>2 DEF WaitFor, TypeOK
      <4> QED BY <3>1, <4>1
    <3>3. CASE d # c
      BY <2>2, <3>1, <3>3 DEF WaitFor, TypeOK
    <3> QED BY <3>2, <3>3
  <2>3. CASE Resolve(c, f)
    BY <2>1, <2>3 DEF Resolve, Swept, TypeOK
  <2> QED BY <1>2, <2>2, <2>3 DEF Consume
<1> QED BY <1>1, <1>2 DEF OnFrame

\* A judgement, of a call the dongle has not judged for good, that is put on the
\* wire unless it accepts the request.
LEMMA LedgerPut ==
  ASSUME Ledger, NEW c \in Calls, NEW kind \in {"srsp", "rpc", "areq"},
         NEW cmd \in Op[c].responses \cup {Op[c].confirm}, NEW ok \in BOOLEAN,
         kind = "areq" => cmd = Op[c].confirm,
         Put(kind, c, cmd, ok), verdict[c] \in {"none", "working"},
         verdict' = [verdict EXCEPT ![c] =
           IF kind = "srsp" /\ ok /\ Op[c].confirm # None THEN "working"
           ELSE IF kind # "rpc" /\ ok THEN "ok" ELSE "failed"]
  PROVE  Truthful'
<1> DEFINE f == [kind |-> kind, call |-> c, cmd |-> cmd, ok |-> ok]
<1>1. /\ Len(fromDongle) \in Nat /\ Len(fromDongle') = Len(fromDongle) + 1
      /\ \A i \in 1 .. Len(fromDongle) :
           fromDongle[i].call \in Calls /\ fromDongle'[i] = fromDongle[i]
      /\ fromDongle'[Len(fromDongle) + 1] = f
  BY PutFrame DEF Ledger
<1>2. \A d \in Calls : verdict'[d] = IF d = c THEN verdict'[c] ELSE verdict[d]
  BY DEF Ledger, TypeOK
<1>3. verdict'[c] = IF Accepts(f) THEN "working" ELSE Says(f)
  BY DEF Ledger, TypeOK, Accepts, Says
<1>4. \A i \in 1 .. Len(fromDongle) :
        ~Accepts(fromDongle[i]) => fromDongle[i].call # c
  BY DEF Ledger, Truthful, Says
<1>5. ASSUME NEW i \in 1 .. Len(fromDongle')
      PROVE  /\ ~Accepts(fromDongle'[i]) =>
                  verdict'[fromDongle'[i].call] = Says(fromDongle'[i])
             /\ fromDongle'[i].kind = "areq" =>
                  fromDongle'[i].cmd = Op[fromDongle'[i].call].confirm
  <2>1. CASE i \in 1 .. Len(fromDongle)
    BY <1>1, <1>2, <1>4, <2>1 DEF Ledger, Truthful
  <2>2. CASE i = Len(fromDongle) + 1
    BY <1>1, <1>3, <2>2
  <2> QED BY <1>1, <2>1, <2>2
<1> QED BY <1>5 DEF Truthful

\* Every step keeps the ledger, also one that loses a frame.
LEMMA LedgerStep == Ledger /\ [Next]_vars => Ledger'
<1> SUFFICES ASSUME Ledger, [Next]_vars
             PROVE  (Unjudged /\ Judged /\ Truthful)'
  BY TypeStep DEF Ledger
<1>t. TypeOK
  BY DEF Ledger
<1>1. ASSUME NEW c \in Calls, RawSReq(c)
      PROVE  (Unjudged /\ Judged /\ Truthful)'
  <2>1. /\ UNCHANGED <<timer, fromDongle, verdict>> /\ phase[c] = "idle"
        /\ \A d \in Calls : phase[d] # "idle" => phase'[d] # "idle"
        /\ phase'[c] # "idle"
    BY <1>1, <1>t DEF RawSReq, TypeOK
  <2>2. Judged' /\ Truthful'
    BY <2>1 DEF Ledger, Judged, Truthful
  <2>3. CASE toDongle' = toDongle
    BY <2>1, <2>2, <2>3, LedgerTails
  <2>4. CASE toDongle' = Append(toDongle, c)
    <3> DEFINE n == Len(toDongle)
    <3>1. /\ n \in Nat /\ Len(toDongle') = n + 1
          /\ \A i \in 1 .. n : toDongle'[i] = toDongle[i]
          /\ toDongle'[n + 1] = c
      BY <2>4, <1>t, AppendProperties, LenProperties DEF TypeOK
    <3>2. \A i \in 1 .. n : toDongle[i] \in Calls /\ phase[toDongle[i]] # "idle"
      BY <1>t, ElementOfSeq DEF TypeOK, Ledger, Unjudged
    <3>3. verdict[c] = "none"
      BY <2>1 DEF Ledger, Judged
    <3> HIDE DEF n
    <3>4. \A i \in 1 .. Len(toDongle') : i \in 1 .. n \/ i = n + 1
      BY <3>1
    <3>5. \A i \in 1 .. n : toDongle[i] # c
      BY <2>1, <3>2
    <3>6. ASSUME NEW i \in 1 .. Len(toDongle')
          PROVE  verdict'[toDongle'[i]] = "none" /\ phase'[toDongle'[i]] # "idle"
      BY <2>1, <3>1, <3>2, <3>3, <3>4 DEF Ledger, Unjudged, n
    <3>7. ASSUME NEW i \in 1 .. Len(toDongle'), NEW j \in 1 .. Len(toDongle'),
                 toDongle'[i] = toDongle'[j]
          PROVE  i = j
      <4>1. CASE i \in 1 .. n /\ j \in 1 .. n
        <5>1. toDongle[i] = toDongle[j]
          BY <3>1, <3>7, <4>1
        <5> QED BY <4>1, <5>1 DEF Ledger, Unjudged, n
      <4>2. CASE i \in 1 .. n /\ j = n + 1
        BY <3>1, <3>5, <3>7, <4>2
      <4>3. CASE i = n + 1 /\ j \in 1 .. n
        BY <3>1, <3>5, <3>7, <4>3
      <4> QED BY <3>4, <4>1, <4>2, <4>3
    <3> QED BY <2>2, <3>6, <3>7 DEF Unjudged
  <2> QED BY <1>1, <2>3, <2>4 DEF RawSReq
<1>2. CASE OnFrame
  <2>1. \A d \in Calls : /\ phase'[d] = "idle" <=> phase[d] = "idle"
                         /\ timer'[d] # "off" => timer[d] # "off" \/ Op[d].timed
    BY <1>2, <1>t, FrameOnHost
  <2>2. UNCHANGED <<toDongle, verdict>> /\ fromDongle # <<>> /\ fromDongle' = Tail(fromDongle)
    BY <1>2 DEF OnFrame
  <2>3. Judged'
    BY <2>1, <2>2 DEF Ledger, Judged
  <2> QED BY <2>1, <2>2, <2>3, LedgerTails
<1>3. ASSUME NEW c \in Calls, OnTimer(c)
      PROVE  (Unjudged /\ Judged /\ Truthful)'
  <2>1. /\ UNCHANGED <<toDongle, fromDongle, verdict>>
        /\ \A d \in Calls : /\ phase'[d] = "idle" <=> phase[d] = "idle"
                            /\ timer'[d] # "off" => timer[d] # "off"
    BY <1>3, <1>t DEF OnTimer, TypeOK
  <2>2. Judged'
    BY <2>1 DEF Ledger, Judged
  <2> QED BY <2>1, <2>2, LedgerTails
<1>4. CASE DongleServe
  <2> DEFINE c == Head(toDongle)
  <2>1. /\ Len(toDongle) \in Nat /\ 1 \in 1 .. Len(toDongle)
        /\ c = toDongle[1] /\ c \in Calls
        /\ Len(toDongle') = Len(toDongle) - 1
        /\ \A i \in 1 .. Len(toDongle') :
             i + 1 \in 1 .. Len(toDongle) /\ toDongle'[i] = toDongle[i + 1]
    BY <1>4, <1>t, QueueFront DEF TypeOK, DongleServe
  <2>2. verdict[c] = "none" /\ phase[c] # "idle"
    BY <2>1 DEF Ledger, Unjudged
  <2>3. UNCHANGED <<phase, timer>>
    BY <1>4 DEF DongleServe, hostVars
  <2>4. \A d \in Calls : d # c => verdict'[d] = verdict[d]
    BY <1>4, <1>t DEF DongleServe, TypeOK
  <2>5. PICK kind \in {"srsp", "rpc"}, cmd \in Op[c].responses, ok \in BOOLEAN :
          /\ Put(kind, c, cmd, ok)
          /\ kind = "rpc" => ok = FALSE
          /\ verdict' = [verdict EXCEPT ![c] =
               IF ~ok THEN "failed"
               ELSE IF Op[c].confirm = None THEN "ok" ELSE "working"]
    BY <1>4, <2>1, OpAssumption DEF DongleServe
  <2>6. Truthful'
    <3>1. verdict' = [verdict EXCEPT ![c] =
           IF kind = "srsp" /\ ok /\ Op[c].confirm # None THEN "working"
           ELSE IF kind # "rpc" /\ ok THEN "ok" ELSE "failed"]
      BY <2>5
    <3>2. c \in Calls /\ verdict[c] \in {"none", "working"} /\ Put(kind, c, cmd, ok)
      BY <2>1, <2>2, <2>5
    <3> HIDE DEF c
    <3>3. /\ kind \in {"srsp", "rpc", "areq"} /\ (kind = "areq" => cmd = Op[c].confirm)
          /\ cmd \in Op[c].responses \cup {Op[c].confirm}
      OBVIOUS
    <3> QED BY <3>1, <3>2, <3>3, LedgerPut
  <2>7. Judged'
    <3>1. verdict'[c] = "working" => Op[c].confirm # None
      BY <2>1, <2>5, <1>t DEF TypeOK
    <3>2. ASSUME NEW d \in Calls
          PROVE  /\ verdict'[d] # "none" => phase'[d] # "idle"
                 /\ verdict'[d] = "working" => Op[d].confirm # None
                 /\ timer'[d] # "off" => Op[d].timed
      <4>1. /\ verdict[d] # "none" => phase[d] # "idle"
            /\ verdict[d] = "working" => Op[d].confirm # None
            /\ timer[d] # "off" => Op[d].timed
        BY DEF Ledger, Judged
      <4>2. phase'[d] = phase[d] /\ timer'[d] = timer[d]
        BY <2>3
      <4>3. CASE d = c
        BY <2>2, <3>1, <4>1, <4>2, <4>3
      <4>4. CASE d # c
        <5>1. verdict'[d] = verdict[d]
          BY <2>4, <4>4
        <5> QED BY <4>1, <4>2, <5>1
      <4> QED BY <4>3, <4>4
    <3> HIDE DEF c
    <3> QED BY <3>2 DEF Judged
  <2>8. Unjudged'
    <3>1. \A i \in 1 .. Len(toDongle') : toDongle'[i] \in Calls /\ toDongle'[i] # c
      <4>1. \A i \in 1 .. Len(toDongle') : toDongle'[i] \in Calls
        BY <2>1, <1>t, ElementOfSeq DEF TypeOK
      <4>2. \A i \in 1 .. Len(toDongle') : i + 1 # 1
        BY <2>1
      <4> QED BY <2>1, <4>1, <4>2 DEF Ledger, Unjudged
    <3>2. \A i, j \in 1 .. Len(toDongle') : i + 1 = j + 1 => i = j
      BY <2>1
    <3>3. \A i, j \in 1 .. Len(toDongle') : toDongle'[i] = toDongle'[j] => i = j
      BY <2>1, <3>2 DEF Ledger, Unjudged
    <3>4. \A i \in 1 .. Len(toDongle') :
            verdict'[toDongle'[i]] = "none" /\ phase'[toDongle'[i]] # "idle"
      <4>1. \A i \in 1 .. Len(toDongle') :
              verdict[toDongle'[i]] = "none" /\ phase[toDongle'[i]] # "idle"
        BY <2>1 DEF Ledger, Unjudged
      <4> HIDE DEF c
      <4> QED BY <2>3, <2>4, <3>1, <4>1
    <3> QED BY <3>3, <3>4 DEF Unjudged
  <2> QED BY <2>6, <2>7, <2>8
<1>5. ASSUME NEW c \in Calls, DongleConfirm(c)
      PROVE  (Unjudged /\ Judged /\ Truthful)'
  <2>1. /\ verdict[c] = "working" /\ UNCHANGED <<phase, timer, toDongle>>
    BY <1>5 DEF DongleConfirm, hostVars
  <2>2. PICK ok \in BOOLEAN :
          /\ Put("areq", c, Op[c].confirm, ok)
          /\ verdict' = [verdict EXCEPT ![c] = IF ok THEN "ok" ELSE "failed"]
    BY <1>5 DEF DongleConfirm
  <2>3. \A d \in Calls : d # c => verdict'[d] = verdict[d]
    BY <2>2, <1>t DEF TypeOK
  <2>4. Truthful'
    <3>1. verdict' = [verdict EXCEPT ![c] =
           IF "areq" = "srsp" /\ ok /\ Op[c].confirm # None THEN "working"
           ELSE IF "areq" # "rpc" /\ ok THEN "ok" ELSE "failed"]
      BY <2>2
    <3>2. Op[c].confirm \in Op[c].responses \cup {Op[c].confirm}
      OBVIOUS
    <3> QED BY <2>1, <2>2, <3>1, <3>2, LedgerPut
  <2>5. Judged'
    <3>1. verdict'[c] # "working"
      BY <2>2, <1>t DEF TypeOK
    <3> QED BY <2>1, <2>3, <3>1 DEF Ledger, Judged
  <2>6. Unjudged'
    <3>1. \A i \in 1 .. Len(toDongle) : toDongle[i] \in Calls /\ toDongle[i] # c
      BY <2>1, <1>t, ElementOfSeq DEF TypeOK, Ledger, Unjudged
    <3> QED BY <2>1, <2>3, <3>1 DEF Ledger, Unjudged
  <2> QED BY <2>4, <2>5, <2>6
<1>6. CASE LoseFrame
  <2>1. UNCHANGED <<phase, timer, verdict>>
    BY <1>6 DEF LoseFrame, hostVars, dongleVars
  <2>2. Judged'
    BY <2>1 DEF Ledger, Judged
  <2> QED BY <1>6, <2>1, <2>2, LedgerTails DEF LoseFrame
<1>7. CASE UNCHANGED vars
  BY <1>7 DEF vars, Ledger, Unjudged, Judged, Truthful
<1> QED BY <1>1, <1>2, <1>3, <1>4, <1>5, <1>6, <1>7 DEF Next

-----------------------------------------------------------------------------
(* The order of the confirms, as long as nothing is lost.                   *)

\* A call whose handler of WaitFor no timer can have taken from another call.
Steady(c) == Op[c].timed => \A d \in Calls : Op[d].timed => result[d] # "timeout"

\* Call c waits for its AREQ, or the SRSP on the wire will make it wait.
Due(c)  == phase[c] = "confirm" \/ \E i \in 1 .. Len(fromDongle) : AcceptAt(i, c)
\* The AREQ of call c is on the wire, or the dongle has yet to send it.
Owed(c) == verdict[c] = "working" \/ \E i \in 1 .. Len(fromDongle) : ConfirmAt(i, c)

\* The handlers of WaitFor are listed in the order in which the calls were made.
Issue ==
  /\ \A c \in Calls : /\ phase[c] = "srsp" => issued[c] = at[c]
                      /\ phase[c] # "idle" => issued[c] < tail
  /\ \A c, d \in Calls :
       /\ phase[c] \in {"confirm", "expired", "done"} /\ phase[d] = "srsp" =>
            issued[c] < issued[d]
       /\ phase[c] # "idle" /\ phase[d] # "idle" /\ issued[c] = issued[d] => c = d
       /\ phase[c] = "confirm" /\ phase[d] = "confirm" /\ issued[c] < issued[d] =>
            at[c] < at[d]

\* Every AREQ has its waiting call and every waiting call its AREQ, which is
\* behind the SRSP that makes the call wait.
Owes ==
  /\ \A c \in Calls : Steady(c) => (Due(c) <=> Owed(c))
  /\ \A c \in Calls, i \in 1 .. Len(fromDongle) :
       Steady(c) /\ ConfirmAt(i, c) =>
         phase[c] = "confirm" \/ \E j \in 1 .. (i - 1) : AcceptAt(j, c)

\* Equal confirms are on the wire, and then to come, in the order of the calls.
ConfirmOrder ==
  \A c, d \in Calls, i \in 1 .. Len(fromDongle) :
    Steady(c) /\ ConfirmAt(i, c) /\ Op[c].confirm = Op[d].confirm =>
      /\ verdict[d] = "working" => issued[c] < issued[d]
      /\ \A j \in 1 .. Len(fromDongle) : i < j /\ ConfirmAt(j, d) => issued[c] < issued[d]

\* What was consumed so far, by calls that can not time out.
OwnConfirms == \A c \in Calls : ~Op[c].timed => confirmed[c] \in {NoCall, c}

ConfirmInv == ReplyInv /\ CheckedInv /\ Ledger /\ Issue /\ Owes /\ ConfirmOrder /\ OwnConfirms

\* The SRSPs and AREQs of a queue without its head.
LEMMA TailPlaces ==
  ASSUME TypeOK, fromDongle # <<>>, fromDongle' = Tail(fromDongle)
  PROVE  /\ Len(fromDongle) \in Nat /\ 1 \in 1 .. Len(fromDongle)
         /\ Len(fromDongle') = Len(fromDongle) - 1
         /\ Head(fromDongle) = fromDongle[1]
         /\ Head(fromDongle) \in Frames /\ Head(fromDongle).call \in Calls
         /\ \A i \in 1 .. Len(fromDongle') :
              /\ i + 1 \in 1 .. Len(fromDongle)
              /\ \A c \in Calls : /\ AcceptAt(i, c)' <=> AcceptAt(i + 1, c)
                                  /\ ConfirmAt(i, c)' <=> ConfirmAt(i + 1, c)
         /\ \A i \in 1 .. Len(fromDongle) :
              i = 1 \/ (i - 1 \in 1 .. Len(fromDongle') /\ (i - 1) + 1 = i)
<1>1. fromDongle \in Seq(Frames)
  BY DEF TypeOK
<1>2. /\ Len(fromDongle) \in Nat /\ 1 \in 1 .. Len(fromDongle)
      /\ Head(fromDongle) = fromDongle[1] /\ fromDongle[1] \in Frames
      /\ Len(fromDongle') = Len(fromDongle) - 1
      /\ \A i \in 1 .. Len(fromDongle') :
           i + 1 \in 1 .. Len(fromDongle) /\ fromDongle'[i] = fromDongle[i + 1]
  BY <1>1, QueueFront
<1>3. Head(fromDongle).call \in Calls
  BY <1>2 DEF Frames
<1>4. \A i \in 1 .. Len(fromDongle') : \A c \in Calls :
        /\ AcceptAt(i, c)' <=> AcceptAt(i + 1, c)
        /\ ConfirmAt(i, c)' <=> ConfirmAt(i + 1, c)
  BY <1>2 DEF AcceptAt, ConfirmAt
<1>5. \A i \in 1 .. Len(fromDongle) :
        i = 1 \/ (i - 1 \in 1 .. Len(fromDongle') /\ (i - 1) + 1 = i)
  <2> DEFINE n == Len(fromDongle)
             m == Len(fromDongle')
  <2>1. n \in Nat /\ m = n - 1
    BY <1>2
  <2> HIDE DEF n, m
  <2>2. \A i \in 1 .. n : i = 1 \/ (i - 1 \in 1 .. m /\ (i - 1) + 1 = i)
    BY <2>1
  <2> QED BY <2>2 DEF n, m
<1> QED BY <1>2, <1>3, <1>4, <1>5

\* The SRSPs and AREQs of a queue with one frame more.
LEMMA PutPlaces ==
  ASSUME TypeOK, NEW c \in Calls, NEW kind \in {"srsp", "rpc", "areq"},
         NEW cmd \in Op[c].responses \cup {Op[c].confirm}, NEW ok \in BOOLEAN,
         Put(kind, c, cmd, ok), NEW n \in Nat, n = Len(fromDongle)
  PROVE  /\ Len(fromDongle') = n + 1
         /\ \A i \in 1 .. n : \A d \in Calls :
              /\ AcceptAt(i, d)' <=> AcceptAt(i, d)
              /\ ConfirmAt(i, d)' <=> ConfirmAt(i, d)
         /\ \A d \in Calls :
              /\ AcceptAt(n + 1, d)' <=> d = c /\ kind = "srsp" /\ ok /\ Op[c].confirm # None
              /\ ConfirmAt(n + 1, d)' <=> d = c /\ kind = "areq"
<1>1. /\ Len(fromDongle') = n + 1
      /\ \A i \in 1 .. n : fromDongle[i].call \in Calls /\ fromDongle'[i] = fromDongle[i]
      /\ fromDongle'[n + 1] = [kind |-> kind, call |-> c, cmd |-> cmd, ok |-> ok]
  BY PutFrame
<1>2. n + 1 \in 1 .. Len(fromDongle') /\ \A i \in 1 .. n : i \in 1 .. Len(fromDongle')
  BY <1>1
<1>3. \A i \in 1 .. n : \A d \in Calls :
           /\ AcceptAt(i, d)' <=> AcceptAt(i, d)
           /\ ConfirmAt(i, d)' <=> ConfirmAt(i, d)
  BY <1>1, <1>2 DEF AcceptAt, ConfirmAt
<1>4. /\ fromDongle'[n + 1].kind = kind /\ fromDongle'[n + 1].call = c
      /\ Accepts(fromDongle'[n + 1]) <=> kind = "srsp" /\ ok /\ Op[c].confirm # None
  BY <1>1 DEF Accepts
<1>5. \A d \in Calls :
        AcceptAt(n + 1, d)' <=> d = c /\ kind = "srsp" /\ ok /\ Op[c].confirm # None
  <2>1. \A d \in Calls : AcceptAt(n + 1, d)' <=> c = d /\ Accepts(fromDongle'[n + 1])
    BY <1>2, <1>4 DEF AcceptAt, Accepts
  <2> QED BY <1>4, <2>1
<1>6. \A d \in Calls : ConfirmAt(n + 1, d)' <=> d = c /\ kind = "areq"
  BY <1>2, <1>4 DEF ConfirmAt
<1> QED BY <1>1, <1>3, <1>5, <1>6

\* The SRSP in front belongs to the call that waits longest for one, and is its only.
LEMMA HeadIsOldest ==
  ASSUME ReplyInv, fromDongle # <<>>, IsReply(Head(fromDongle))
  PROVE  /\ phase[Head(fromDongle).call] = "srsp"
         /\ Head(fromDongle) = fromDongle[1]
         /\ \A i \in 2 .. Len(fromDongle) : ~AcceptAt(i, Head(fromDongle).call)
         /\ \A d \in Calls \ {Head(fromDongle).call} :
              phase[d] = "srsp" => at[Head(fromDongle).call] < at[d]
<1> DEFINE h == Head(fromDongle).call
<1>1. /\ Len(fromDongle) \in Nat /\ 1 \in 1 .. Len(fromDongle)
      /\ Head(fromDongle) = fromDongle[1] /\ h \in Calls /\ ReplyAt(1)
  <2>1. fromDongle \in Seq(Frames)
    BY DEF ReplyInv, TypeOK
  <2>2. /\ Len(fromDongle) \in Nat /\ 1 \in 1 .. Len(fromDongle)
        /\ Head(fromDongle) = fromDongle[1] /\ fromDongle[1] \in Frames
    BY <2>1, QueueFront
  <2> QED BY <2>2 DEF ReplyAt, Frames
<1>2. at[h] \in Nat /\ phase[h] = "srsp"
  BY <1>1 DEF ReplyInv, TypeOK, OnWire
<1>3. \A i \in 1 .. Len(fromDongle) :
        i # 1 /\ ReplyAt(i) => at[h] < at[fromDongle[i].call]
  BY <1>1 DEF ReplyInv, WireOrder
<1>4. ASSUME NEW i \in 2 .. Len(fromDongle), AcceptAt(i, h)
      PROVE  FALSE
  <2>1. i \in 1 .. Len(fromDongle) /\ i # 1 /\ ReplyAt(i) /\ fromDongle[i].call = h
    BY <1>1, <1>4 DEF AcceptAt, Accepts, ReplyAt, IsReply
  <2> QED BY <1>2, <1>3, <2>1
<1>5. ASSUME NEW d \in Calls \ {h}, phase[d] = "srsp"
      PROVE  at[h] < at[d]
  <2>1. CASE \E j \in 1 .. Len(toDongle) : toDongle[j] = d
    BY <1>1, <2>1 DEF ReplyInv, WireOrder
  <2>2. CASE \E j \in 1 .. Len(fromDongle) : ReplyAt(j) /\ fromDongle[j].call = d
    BY <1>1, <1>3, <2>2
  <2> QED BY <1>5, <2>1, <2>2 DEF ReplyInv, OnWire
<1> QED BY <1>1, <1>2, <1>4, <1>5

\* Calls that wait for the same AREQ are steady together.
LEMMA SteadyTogether ==
  ASSUME NEW c \in Calls, NEW d \in Calls, Op[c].confirm = Op[d].confirm
  PROVE  Steady(c) <=> Steady(d)
BY OpAssumption DEF Steady

\* The AREQ in front finds its call waiting, in front of every other call that
\* waits for the same command, and is its only.
LEMMA HeadConfirmIsFirst ==
  ASSUME ConfirmInv, fromDongle # <<>>, Head(fromDongle).kind = "areq",
         Steady(Head(fromDongle).call)
  PROVE  /\ phase[Head(fromDongle).call] = "confirm"
         /\ Head(fromDongle).call \in Takers(Head(fromDongle))
         /\ \A c \in Calls : IsFirst(c, Takers(Head(fromDongle))) =>
              c = Head(fromDongle).call
         /\ verdict[Head(fromDongle).call] # "working"
         /\ \A i \in 2 .. Len(fromDongle) : ~ConfirmAt(i, Head(fromDongle).call)
<1> DEFINE f == Head(fromDongle)
           h == f.call
<1> USE DEF ConfirmInv
<1>1. /\ Len(fromDongle) \in Nat /\ 1 \in 1 .. Len(fromDongle)
      /\ f = fromDongle[1] /\ h \in Calls /\ f \in Frames
  <2>1. fromDongle \in Seq(Frames)
    BY DEF ReplyInv, TypeOK
  <2>2. /\ Len(fromDongle) \in Nat /\ 1 \in 1 .. Len(fromDongle)
        /\ f = fromDongle[1] /\ fromDongle[1] \in Frames
    BY <2>1, QueueFront
  <2> QED BY <2>2 DEF Frames
<1>2. ConfirmAt(1, h) /\ Steady(h)
  BY <1>1 DEF ConfirmAt
<1>3. phase[h] = "confirm"
  BY <1>1, <1>2 DEF Owes
<1>4. f.cmd = Op[h].confirm /\ verdict[h] \in {"ok", "failed"}
  BY <1>1 DEF Ledger, Truthful, Accepts, Says
<1>5. h \in Takers(f)
  BY <1>1, <1>3, <1>4 DEF Takers
<1>6. issued[h] \in Nat /\ at[h] \in Nat
  BY <1>1 DEF ReplyInv, TypeOK
<1>7. ASSUME NEW d \in Calls, Op[d].confirm = Op[h].confirm
      PROVE  /\ verdict[d] = "working" => issued[h] < issued[d]
             /\ \A j \in 2 .. Len(fromDongle) : ConfirmAt(j, d) => issued[h] < issued[d]
  <2>1. \A j \in 2 .. Len(fromDongle) : j \in 1 .. Len(fromDongle) /\ 1 < j
    BY <1>1
  <2> QED BY <1>1, <1>2, <1>7, <2>1 DEF ConfirmOrder
<1>8. \A i \in 2 .. Len(fromDongle) : ~ConfirmAt(i, h)
  BY <1>1, <1>6, <1>7
<1>9. ASSUME NEW c \in Calls, IsFirst(c, Takers(f)), c # h
      PROVE  FALSE
  <2>1. phase[c] = "confirm" /\ Op[c].confirm = Op[h].confirm /\ at[c] <= at[h]
    BY <1>4, <1>5, <1>9 DEF IsFirst, Takers
  <2>2. Steady(c)
    BY <1>1, <1>2, <2>1, SteadyTogether
  <2>3. Owed(c)
    BY <2>1, <2>2 DEF Owes, Due
  <2>4. issued[h] < issued[c]
    <3>1. CASE verdict[c] = "working"
      BY <1>7, <2>1, <3>1
    <3>2. CASE \E j \in 1 .. Len(fromDongle) : ConfirmAt(j, c)
      <4>1. PICK j \in 1 .. Len(fromDongle) : ConfirmAt(j, c)
        BY <3>2
      <4>2. j # 1
        BY <1>1, <1>9, <4>1 DEF ConfirmAt
      <4>3. j \in 2 .. Len(fromDongle)
        BY <1>1, <4>2
      <4> QED BY <1>7, <2>1, <4>1, <4>3
    <3> QED BY <2>3, <3>1, <3>2 DEF Owed
  <2>5. at[h] < at[c]
    BY <1>1, <1>3, <2>1, <2>4 DEF Issue
  <2>6. at[c] \in Nat
    BY DEF ReplyInv, TypeOK
  <2> QED BY <1>6, <2>1, <2>5, <2>6
<1> QED BY <1>3, <1>4, <1>5, <1>8, <1>9

\* What OnFrame does to the list when nothing was lost: t is the call that takes
\* the frame, if any.
FrameMoves(f, t) ==
  /\ \A d \in Calls \ {t} :
       /\ at'[d] = at[d] /\ confirmed'[d] = confirmed[d]
       /\ phase'[d] = phase[d] \/ (phase[d] = "expired" /\ phase'[d] = "done")
  /\ IsReply(f) =>
       /\ t = f.call /\ phase[t] = "srsp" /\ confirmed'[t] = confirmed[t]
       /\ Accepts(f)  => phase'[t] = "confirm" /\ at'[t] = tail /\ tail' = tail + 1
       /\ ~Accepts(f) => phase'[t] = "done" /\ tail' = tail
  /\ ~IsReply(f) =>
       /\ tail' = tail
       /\ \/ t = NoCall /\ Takers(f) = {}
          \/ /\ t \in Calls /\ IsFirst(t, Takers(f))
             /\ phase[t] = "confirm" /\ Op[t].confirm = f.cmd
             /\ phase'[t] = "done" /\ confirmed'[t] = f.call

\* Every frame but a lost one moves one call, as FrameMoves says.
LEMMA FrameMovesOne ==
  ASSUME ReplyInv, OnFrame
  PROVE  \E t \in Calls \cup {NoCall} : FrameMoves(Head(fromDongle), t)
<1> DEFINE f == Head(fromDongle)
           h == f.call
<1> USE DEF ReplyInv, TypeOK
<1>1. f \in Frames /\ h \in Calls /\ fromDongle # <<>> /\ f = fromDongle[1]
  <2>1. fromDongle \in Seq(Frames) /\ fromDongle # <<>>
    BY DEF OnFrame
  <2>2. f = fromDongle[1] /\ fromDongle[1] \in Frames
    BY <2>1, QueueFront
  <2> QED BY <2>1, <2>2 DEF Frames
<1>2. IsReply(f) => h \in Takers(f)
  <2> SUFFICES ASSUME IsReply(f)
               PROVE  h \in Takers(f)
    OBVIOUS
  <2>1. ReplyAt(1) /\ 1 \in 1 .. Len(fromDongle)
    BY <1>1, QueueFront DEF ReplyAt
  <2> QED BY <1>1, <2>1 DEF OnWire, Takers, IsReply
<1>3. f.kind = "areq" <=> ~IsReply(f)
  BY <1>1 DEF Frames, IsReply
<1>4. CASE Unhandled(f)
  <2>1. ~IsReply(f) /\ Takers(f) = {}
    BY <1>2, <1>4 DEF Unhandled
  <2>2. \A d \in Calls : phase'[d] = phase[d] \/ (phase[d] = "expired" /\ phase'[d] = "done")
    BY <1>4 DEF Unhandled, Swept
  <2>3. FrameMoves(f, NoCall)
    BY <1>4, <2>1, <2>2 DEF FrameMoves, Unhandled
  <2> QED BY <2>3
<1>5. ASSUME NEW c \in Calls, Consume(c, f)
      PROVE  FrameMoves(f, c)
  <2>1. \A d \in Calls \ {c} :
          /\ at'[d] = at[d] /\ confirmed'[d] = confirmed[d]
          /\ phase'[d] = phase[d] \/ (phase[d] = "expired" /\ phase'[d] = "done")
    <3>1. \A d \in Calls \ {c} : confirmed'[d] = confirmed[d]
      BY <1>5 DEF Consume
    <3>2. CASE WaitFor(c)
      BY <3>1, <3>2 DEF WaitFor, Swept
    <3>3. CASE Resolve(c, f)
      BY <3>1, <3>3 DEF Resolve, Swept
    <3> QED BY <1>5, <3>2, <3>3 DEF Consume
  <2>2. CASE IsReply(f)
    <3>1. c = h
      BY <1>1, <1>5, <2>2, HeadReplyIsFirst DEF Consume
    <3>2. phase[c] = "srsp"
      BY <1>1, <2>2, <3>1, HeadIsOldest
    <3>3. StartsWait(c, f) <=> Accepts(f)
      BY <3>1 DEF StartsWait, Accepts
    <3>4. confirmed' = confirmed
      BY <1>3, <1>5, <2>2 DEF Consume
    <3>5. CASE Accepts(f)
      BY <1>5, <2>1, <2>2, <3>1, <3>2, <3>3, <3>4, <3>5 DEF Consume, WaitFor, FrameMoves
    <3>6. CASE ~Accepts(f)
      BY <1>5, <2>1, <2>2, <3>1, <3>2, <3>3, <3>4, <3>6 DEF Consume, Resolve, FrameMoves
    <3> QED BY <3>5, <3>6
  <2>3. CASE ~IsReply(f)
    <3>1. phase[c] = "confirm" /\ Op[c].confirm = f.cmd /\ IsFirst(c, Takers(f))
      BY <1>3, <1>5, <2>3 DEF Consume, IsFirst, Takers
    <3>2. Resolve(c, f) /\ confirmed' = [confirmed EXCEPT ![c] = h]
      BY <1>3, <1>5, <2>3, <3>1 DEF Consume
    <3> QED BY <2>1, <2>3, <3>1, <3>2 DEF Resolve, FrameMoves
  <2> QED BY <2>2, <2>3
<1> QED BY <1>4, <1>5 DEF OnFrame

\* A call that is steady after a step was steady before it.
LEMMA SteadyBack ==
  ASSUME ListenInv, [Next]_vars, NEW c \in Calls, Steady(c)'
  PROVE  Steady(c)
<1>1. \A d \in Calls : result[d] = "timeout" => result'[d] = "timeout"
  <2>1. CASE Next
    BY <2>1, FinalStep
  <2>2. CASE UNCHANGED vars
    BY <2>2 DEF vars
  <2> QED BY <2>1, <2>2
<1> QED BY <1>1 DEF Steady

\* A received frame: the handlers of WaitFor stay in the order of the calls,
LEMMA IssueFrame == ConfirmInv /\ OnFrame => Issue'
<1> SUFFICES ASSUME ConfirmInv, OnFrame
             PROVE  Issue'
  OBVIOUS
<1> DEFINE f == Head(fromDongle)
           h == f.call
<1>1. /\ ReplyInv /\ Issue /\ Positions /\ fromDongle # <<>> /\ issued' = issued
      /\ tail \in Nat /\ \A d \in Calls : at[d] \in Nat /\ issued[d] \in Nat
  BY DEF ConfirmInv, ReplyInv, TypeOK, OnFrame
<1>2. PICK t \in Calls \cup {NoCall} : FrameMoves(f, t)
  BY <1>1, FrameMovesOne
<1>3. h \in Calls
  BY <1>1, TailPlaces DEF ReplyInv, OnFrame
<1>4. IsReply(f) => t = h /\ \A d \in Calls \ {t} : phase[d] = "srsp" => issued[t] < issued[d]
  <2>1. IsReply(f) => \A d \in Calls \ {h} : phase[d] = "srsp" => at[h] < at[d]
    BY <1>1, HeadIsOldest
  <2> QED BY <1>1, <1>2, <1>3, <2>1 DEF Issue, FrameMoves
<1>5. \A d \in Calls \ {t} :
        /\ at'[d] = at[d]
        /\ phase'[d] = phase[d] \/ (phase[d] = "expired" /\ phase'[d] = "done")
  BY <1>2 DEF FrameMoves
<1>6. t \in Calls => \/ phase[t] = "confirm" /\ phase'[t] = "done" /\ tail' = tail
                     \/ phase[t] = "srsp" /\ phase'[t] = "done" /\ tail' = tail /\ IsReply(f)
                     \/ /\ phase[t] = "srsp" /\ phase'[t] = "confirm" /\ IsReply(f)
                        /\ at'[t] = tail /\ tail' = tail + 1
  BY <1>2, CallsAssumption DEF FrameMoves
<1>7. tail' \in {tail, tail + 1}
  BY <1>2 DEF FrameMoves
<1>8. \A d \in Calls : phase'[d] # "idle" => phase[d] # "idle"
  BY <1>5, <1>6
<1>9. ASSUME NEW c \in Calls
      PROVE  /\ phase'[c] = "srsp" => issued'[c] = at'[c]
             /\ phase'[c] # "idle" => issued'[c] < tail'
  <2>1. phase'[c] = "srsp" => issued'[c] = at'[c]
    BY <1>1, <1>5, <1>6 DEF Issue
  <2>2. phase'[c] # "idle" => issued'[c] < tail'
    BY <1>1, <1>7, <1>8 DEF Issue
  <2> QED BY <2>1, <2>2
<1>10. ASSUME NEW c \in Calls, NEW d \in Calls
       PROVE  phase'[c] \in {"confirm", "expired", "done"} /\ phase'[d] = "srsp" =>
                issued'[c] < issued'[d]
  <2>1. phase'[d] = "srsp" => d # t /\ phase[d] = "srsp"
    BY <1>5, <1>6
  <2> QED BY <1>1, <1>4, <1>5, <1>6, <2>1 DEF Issue
<1>11. ASSUME NEW c \in Calls, NEW d \in Calls
       PROVE  phase'[c] # "idle" /\ phase'[d] # "idle" /\ issued'[c] = issued'[d] => c = d
  BY <1>1, <1>8 DEF Issue
<1>12. ASSUME NEW c \in Calls, NEW d \in Calls,
              phase'[c] = "confirm", phase'[d] = "confirm", issued'[c] < issued'[d]
       PROVE  at'[c] < at'[d]
  <2>1. c # d
    BY <1>1, <1>12
  <2>2. CASE c # t /\ d # t
    BY <1>1, <1>5, <1>12, <2>2 DEF Issue
  <2>3. CASE c = t
    <3>1. phase[d] = "confirm" /\ phase[t] = "srsp"
      BY <1>5, <1>6, <1>12, <2>1, <2>3
    <3>2. issued[d] < issued[t]
      BY <2>3, <3>1, <1>1 DEF Issue
    <3> QED BY <1>1, <1>12, <2>3, <3>2
  <2>4. CASE d = t
    <3>1. phase[c] = "confirm" /\ at'[d] = tail /\ at'[c] = at[c]
      BY <1>5, <1>6, <1>12, <2>1, <2>4
    <3> QED BY <1>1, <3>1 DEF Positions
  <2> QED BY <2>2, <2>3, <2>4
<1> QED BY <1>9, <1>10, <1>11, <1>12 DEF Issue

\* ... each AREQ keeps its waiting call,
LEMMA OwesFrame == ConfirmInv /\ OnFrame => Owes'
<1> SUFFICES ASSUME ConfirmInv, OnFrame
             PROVE  Owes'
  OBVIOUS
<1>1. /\ ReplyInv /\ ListenInv /\ Owes /\ TypeOK /\ fromDongle # <<>>
      /\ fromDongle' = Tail(fromDongle) /\ verdict' = verdict
  BY DEF ConfirmInv, CheckedInv, ReplyInv, OnFrame
<1>f. PICK f \in Frames, h \in Calls : f = Head(fromDongle) /\ h = f.call
  BY <1>1, TailPlaces
<1>2. PICK t \in Calls \cup {NoCall} : FrameMoves(f, t)
  BY <1>1, <1>f, FrameMovesOne
<1>3. /\ Len(fromDongle) \in Nat /\ 1 \in 1 .. Len(fromDongle)
      /\ Len(fromDongle') = Len(fromDongle) - 1
      /\ f = fromDongle[1] /\ f \in Frames /\ h \in Calls /\ h = f.call
      /\ \A i \in 1 .. Len(fromDongle') :
           /\ i + 1 \in 1 .. Len(fromDongle)
           /\ \A c \in Calls : /\ AcceptAt(i, c)' <=> AcceptAt(i + 1, c)
                               /\ ConfirmAt(i, c)' <=> ConfirmAt(i + 1, c)
      /\ \A i \in 1 .. Len(fromDongle) :
           i = 1 \/ (i - 1 \in 1 .. Len(fromDongle') /\ (i - 1) + 1 = i)
  BY <1>1, <1>f, TailPlaces
<1>4. \A c \in Calls : Steady(c)' => Steady(c)
  BY <1>1, SteadyBack DEF Next
<1>5. \A c \in Calls : /\ AcceptAt(1, c) <=> c = h /\ Accepts(f)
                       /\ ConfirmAt(1, c) <=> c = h /\ ~IsReply(f)
  BY <1>3 DEF AcceptAt, ConfirmAt, Frames, IsReply
<1>6. ASSUME NEW c \in Calls
      PROVE  /\ (\E i \in 1 .. Len(fromDongle) : AcceptAt(i, c)) <=>
                  (c = h /\ Accepts(f)) \/ \E i \in 1 .. Len(fromDongle') : AcceptAt(i, c)'
             /\ (\E i \in 1 .. Len(fromDongle) : ConfirmAt(i, c)) <=>
                  (c = h /\ ~IsReply(f)) \/ \E i \in 1 .. Len(fromDongle') : ConfirmAt(i, c)'
  <2>1. ASSUME NEW i \in 1 .. Len(fromDongle), i # 1
        PROVE  \E j \in 1 .. Len(fromDongle') : /\ AcceptAt(j, c)' <=> AcceptAt(i, c)
                                                /\ ConfirmAt(j, c)' <=> ConfirmAt(i, c)
    <3>1. PICK j \in 1 .. Len(fromDongle') : j + 1 = i
      BY <1>3, <2>1
    <3> QED BY <1>3, <3>1
  <2>2. ASSUME NEW j \in 1 .. Len(fromDongle')
        PROVE  \E i \in 1 .. Len(fromDongle) : /\ AcceptAt(j, c)' <=> AcceptAt(i, c)
                                               /\ ConfirmAt(j, c)' <=> ConfirmAt(i, c)
    BY <1>3
  <2>3. 1 \in 1 .. Len(fromDongle)
    BY <1>3
  <2> QED BY <1>5, <2>1, <2>2, <2>3
<1>7. Accepts(f) => IsReply(f)
  BY DEF Accepts, IsReply
\* The steady calls other than that of the frame are not touched.
<1>8. ASSUME NEW c \in Calls, Steady(c), c # h
      PROVE  c # t
  <2>1. CASE IsReply(f)
    BY <1>2, <1>3, <1>8, <2>1 DEF FrameMoves
  <2>2. CASE ~IsReply(f) /\ c = t
    <3>1. Op[c].confirm = f.cmd /\ IsFirst(t, Takers(f))
      BY <1>2, <2>2, CallsAssumption DEF FrameMoves
    <3>2. f.kind = "areq"
      BY <1>3, <2>2 DEF Frames, IsReply
    <3>3. f.cmd = Op[h].confirm
      BY <1>3, <3>2 DEF ConfirmInv, Ledger, Truthful
    <3>4. Steady(h)
      BY <1>3, <1>8, <3>1, <3>3, SteadyTogether
    <3> QED BY <1>1, <1>f, <1>8, <2>2, <3>1, <3>2, <3>4, HeadConfirmIsFirst
  <2> QED BY <2>1, <2>2
<1>9. ASSUME NEW c \in Calls, Steady(c), c # h
      PROVE  phase'[c] = "confirm" <=> phase[c] = "confirm"
  BY <1>2, <1>8, <1>9 DEF FrameMoves
<1>10. ASSUME IsReply(f)
       PROVE  /\ phase[h] = "srsp" /\ (phase'[h] = "confirm" <=> Accepts(f))
              /\ \A i \in 1 .. Len(fromDongle') : ~AcceptAt(i, h)'
  <2>1. phase[h] = "srsp" /\ \A i \in 2 .. Len(fromDongle) : ~AcceptAt(i, h)
    BY <1>1, <1>f, <1>10, HeadIsOldest
  <2>2. \A i \in 1 .. Len(fromDongle') : i + 1 \in 2 .. Len(fromDongle)
    BY <1>3
  <2> QED BY <1>2, <1>3, <1>10, <2>1, <2>2 DEF FrameMoves
<1>11. ASSUME ~IsReply(f), Steady(h)
       PROVE  /\ phase[h] = "confirm" /\ phase'[h] # "confirm" /\ verdict[h] # "working"
              /\ \A i \in 1 .. Len(fromDongle') : ~ConfirmAt(i, h)' /\ ~AcceptAt(i, h)'
  <2>1. f.kind = "areq"
    BY <1>3, <1>11 DEF Frames, IsReply
  <2>2. /\ phase[h] = "confirm" /\ h \in Takers(f) /\ verdict[h] # "working"
        /\ \A c \in Calls : IsFirst(c, Takers(f)) => c = h
        /\ \A i \in 2 .. Len(fromDongle) : ~ConfirmAt(i, h)
    BY <1>1, <1>f, <1>11, <2>1, HeadConfirmIsFirst
  <2>3. t = h /\ phase'[h] = "done"
    BY <1>2, <1>11, <2>2 DEF FrameMoves
  <2>4. \A i \in 1 .. Len(fromDongle) : ~AcceptAt(i, h)
    BY <1>1, <2>2 DEF ReplyInv, OnWire, AcceptAt, Accepts, ReplyAt, IsReply
  <2>5. \A i \in 1 .. Len(fromDongle') : i + 1 \in 2 .. Len(fromDongle)
    BY <1>3
  <2> QED BY <1>3, <2>2, <2>3, <2>4, <2>5
<1>12. ASSUME NEW c \in Calls, Steady(c)
       PROVE  Due(c)' <=> Owed(c)'
  <2>1. Due(c) <=> Owed(c)
    BY <1>1, <1>12 DEF Owes
  <2>2. CASE c # h
    BY <1>1, <1>6, <1>9, <1>12, <2>1, <2>2 DEF Due, Owed
  <2>3. CASE c = h /\ IsReply(f)
    BY <1>1, <1>6, <1>10, <2>1, <2>3 DEF Due, Owed
  <2>4. CASE c = h /\ ~IsReply(f)
    BY <1>1, <1>11, <1>12, <2>4 DEF Due, Owed
  <2> QED BY <2>2, <2>3, <2>4
<1>13. ASSUME NEW c \in Calls, NEW i \in 1 .. Len(fromDongle'), Steady(c), ConfirmAt(i, c)'
       PROVE  phase'[c] = "confirm" \/ \E j \in 1 .. (i - 1) : AcceptAt(j, c)'
  <2>1. ConfirmAt(i + 1, c) /\ i + 1 \in 1 .. Len(fromDongle)
    BY <1>3, <1>13
  <2>2. phase[c] = "confirm" \/ \E j \in 1 .. ((i + 1) - 1) : AcceptAt(j, c)
    BY <1>1, <1>13, <2>1 DEF Owes
  <2>3. CASE phase[c] = "confirm"
    BY <1>9, <1>10, <1>11, <1>13, <2>3
  <2>4. CASE \E j \in 1 .. ((i + 1) - 1) : AcceptAt(j, c)
    <3>1. PICK j \in 1 .. ((i + 1) - 1) : AcceptAt(j, c)
      BY <2>4
    <3>2. CASE j = 1
      BY <1>5, <1>7, <1>10, <3>1, <3>2
    <3>3. CASE j # 1
      <4>1. j \in 1 .. Len(fromDongle) /\ j - 1 \in 1 .. (i - 1)
        BY <1>3, <3>1, <3>3
      <4>2. (j - 1) \in 1 .. Len(fromDongle') /\ (j - 1) + 1 = j
        BY <1>3, <3>3, <4>1
      <4> DEFINE k == j - 1
      <4>3. k \in 1 .. (i - 1) /\ k \in 1 .. Len(fromDongle') /\ k + 1 = j
        BY <4>1, <4>2
      <4> HIDE DEF k
      <4>4. AcceptAt(k, c)'
        BY <1>3, <3>1, <4>3
      <4> QED BY <4>3, <4>4
    <3> QED BY <3>2, <3>3
  <2> QED BY <2>2, <2>3, <2>4
<1> QED BY <1>4, <1>12, <1>13 DEF Owes

\* ... and the AREQs stay in order; the one received is consumed by its own call.
LEMMA OrderFrame == ConfirmInv /\ OnFrame => (ConfirmOrder /\ OwnConfirms)'
<1> SUFFICES ASSUME ConfirmInv, OnFrame
             PROVE  (ConfirmOrder /\ OwnConfirms)'
  OBVIOUS
<1>1. /\ ReplyInv /\ ListenInv /\ TypeOK /\ fromDongle # <<>>
      /\ fromDongle' = Tail(fromDongle) /\ UNCHANGED <<verdict, issued>>
  BY DEF ConfirmInv, CheckedInv, ReplyInv, OnFrame
<1>2. /\ Len(fromDongle) \in Nat /\ Len(fromDongle') = Len(fromDongle) - 1
      /\ \A i \in 1 .. Len(fromDongle') :
           /\ i + 1 \in 1 .. Len(fromDongle)
           /\ \A c \in Calls : ConfirmAt(i, c)' <=> ConfirmAt(i + 1, c)
  BY <1>1, TailPlaces
<1>3. \A c \in Calls : Steady(c)' => Steady(c)
  BY <1>1, SteadyBack DEF Next
<1>4. ConfirmOrder'
  <2> SUFFICES ASSUME NEW c \in Calls, NEW d \in Calls, NEW i \in 1 .. Len(fromDongle'),
                      Steady(c), ConfirmAt(i, c)', Op[c].confirm = Op[d].confirm
               PROVE  /\ verdict'[d] = "working" => issued'[c] < issued'[d]
                      /\ \A j \in 1 .. Len(fromDongle') :
                           i < j /\ ConfirmAt(j, d)' => issued'[c] < issued'[d]
    BY <1>3 DEF ConfirmOrder
  <2>1. i + 1 \in 1 .. Len(fromDongle) /\ ConfirmAt(i + 1, c)
    BY <1>2
  <2>2. \A j \in 1 .. Len(fromDongle') : i < j => i + 1 < j + 1
    BY <1>2
  <2> QED BY <1>1, <1>2, <2>1, <2>2 DEF ConfirmInv, ConfirmOrder
<1>5. OwnConfirms'
  <2> SUFFICES ASSUME NEW c \in Calls, ~Op[c].timed
               PROVE  confirmed'[c] \in {NoCall, c}
    BY DEF OwnConfirms
  <2>1. confirmed[c] \in {NoCall, c}
    BY DEF ConfirmInv, OwnConfirms
  <2>2. PICK f \in Frames, h \in Calls : f = Head(fromDongle) /\ h = f.call /\ f = fromDongle[1]
                                         /\ 1 \in 1 .. Len(fromDongle)
    BY <1>1, TailPlaces
  <2>3. PICK t \in Calls \cup {NoCall} : FrameMoves(f, t)
    BY <1>1, <2>2, FrameMovesOne
  <2>4. CASE c # t \/ IsReply(f)
    BY <2>1, <2>3, <2>4 DEF FrameMoves
  <2>5. CASE c = t /\ ~IsReply(f)
    <3>1. Op[c].confirm = f.cmd /\ IsFirst(c, Takers(f)) /\ confirmed'[c] = h
      BY <2>2, <2>3, <2>5, CallsAssumption DEF FrameMoves
    <3>2. f.kind = "areq"
      BY <2>5 DEF Frames, IsReply
    <3>3. f.cmd = Op[h].confirm
      BY <2>2, <3>2 DEF ConfirmInv, Ledger, Truthful
    <3>4. Steady(h)
      <4>1. Steady(c)
        BY DEF Steady
      <4> QED BY <3>1, <3>3, <4>1, SteadyTogether
    <3> QED BY <1>1, <2>2, <3>1, <3>2, <3>4, HeadConfirmIsFirst
  <2> QED BY <2>4, <2>5
<1> QED BY <1>4, <1>5

\* A call that was not made yet has nothing on the wire and nothing to come.
LEMMA IdleIsNowhere ==
  ASSUME ConfirmInv, NEW c \in Calls, phase[c] = "idle", NEW i \in 1 .. Len(fromDongle)
  PROVE  ~AcceptAt(i, c) /\ ~ConfirmAt(i, c)
<1>1. ~AcceptAt(i, c)
  BY DEF ConfirmInv, ReplyInv, OnWire, AcceptAt, Accepts, ReplyAt, IsReply
<1>2. ~ConfirmAt(i, c)
  <2>1. verdict[c] = "none"
    BY DEF ConfirmInv, Ledger, Judged, TypeOK
  <2> QED BY <2>1 DEF ConfirmInv, Ledger, Truthful, ConfirmAt, Accepts, Says
<1> QED BY <1>1, <1>2

\* RawSReq puts a call behind all others.
LEMMA ConfirmStepCall ==
  ASSUME ConfirmInv, NEW c \in Calls, RawSReq(c), result'[c] # "oversize"
  PROVE  (Issue /\ Owes /\ ConfirmOrder /\ OwnConfirms)'
<1>1. /\ ReplyInv /\ ListenInv /\ Issue /\ Owes /\ ConfirmOrder /\ OwnConfirms /\ Positions
      /\ tail \in Nat /\ \A d \in Calls : at[d] \in Nat /\ issued[d] \in Nat
  BY DEF ConfirmInv, CheckedInv, ReplyInv, TypeOK
<1>2. /\ phase[c] = "idle" /\ tail' = tail + 1
      /\ \A d \in Calls : /\ phase'[d]  = IF d = c THEN "srsp" ELSE phase[d]
                          /\ at'[d]     = IF d = c THEN tail ELSE at[d]
                          /\ issued'[d] = IF d = c THEN tail ELSE issued[d]
      /\ UNCHANGED <<fromDongle, verdict, confirmed>>
  BY DEF RawSReq, ConfirmInv, ReplyInv, TypeOK
<1>3. \A d \in Calls : Steady(d)' => Steady(d)
  BY <1>1, SteadyBack DEF Next
<1>4. Issue'
  <2>1. \A d \in Calls : phase[d] # "idle" => at[d] < tail /\ issued[d] < tail
    BY <1>1 DEF Positions, Issue
  <2>2. \A d \in Calls : /\ phase'[d] = "srsp" => issued'[d] = at'[d]
                         /\ phase'[d] # "idle" => issued'[d] < tail'
    BY <1>1, <1>2 DEF Issue
  <2>3. \A d, e \in Calls :
          phase'[d] \in {"confirm", "expired", "done"} /\ phase'[e] = "srsp" =>
            issued'[d] < issued'[e]
    BY <1>1, <1>2, <2>1 DEF Issue
  <2>4. \A d, e \in Calls :
          phase'[d] # "idle" /\ phase'[e] # "idle" /\ issued'[d] = issued'[e] => d = e
    BY <1>1, <1>2, <2>1 DEF Issue
  <2>5. \A d, e \in Calls :
          phase'[d] = "confirm" /\ phase'[e] = "confirm" /\ issued'[d] < issued'[e] =>
            at'[d] < at'[e]
    BY <1>1, <1>2 DEF Issue
  <2> QED BY <2>2, <2>3, <2>4, <2>5 DEF Issue
<1>5. \A d \in Calls, i \in 1 .. Len(fromDongle) :
        AcceptAt(i, d) \/ ConfirmAt(i, d) => d # c
  BY <1>2, IdleIsNowhere
<1>6. verdict[c] = "none"
  BY <1>2 DEF ConfirmInv, Ledger, Judged, TypeOK
<1>7. ASSUME NEW d \in Calls
      PROVE  /\ Due(d)' <=> Due(d)
             /\ Owed(d)' <=> Owed(d)
             /\ \A i \in 1 .. Len(fromDongle) : /\ AcceptAt(i, d)' <=> AcceptAt(i, d)
                                                /\ ConfirmAt(i, d)' <=> ConfirmAt(i, d)
  BY <1>2 DEF Due, Owed, AcceptAt, ConfirmAt
<1>8. Owes'
  <2>1. ASSUME NEW d \in Calls, Steady(d)'
        PROVE  Due(d)' <=> Owed(d)'
    BY <1>1, <1>3, <1>7, <2>1 DEF Owes
  <2>2. ASSUME NEW d \in Calls, NEW i \in 1 .. Len(fromDongle), Steady(d)', ConfirmAt(i, d)'
        PROVE  phase'[d] = "confirm" \/ \E j \in 1 .. (i - 1) : AcceptAt(j, d)'
    <3>1. ConfirmAt(i, d)
      BY <1>7, <2>2
    <3>2. phase[d] = "confirm" \/ \E j \in 1 .. (i - 1) : AcceptAt(j, d)
      BY <1>1, <1>3, <2>2, <3>1 DEF Owes
    <3>3. \A j \in 1 .. (i - 1) : AcceptAt(j, d) => AcceptAt(j, d)'
      BY <1>2 DEF AcceptAt
    <3> QED BY <1>2, <3>2, <3>3
  <2> QED BY <1>2, <2>1, <2>2 DEF Owes
<1>9. ConfirmOrder'
  <2> SUFFICES ASSUME NEW d \in Calls, NEW e \in Calls, NEW i \in 1 .. Len(fromDongle'),
                      Steady(d)', ConfirmAt(i, d)', Op[d].confirm = Op[e].confirm
               PROVE  /\ verdict'[e] = "working" => issued'[d] < issued'[e]
                      /\ \A j \in 1 .. Len(fromDongle') :
                           i < j /\ ConfirmAt(j, e)' => issued'[d] < issued'[e]
    BY DEF ConfirmOrder
  <2>1. i \in 1 .. Len(fromDongle) /\ Steady(d) /\ ConfirmAt(i, d)
    BY <1>2, <1>3, <1>7
  <2>2. d # c /\ issued'[d] = issued[d]
    BY <1>2, <1>5, <2>1
  <2>3. verdict[e] = "working" => issued[d] < issued[e] /\ e # c
    BY <1>1, <1>6, <2>1 DEF ConfirmOrder
  <2>4. \A j \in 1 .. Len(fromDongle) :
          i < j /\ ConfirmAt(j, e) => issued[d] < issued[e] /\ e # c
    BY <1>1, <1>5, <2>1 DEF ConfirmOrder
  <2> QED BY <1>2, <1>7, <2>2, <2>3, <2>4
<1>10. OwnConfirms'
  BY <1>1, <1>2 DEF OwnConfirms
<1> QED BY <1>4, <1>8, <1>9, <1>10

\* A timer changes nothing for the calls without one, and when it finds its call
\* waiting no call with a timer is steady any more.
LEMMA ConfirmStepTimer ==
  ASSUME ConfirmInv, NEW c \in Calls, OnTimer(c)
  PROVE  (Issue /\ Owes /\ ConfirmOrder /\ OwnConfirms)'
<1>1. /\ ListenInv /\ Issue /\ Owes /\ ConfirmOrder /\ OwnConfirms
      /\ UNCHANGED <<at, tail, issued, fromDongle, verdict, confirmed>>
  BY DEF ConfirmInv, CheckedInv, OnTimer
<1>2. \A d \in Calls : \/ phase'[d] = phase[d]
                       \/ d = c /\ phase[d] = "confirm" /\ phase'[d] = "expired"
  BY DEF ConfirmInv, ReplyInv, TypeOK, OnTimer
<1>3. Op[c].timed /\ (phase[c] = "confirm" => result'[c] = "timeout")
  BY DEF OnTimer, ConfirmInv, Ledger, Judged, ReplyInv, TypeOK
<1>4. \A d \in Calls : Steady(d)' => Steady(d) /\ phase'[d] = phase[d]
  <2>1. \A d \in Calls : Steady(d)' => Steady(d)
    BY <1>1, SteadyBack DEF Next
  <2> QED BY <1>2, <1>3, <2>1 DEF Steady
<1>5. Issue'
  BY <1>1, <1>2 DEF Issue
<1>6. ASSUME NEW d \in Calls
      PROVE  /\ phase'[d] = phase[d] => (Due(d)' <=> Due(d))
             /\ Owed(d)' <=> Owed(d)
             /\ \A i \in 1 .. Len(fromDongle) : /\ AcceptAt(i, d)' <=> AcceptAt(i, d)
                                                /\ ConfirmAt(i, d)' <=> ConfirmAt(i, d)
  BY <1>1 DEF Due, Owed, AcceptAt, ConfirmAt
<1>7. Owes'
  <2>1. ASSUME NEW d \in Calls, Steady(d)'
        PROVE  Due(d)' <=> Owed(d)'
    BY <1>1, <1>4, <1>6, <2>1 DEF Owes
  <2>2. ASSUME NEW d \in Calls, NEW i \in 1 .. Len(fromDongle), Steady(d)', ConfirmAt(i, d)'
        PROVE  phase'[d] = "confirm" \/ \E j \in 1 .. (i - 1) : AcceptAt(j, d)'
    <3>1. ConfirmAt(i, d)
      BY <1>6, <2>2
    <3>2. phase[d] = "confirm" \/ \E j \in 1 .. (i - 1) : AcceptAt(j, d)
      BY <1>1, <1>4, <2>2, <3>1 DEF Owes
    <3>3. \A j \in 1 .. (i - 1) : AcceptAt(j, d) => AcceptAt(j, d)'
      BY <1>1 DEF AcceptAt
    <3> QED BY <1>4, <2>2, <3>2, <3>3
  <2> QED BY <1>1, <2>1, <2>2 DEF Owes
<1>8. ConfirmOrder'
  <2> SUFFICES ASSUME NEW d \in Calls, NEW e \in Calls, NEW i \in 1 .. Len(fromDongle'),
                      Steady(d)', ConfirmAt(i, d)', Op[d].confirm = Op[e].confirm
               PROVE  /\ verdict'[e] = "working" => issued'[d] < issued'[e]
                      /\ \A j \in 1 .. Len(fromDongle') :
                           i < j /\ ConfirmAt(j, e)' => issued'[d] < issued'[e]
    BY DEF ConfirmOrder
  <2>1. i \in 1 .. Len(fromDongle) /\ Steady(d) /\ ConfirmAt(i, d)
    BY <1>1, <1>4, <1>6
  <2> QED BY <1>1, <1>6, <2>1 DEF ConfirmOrder
<1>9. OwnConfirms'
  BY <1>1 DEF OwnConfirms
<1> QED BY <1>5, <1>7, <1>8, <1>9

\* The dongle serves the oldest SREQ: its confirm, if any, is due after all others.
LEMMA ConfirmStepServe ==
  ConfirmInv /\ DongleServe => (Issue /\ Owes /\ ConfirmOrder /\ OwnConfirms)'
<1> SUFFICES ASSUME ConfirmInv, DongleServe
             PROVE  (Issue /\ Owes /\ ConfirmOrder /\ OwnConfirms)'
  OBVIOUS
<1>1. /\ TypeOK /\ ReplyInv /\ ListenInv /\ Issue /\ Owes /\ ConfirmOrder /\ OwnConfirms
      /\ UNCHANGED <<phase, at, tail, issued, result, confirmed>> /\ toDongle # <<>>
      /\ \A d \in Calls : at[d] \in Nat /\ issued[d] \in Nat
  BY DEF ConfirmInv, CheckedInv, ReplyInv, TypeOK, DongleServe, hostVars
<1>2. PICK c \in Calls : c = Head(toDongle) /\ c = toDongle[1] /\ 1 \in 1 .. Len(toDongle)
  BY <1>1, QueueFront DEF TypeOK
<1>3. PICK n \in Nat : n = Len(fromDongle)
  BY <1>1, LenProperties DEF TypeOK
<1>4. PICK kind \in {"srsp", "rpc"}, cmd \in Op[c].responses, ok \in BOOLEAN :
        /\ Put(kind, c, cmd, ok)
        /\ kind = "rpc" => ok = FALSE
        /\ verdict' = [verdict EXCEPT ![c] =
             IF ~ok THEN "failed"
             ELSE IF Op[c].confirm = None THEN "ok" ELSE "working"]
  BY <1>2, OpAssumption DEF DongleServe
<1>5. /\ verdict[c] = "none" /\ phase[c] = "srsp"
      /\ verdict'[c] = "working" <=> kind = "srsp" /\ ok /\ Op[c].confirm # None
      /\ \A d \in Calls \ {c} : verdict'[d] = verdict[d]
  <2>1. verdict[c] = "none" /\ phase[c] = "srsp"
    BY <1>1, <1>2 DEF ConfirmInv, Ledger, Unjudged, ReplyInv, OnWire
  <2>2. verdict'[c] = "working" <=> kind = "srsp" /\ ok /\ Op[c].confirm # None
    BY <1>1, <1>4 DEF TypeOK
  <2> QED BY <1>1, <1>4, <2>1, <2>2 DEF TypeOK
<1>6. /\ Len(fromDongle') = n + 1
      /\ \A i \in 1 .. n : \A d \in Calls :
           /\ AcceptAt(i, d)' <=> AcceptAt(i, d)
           /\ ConfirmAt(i, d)' <=> ConfirmAt(i, d)
      /\ \A d \in Calls :
           /\ AcceptAt(n + 1, d)' <=> d = c /\ kind = "srsp" /\ ok /\ Op[c].confirm # None
           /\ ~ConfirmAt(n + 1, d)'
  <2>1. kind \in {"srsp", "rpc", "areq"} /\ cmd \in Op[c].responses \cup {Op[c].confirm}
    OBVIOUS
  <2> QED BY <1>1, <1>3, <1>4, <2>1, PutPlaces
<1>7. \A i \in 1 .. Len(fromDongle') : i \in 1 .. n \/ i = n + 1
  BY <1>6
<1>8. \A d \in Calls : Steady(d)' <=> Steady(d)
  BY <1>1 DEF Steady
<1>9. Issue' /\ OwnConfirms'
  BY <1>1 DEF Issue, OwnConfirms
\* Whatever waits for a confirm was asked before c.
<1>10. ASSUME NEW d \in Calls, NEW i \in 1 .. n, Steady(d), ConfirmAt(i, d)
       PROVE  issued[d] < issued[c] /\ d # c
  <2>1. phase[d] = "confirm" \/ \E j \in 1 .. (i - 1) : AcceptAt(j, d)
    BY <1>1, <1>3, <1>10 DEF Owes
  <2>2. CASE phase[d] = "confirm"
    BY <1>1, <1>5, <2>2 DEF Issue
  <2>3. CASE \E j \in 1 .. (i - 1) : AcceptAt(j, d)
    <3>1. PICK j \in 1 .. (i - 1) : AcceptAt(j, d)
      BY <2>3
    <3>2. j \in 1 .. Len(fromDongle) /\ ReplyAt(j) /\ fromDongle[j].call = d
      BY <3>1 DEF AcceptAt, Accepts, ReplyAt, IsReply
    <3>3. phase[d] = "srsp" /\ at[d] < at[c]
      BY <1>1, <1>2, <3>2 DEF ReplyInv, OnWire, WireOrder
    <3> QED BY <1>1, <1>5, <3>3 DEF Issue
  <2> QED BY <2>1, <2>2, <2>3
<1>11. ASSUME NEW d \in Calls
       PROVE  /\ d # c => (Due(d)' <=> Due(d)) /\ (Owed(d)' <=> Owed(d))
              /\ d = c /\ Steady(c) => (Due(d)' <=> Owed(d)')
  <2>1. (\E i \in 1 .. Len(fromDongle') : AcceptAt(i, d)') <=>
          \/ d = c /\ kind = "srsp" /\ ok /\ Op[c].confirm # None
          \/ \E i \in 1 .. n : AcceptAt(i, d)
    <3>1. \A i \in 1 .. n : i \in 1 .. Len(fromDongle')
      BY <1>6
    <3>2. n + 1 \in 1 .. Len(fromDongle')
      BY <1>6
    <3>3. AcceptAt(n + 1, d)' <=> d = c /\ kind = "srsp" /\ ok /\ Op[c].confirm # None
      BY <1>6
    <3> QED BY <1>6, <1>7, <3>1, <3>2, <3>3
  <2>2. (\E i \in 1 .. Len(fromDongle') : ConfirmAt(i, d)') <=>
          \E i \in 1 .. n : ConfirmAt(i, d)
    <3>1. \A i \in 1 .. n : i \in 1 .. Len(fromDongle')
      BY <1>6
    <3> QED BY <1>6, <1>7, <3>1
  <2>3. CASE d # c
    BY <1>1, <1>3, <1>5, <2>1, <2>2, <2>3 DEF Due, Owed
  <2>4. CASE d = c /\ Steady(c)
    <3>1. ~Owed(c)
      BY <1>1, <1>3, <1>5, <1>10, <2>4 DEF Owed
    <3>2. ~Due(c)
      BY <1>1, <2>4, <3>1 DEF Owes
    <3> QED BY <1>1, <1>3, <1>5, <2>1, <2>2, <2>4, <3>1, <3>2 DEF Due, Owed
  <2> QED BY <2>3, <2>4
<1>12. Owes'
  <2>1. ASSUME NEW d \in Calls, Steady(d)'
        PROVE  Due(d)' <=> Owed(d)'
    BY <1>1, <1>8, <1>11, <2>1 DEF Owes
  <2>2. ASSUME NEW d \in Calls, NEW i \in 1 .. Len(fromDongle'), Steady(d)', ConfirmAt(i, d)'
        PROVE  phase'[d] = "confirm" \/ \E j \in 1 .. (i - 1) : AcceptAt(j, d)'
    <3>1. i \in 1 .. n /\ Steady(d) /\ ConfirmAt(i, d)
      <4>1. i # n + 1
        BY <1>6, <2>2
      <4> QED BY <1>6, <1>7, <1>8, <2>2, <4>1
    <3>2. phase[d] = "confirm" \/ \E j \in 1 .. (i - 1) : AcceptAt(j, d)
      BY <1>1, <1>3, <3>1 DEF Owes
    <3>3. \A j \in 1 .. (i - 1) : j \in 1 .. n
      BY <3>1
    <3> QED BY <1>1, <1>6, <3>2, <3>3
  <2> QED BY <2>1, <2>2 DEF Owes
<1>13. ConfirmOrder'
  <2> SUFFICES ASSUME NEW d \in Calls, NEW e \in Calls, NEW i \in 1 .. Len(fromDongle'),
                      Steady(d)', ConfirmAt(i, d)', Op[d].confirm = Op[e].confirm
               PROVE  /\ verdict'[e] = "working" => issued'[d] < issued'[e]
                      /\ \A j \in 1 .. Len(fromDongle') :
                           i < j /\ ConfirmAt(j, e)' => issued'[d] < issued'[e]
    BY DEF ConfirmOrder
  <2>1. i \in 1 .. n /\ Steady(d) /\ ConfirmAt(i, d)
    <3>1. i # n + 1
      BY <1>6
    <3> QED BY <1>6, <1>7, <1>8, <3>1
  <2>2. verdict'[e] = "working" => issued'[d] < issued'[e]
    BY <1>1, <1>3, <1>5, <1>10, <2>1 DEF ConfirmOrder
  <2>3. ASSUME NEW j \in 1 .. Len(fromDongle'), i < j, ConfirmAt(j, e)'
        PROVE  issued'[d] < issued'[e]
    <3>1. j \in 1 .. n /\ ConfirmAt(j, e)
      <4>1. j # n + 1
        BY <1>6, <2>3
      <4> QED BY <1>6, <1>7, <2>3, <4>1
    <3> QED BY <1>1, <1>3, <2>1, <2>3, <3>1 DEF ConfirmOrder
  <2> QED BY <2>2, <2>3
<1> QED BY <1>9, <1>12, <1>13

\* The dongle sends a confirm: the first of its kind that is still due.
LEMMA ConfirmStepConfirm ==
  ASSUME InOrder, ConfirmInv, NEW c \in Calls, DongleConfirm(c)
  PROVE  (Issue /\ Owes /\ ConfirmOrder /\ OwnConfirms)'
<1>1. /\ TypeOK /\ ReplyInv /\ ListenInv /\ Issue /\ Owes /\ ConfirmOrder /\ OwnConfirms
      /\ UNCHANGED <<phase, at, tail, issued, result, confirmed>>
      /\ \A d \in Calls : at[d] \in Nat /\ issued[d] \in Nat
  BY DEF ConfirmInv, CheckedInv, ReplyInv, TypeOK, DongleConfirm, hostVars
<1>0. TypeOK
  BY <1>1
<1>2. PICK n \in Nat : n = Len(fromDongle)
  BY <1>1, LenProperties DEF TypeOK
<1>3. PICK ok \in BOOLEAN :
        /\ Put("areq", c, Op[c].confirm, ok)
        /\ verdict' = [verdict EXCEPT ![c] = IF ok THEN "ok" ELSE "failed"]
  BY DEF DongleConfirm
<1>4. /\ verdict[c] = "working" /\ verdict'[c] # "working"
      /\ \A d \in Calls \ {c} : verdict'[d] = verdict[d]
  BY <1>1, <1>3 DEF DongleConfirm, TypeOK
<1>5. /\ Len(fromDongle') = n + 1
      /\ \A i \in 1 .. n : \A d \in Calls :
           /\ AcceptAt(i, d)' <=> AcceptAt(i, d)
           /\ ConfirmAt(i, d)' <=> ConfirmAt(i, d)
      /\ \A d \in Calls : ~AcceptAt(n + 1, d)' /\ (ConfirmAt(n + 1, d)' <=> d = c)
  <2>1. PICK kind \in {"srsp", "rpc", "areq"}, cmd \in Op[c].responses \cup {Op[c].confirm} :
          kind = "areq" /\ cmd = Op[c].confirm
    OBVIOUS
  <2>2. Put(kind, c, cmd, ok) /\ kind # "srsp"
    BY <1>3, <2>1
  <2>3. /\ Len(fromDongle') = n + 1
        /\ \A i \in 1 .. n : \A d \in Calls :
             /\ AcceptAt(i, d)' <=> AcceptAt(i, d)
             /\ ConfirmAt(i, d)' <=> ConfirmAt(i, d)
        /\ \A d \in Calls :
             /\ AcceptAt(n + 1, d)' <=> d = c /\ kind = "srsp" /\ ok /\ Op[c].confirm # None
             /\ ConfirmAt(n + 1, d)' <=> d = c /\ kind = "areq"
    BY <1>0, <1>2, <2>2, PutPlaces
  <2> QED BY <2>1, <2>3
<1>6. /\ \A i \in 1 .. Len(fromDongle') : i \in 1 .. n \/ i = n + 1
      /\ \A i \in 1 .. n : i \in 1 .. Len(fromDongle')
      /\ n + 1 \in 1 .. Len(fromDongle')
  BY <1>5
<1>7. \A d \in Calls : Steady(d)' <=> Steady(d)
  BY <1>1 DEF Steady
<1>8. Issue' /\ OwnConfirms'
  BY <1>1 DEF Issue, OwnConfirms
<1>9. ASSUME NEW d \in Calls
      PROVE  (Due(d)' <=> Due(d)) /\ (Owed(d)' <=> Owed(d))
  <2>1. (\E i \in 1 .. Len(fromDongle') : AcceptAt(i, d)') <=> \E i \in 1 .. n : AcceptAt(i, d)
    <3>1. ~AcceptAt(n + 1, d)'
      BY <1>5
    <3> QED BY <1>5, <1>6, <3>1
  <2>2. (\E i \in 1 .. Len(fromDongle') : ConfirmAt(i, d)') <=>
          (d = c \/ \E i \in 1 .. n : ConfirmAt(i, d))
    <3>1. ConfirmAt(n + 1, d)' <=> d = c
      BY <1>5
    <3> QED BY <1>5, <1>6, <3>1
  <2> QED BY <1>1, <1>2, <1>4, <2>1, <2>2 DEF Due, Owed
<1>10. Owes'
  <2>1. ASSUME NEW d \in Calls, Steady(d)'
        PROVE  Due(d)' <=> Owed(d)'
    BY <1>1, <1>7, <1>9, <2>1 DEF Owes
  <2>2. ASSUME NEW d \in Calls, NEW i \in 1 .. Len(fromDongle'), Steady(d)', ConfirmAt(i, d)'
        PROVE  phase'[d] = "confirm" \/ \E j \in 1 .. (i - 1) : AcceptAt(j, d)'
    <3>1. CASE i = n + 1
      <4>1. d = c /\ Steady(c)
        BY <1>5, <1>7, <2>2, <3>1
      <4>2. phase[c] = "confirm" \/ \E j \in 1 .. n : AcceptAt(j, c)
        BY <1>1, <1>2, <1>4, <4>1 DEF Owes, Owed, Due
      <4>3. \A j \in 1 .. n : j \in 1 .. (i - 1)
        BY <3>1
      <4> QED BY <1>1, <1>5, <4>1, <4>2, <4>3
    <3>2. CASE i \in 1 .. n
      <4>1. phase[d] = "confirm" \/ \E j \in 1 .. (i - 1) : AcceptAt(j, d)
        BY <1>1, <1>2, <1>5, <1>7, <2>2, <3>2 DEF Owes
      <4>2. \A j \in 1 .. (i - 1) : j \in 1 .. n
        BY <3>2
      <4> QED BY <1>1, <1>5, <4>1, <4>2
    <3> QED BY <1>6, <3>1, <3>2
  <2> QED BY <2>1, <2>2 DEF Owes
\* Every other call that waits for this command was asked later.
<1>11. ASSUME NEW e \in Calls \ {c}, verdict[e] = "working", Op[e].confirm = Op[c].confirm
       PROVE  issued[c] < issued[e]
  <2>1. issued[c] <= issued[e]
    BY <1>11 DEF DongleConfirm
  <2>2. issued[c] # issued[e]
    BY <1>1, <1>4, <1>11 DEF Issue, ConfirmInv, Ledger, Judged
  <2> QED BY <1>1, <2>1, <2>2
<1>12. ConfirmOrder'
  <2> SUFFICES ASSUME NEW d \in Calls, NEW e \in Calls, NEW i \in 1 .. Len(fromDongle'),
                      Steady(d)', ConfirmAt(i, d)', Op[d].confirm = Op[e].confirm
               PROVE  /\ verdict'[e] = "working" => issued'[d] < issued'[e]
                      /\ \A j \in 1 .. Len(fromDongle') :
                           i < j /\ ConfirmAt(j, e)' => issued'[d] < issued'[e]
    BY DEF ConfirmOrder
  <2>1. CASE i = n + 1
    <3>1. d = c
      BY <1>5, <2>1
    <3>2. verdict'[e] = "working" => e # c /\ verdict[e] = "working"
      BY <1>4
    <3>3. \A j \in 1 .. Len(fromDongle') : ~(i < j)
      BY <1>5, <2>1
    <3> QED BY <1>1, <1>11, <3>1, <3>2, <3>3
  <2>2. CASE i \in 1 .. n
    <3>1. Steady(d) /\ ConfirmAt(i, d)
      BY <1>5, <1>7, <2>2
    <3>2. verdict[e] = "working" => issued[d] < issued[e]
      BY <1>1, <1>2, <2>2, <3>1 DEF ConfirmOrder
    <3>3. verdict'[e] = "working" => verdict[e] = "working"
      BY <1>4
    <3>4. ASSUME NEW j \in 1 .. Len(fromDongle'), i < j, ConfirmAt(j, e)'
          PROVE  issued[d] < issued[e]
      <4>1. CASE j = n + 1
        <5>1. e = c
          BY <1>5, <3>4, <4>1
        <5> QED BY <1>4, <3>2, <5>1
      <4>2. CASE j \in 1 .. n
        <5>1. ConfirmAt(j, e)
          BY <1>5, <3>4, <4>2
        <5> QED BY <1>1, <1>2, <2>2, <3>1, <3>4, <4>2, <5>1 DEF ConfirmOrder
      <4> QED BY <1>6, <4>1, <4>2
    <3> QED BY <1>1, <3>2, <3>3, <3>4
  <2> QED BY <1>6, <2>1, <2>2
<1> QED BY <1>8, <1>10, <1>12

\* Every step on a link that loses nothing keeps the order of the confirms.
LEMMA ConfirmStep ==
  ASSUME InOrder, Lossless', ConfirmInv, [Next]_vars
  PROVE  ConfirmInv'
<1> SUFFICES (Issue /\ Owes /\ ConfirmOrder /\ OwnConfirms)'
  BY ReplyStep, CheckedStep, LedgerStep DEF ConfirmInv
<1>2. ASSUME NEW c \in Calls, RawSReq(c)
      PROVE  (Issue /\ Owes /\ ConfirmOrder /\ OwnConfirms)'
  BY <1>2, ConfirmStepCall DEF Lossless
<1>3. CASE OnFrame
  BY <1>3, IssueFrame, OwesFrame, OrderFrame
<1>4. ~LoseFrame
  BY DEF Lossless, LoseFrame, ConfirmInv, ReplyInv, TypeOK
<1>5. CASE UNCHANGED vars
  <2>1. UNCHANGED <<phase, at, tail, issued, result, verdict, fromDongle, confirmed>>
    BY <1>5 DEF vars
  <2>2. Issue' /\ OwnConfirms'
    BY <2>1 DEF ConfirmInv, Issue, OwnConfirms
  <2>3. Owes'
    BY <2>1 DEF ConfirmInv, Owes, Due, Owed, Steady, AcceptAt, ConfirmAt
  <2>4. ConfirmOrder'
    BY <2>1 DEF ConfirmInv, ConfirmOrder, Steady, ConfirmAt
  <2> QED BY <2>2, <2>3, <2>4
<1>6. CASE \E c \in Calls : OnTimer(c)
  BY <1>6, ConfirmStepTimer
<1>7. CASE \E c \in Calls : DongleConfirm(c)
  BY <1>7, ConfirmStepConfirm
<1>8. CASE DongleServe
  BY <1>8, ConfirmStepServe
<1> QED BY <1>2, <1>3, <1>4, <1>5, <1>6, <1>7, <1>8 DEF Next

\* What holds in every state, and what holds until the first loss.
Inv == CheckedInv /\ Ledger /\ (Lossless => ConfirmInv)

\* The invariant holds in every state, of a dongle that keeps equal confirms in order.
LEMMA Invariant == InOrder => (Spec => []Inv)
<1> SUFFICES ASSUME InOrder
             PROVE  Spec => []Inv
  OBVIOUS
<1>1. Init => Inv
  <2> SUFFICES ASSUME Init
               PROVE  Inv
    OBVIOUS
  <2>1. TypeOK
    BY EmptySeq DEF Init, TypeOK, Phases, Listed, Results
  <2>2. Len(toDongle) = 0 /\ Len(fromDongle) = 0
    BY EmptySeq DEF Init
  <2>3. CheckedInv
    BY <2>1 DEF Init, CheckedInv, ListenInv, Listening, Silence, SuccessIsDone, CheckedReply
  <2>4. ReplyInv
    BY <2>1, <2>2 DEF Init, ReplyInv, OnWire, WireOrder, Positions, OwnReplies, ReplyAt
  <2>5. Ledger
    BY <2>1, <2>2 DEF Init, Ledger, Unjudged, Judged, Truthful
  <2>6. Issue /\ OwnConfirms
    BY DEF Init, Issue, OwnConfirms
  <2>7. Owes /\ ConfirmOrder
    BY <2>2 DEF Init, Owes, ConfirmOrder, Due, Owed
  <2> QED BY <2>3, <2>4, <2>5, <2>6, <2>7 DEF Inv, ConfirmInv
<1>2. Inv /\ [Next]_vars => Inv'
  <2>1. CheckedInv /\ Ledger /\ [Next]_vars => CheckedInv' /\ Ledger'
    BY CheckedStep, LedgerStep
  <2>2. ConfirmInv /\ [Next]_vars /\ Lossless' => ConfirmInv'
    BY ConfirmStep
  <2>3. CheckedInv /\ [Next]_vars /\ Lossless' => Lossless
    BY LossStays DEF CheckedInv
  <2> QED BY <2>1, <2>2, <2>3 DEF Inv
<1> QED BY <1>1, <1>2, PTL DEF Spec

\* Until the first loss, a call without a timeout consumes the AREQ sent for it
\* (WaitAfter, WaitFor), however many calls wait for that command, and whatever the
\* calls with a timeout do.
THEOREM OwnConfirmHolds == InOrder => (Spec => []OwnConfirm)
<1>1. Inv => OwnConfirm
  BY DEF Inv, ConfirmInv, OwnConfirms, OwnConfirm
<1> QED BY <1>1, Invariant, PTL

\* ... and when that AREQ is received its handler is listed: WaitFor runs within the
\* OnFrame of the SRSP that comes before it.
THEOREM ConfirmFindsWaiterHolds == InOrder => (Spec => []ConfirmFindsWaiter)
<1>1. Inv => ConfirmFindsWaiter
  <2> SUFFICES ASSUME Inv, Lossless, fromDongle # <<>>, Head(fromDongle).kind = "areq",
                      ~Op[Head(fromDongle).call].timed
               PROVE  phase[Head(fromDongle).call] = "confirm"
    BY DEF ConfirmFindsWaiter
  <2>1. Steady(Head(fromDongle).call)
    BY DEF Steady
  <2> QED BY <2>1, HeadConfirmIsFirst DEF Inv
<1> QED BY <1>1, Invariant, PTL

-----------------------------------------------------------------------------
(* The promise of Rpc.tla, step by step.                                    *)

\* No call starts out answered.
LEMMA PromiseInit == Init => Promise!Init
<1> SUFFICES ASSUME Init
             PROVE  Promise!Init
  OBVIOUS
<1>1. Asked = {}
  BY DEF Init, Asked
<1>2. Answered = [c \in Calls |-> "none"]
  BY DEF Init, Answered
<1>3. Told = [c \in Calls |-> "pending"]
  BY DEF Init, Told, Failures
<1>4. Lossless
  BY DEF Init, Lossless
<1> QED BY <1>1, <1>2, <1>3, <1>4 DEF Promise!Init

\* What it takes to hear an answer.
LEMMA Hears ==
  ASSUME NEW c \in Asked, NEW a \in {"ok", "failed"}, Told[c] = "pending",
         Answered[c] = a \/ ~Lossless \/ Promise!Shifted(c, a),
         Told' = [Told EXCEPT ![c] = a],
         UNCHANGED <<Asked, Answered>>, Lossless' <=> Lossless
  PROVE  Promise!Hear(c)
BY DEF Promise!Hear

\* A frame that ends its call for good, consumed by that call or by a call whose
\* turn it is because another one timed out: the call hears a verdict.
LEMMA PromiseFrame ==
  ASSUME Inv, OnFrame
  PROVE  \/ Asked' = Asked /\ Answered' = Answered /\ Told' = Told /\ (Lossless' <=> Lossless)
         \/ \E c \in Calls : Promise!Hear(c)
<1>1. TypeOK /\ ListenInv /\ Ledger /\ UNCHANGED <<verdict, drops>> /\ fromDongle # <<>>
      /\ fromDongle' = Tail(fromDongle)
  BY DEF Inv, Ledger, CheckedInv, OnFrame
<1>2. PICK f \in Frames, h \in Calls : f = Head(fromDongle) /\ h = f.call /\ f = fromDongle[1]
                                       /\ 1 \in 1 .. Len(fromDongle)
  BY <1>1, TailPlaces
<1>3. Asked' = Asked /\ Answered' = Answered
  <2>1. \A d \in Calls : phase'[d] = "idle" <=> phase[d] = "idle"
    BY <1>1, FrameOnHost
  <2> QED BY <1>1, <2>1 DEF Asked, Answered
<1>4. CASE result' = result
  BY <1>1, <1>3, <1>4 DEF Told, Lossless
<1>5. ASSUME NEW c \in Calls, Consume(c, f), Resolve(c, f), phase[c] # "orphan",
             ~(phase[c] = "srsp" /\ StartsWait(c, f))
      PROVE  Promise!Hear(c)
  <2>1. /\ phase[c] \in {"srsp", "confirm"} /\ c \in Takers(f)
        /\ (f.kind = "areq" <=> phase[c] = "confirm")
    BY <1>2, <1>5 DEF Consume, IsFirst, Takers, Frames
  <2>2. result[c] = "pending"
    BY <1>1, <2>1 DEF ListenInv, Listening
  <2>3. result' = [result EXCEPT ![c] = Outcome(c, f)]
    BY <1>5 DEF Resolve
  <2> DEFINE a == IF Outcome(c, f) = "ok" THEN "ok" ELSE "failed"
  <2>4. a \in {"ok", "failed"} /\ Told' = [Told EXCEPT ![c] = a]
    <3>1. Outcome(c, f) \in {"ok", "status", "rpc", "mismatch"}
      BY DEF Outcome
    <3>2. a = IF Outcome(c, f) \in Failures \ {"timeout"} THEN "failed" ELSE Outcome(c, f)
      BY <3>1 DEF Failures
    <3> QED BY <1>1, <2>3, <3>2 DEF Told, TypeOK
  <2>5. Lossless' <=> Lossless
    <3>1. Outcome(c, f) # "oversize"
      BY DEF Outcome
    <3>2. \A d \in Calls : result'[d] = "oversize" <=> result[d] = "oversize"
      BY <1>1, <2>2, <2>3, <3>1 DEF TypeOK
    <3> QED BY <1>1, <3>2 DEF Lossless
  \* What the dongle made of the call of the frame.
  <2>6. Lossless => ~Accepts(f)
    <3> SUFFICES ASSUME Lossless, Accepts(f)
                 PROVE  FALSE
      OBVIOUS
    <3>1. phase[c] = "srsp" /\ IsReply(f)
      BY <2>1 DEF Accepts, IsReply
    <3>2. c = h
      BY <1>1, <1>2, <1>5, <3>1, HeadReplyIsFirst DEF Inv, ConfirmInv, Consume
    <3> QED BY <1>2, <1>5, <3>1, <3>2 DEF StartsWait, Accepts
  <2>7. Lossless => Answered[h] = Says(f)
    BY <1>1, <1>2, <2>6 DEF Ledger, Truthful, Says, Answered
  <2>8. /\ c \in Asked /\ a \in {"ok", "failed"} /\ Told[c] = "pending"
         /\ Told' = [Told EXCEPT ![c] = a]
    BY <2>1, <2>2, <2>4 DEF Asked, Told, Failures
  <2> HIDE DEF a
  <2>9. CASE ~Lossless
    BY <1>3, <2>5, <2>9, <2>8, Hears
  <2>10. CASE Lossless /\ c = h
    <3>1. a = Says(f)
      BY <2>10, <1>2 DEF a, Outcome, Says
    <3>2. Answered[c] = a
      BY <2>7, <2>10, <3>1
    <3> QED BY <1>3, <2>5, <2>10, <2>8, <3>2, Hears
  <2>11. CASE Lossless /\ c # h
    <3>1. ~IsReply(f) /\ f.kind = "areq"
      BY <1>1, <1>2, <1>5, <2>11, HeadReplyIsFirst DEF Inv, ConfirmInv, Consume, Frames, IsReply
    <3>2. Op[c].confirm = Op[h].confirm
      BY <1>1, <1>2, <2>1, <3>1 DEF Takers, Ledger, Truthful
    <3>3. ~Steady(h)
      BY <1>1, <1>2, <1>5, <2>11, <3>1, HeadConfirmIsFirst DEF Inv, Consume
    <3>4. Op[h].timed /\ Op[c].timed /\ Op[c].echo = None
      BY <3>2, <3>3, OpAssumption DEF Steady
    <3>5. PICK d \in Calls : Op[d].timed /\ result[d] = "timeout"
      BY <3>3 DEF Steady
    <3>6. a = Says(f)
      BY <3>1, <3>4 DEF a, Outcome, Says
    <3>7. Answered[h] = a /\ Told[d] = "timeout"
      BY <2>7, <2>11, <3>5, <3>6 DEF Told, Failures
    <3>8. Promise!Shifted(c, a)
      BY <3>4, <3>5, <3>7 DEF Promise!Shifted, Timed
    <3> QED BY <1>3, <2>5, <2>8, <3>8, Hears
  <2> QED BY <2>9, <2>10, <2>11
<1>6. ASSUME NEW c \in Calls, Consume(c, f)
      PROVE  result' = result \/ Promise!Hear(c)
  <2>1. CASE WaitFor(c)
    BY <2>1 DEF WaitFor
  <2>2. CASE phase[c] = "orphan" /\ Resolve(c, f)
    BY <1>1, <2>2 DEF Resolve, TypeOK
  <2> QED BY <1>5, <1>6, <2>1, <2>2 DEF Consume
<1> QED BY <1>2, <1>4, <1>6 DEF OnFrame, Unhandled

\* Every step of ZnpApi is a step of Rpc.tla or leaves its state alone.
LEMMA PromiseStep ==
  ASSUME Inv, [Next]_vars
  PROVE  [Promise!Next]_(Promise!rpcVars)
<1> USE DEF Promise!Next
<1>t. TypeOK /\ ListenInv /\ Ledger
  BY DEF Inv, CheckedInv, Ledger
\* A step that leaves the state of Rpc.tla alone.
<1> DEFINE Quiet == /\ UNCHANGED <<Asked, Answered, Told>>
                    /\ Lossless' <=> Lossless
<1>q. Quiet => UNCHANGED Promise!rpcVars
  BY DEF Promise!rpcVars
<1>1. ASSUME NEW c \in Calls, RawSReq(c)
      PROVE  Promise!Next
  <2>1. /\ c \notin Asked /\ Asked' = Asked \cup {c} /\ Answered' = Answered
        /\ result[c] = "pending" /\ drops' = drops
    <3>1. phase[c] = "idle" /\ \A d \in Calls : phase'[d] # "idle" <=> phase[d] # "idle" \/ d = c
      BY <1>1, <1>t DEF RawSReq, TypeOK
    <3>2. result[c] = "pending"
      BY <1>t, <3>1 DEF ListenInv, Listening
    <3> QED BY <1>1, <3>1, <3>2 DEF RawSReq, Asked, Answered
  <2>2. CASE result' = result
    <3>1. Told' = Told /\ (Lossless' <=> Lossless)
      BY <2>1, <2>2 DEF Told, Lossless
    <3>2. Promise!Ask(c)
      BY <2>1, <3>1 DEF Promise!Ask
    <3> QED BY <3>2
  <2>3. CASE result' = [result EXCEPT ![c] = "oversize"]
    <3>1. Told' = [Told EXCEPT ![c] = "failed"]
      BY <1>t, <2>3 DEF Told, Failures, TypeOK
    <3>2. ~Lossless'
      BY <1>t, <2>3 DEF Lossless, TypeOK
    <3>3. Promise!Refuse(c)
      BY <2>1, <3>1, <3>2 DEF Promise!Refuse
    <3> QED BY <3>3
  <2> QED BY <1>1, <2>2, <2>3 DEF RawSReq
<1>2. CASE OnFrame
  BY <1>2, <1>q, PromiseFrame
<1>3. ASSUME NEW c \in Calls, OnTimer(c)
      PROVE  Quiet \/ Promise!Next
  <2>1. Asked' = Asked /\ Answered' = Answered /\ drops' = drops
    <3>1. \A d \in Calls : phase'[d] # "idle" <=> phase[d] # "idle"
      BY <1>3, <1>t DEF OnTimer, TypeOK
    <3> QED BY <1>3, <3>1 DEF OnTimer, Asked, Answered
  <2>2. CASE phase[c] # "confirm"
    BY <1>3, <2>1, <2>2 DEF OnTimer, Told, Lossless
  <2>3. CASE phase[c] = "confirm"
    <3>1. result[c] = "pending" /\ Op[c].timed /\ result' = [result EXCEPT ![c] = "timeout"]
      BY <1>3, <1>t, <2>3 DEF OnTimer, ListenInv, Listening, Ledger, Judged
    <3>2. Told[c] = "pending" /\ Told' = [Told EXCEPT ![c] = "timeout"]
      BY <1>t, <3>1 DEF Told, Failures, TypeOK
    <3>3. Lossless' <=> Lossless
      <4>1. \A d \in Calls : result'[d] = "oversize" <=> result[d] = "oversize"
        BY <1>t, <3>1 DEF TypeOK
      <4> QED BY <2>1, <4>1 DEF Lossless
    <3>4. c \in Timed \cap Asked
      BY <2>3, <3>1 DEF Timed, Asked
    <3>5. Promise!GiveUp(c)
      BY <2>1, <3>2, <3>3, <3>4 DEF Promise!GiveUp
    <3> QED BY <3>5
  <2> QED BY <2>2, <2>3
\* The dongle changes its verdict on one call, from none.
<1>4. ASSUME NEW c \in Calls, NEW v \in {"working", "ok", "failed"},
             verdict[c] \in {"none", "working"}, phase[c] # "idle",
             verdict' = [verdict EXCEPT ![c] = v],
             UNCHANGED <<phase, result, drops>>
      PROVE  Quiet \/ Promise!Next
  <2>1. Asked' = Asked /\ Told' = Told /\ (Lossless' <=> Lossless)
    BY <1>4 DEF Asked, Told, Lossless
  <2>2. c \in Asked /\ Answered[c] = "none"
    BY <1>4 DEF Asked, Answered
  <2>3. CASE v = "working"
    <3>1. Answered' = Answered
      BY <1>t, <1>4, <2>3 DEF Answered, TypeOK
    <3> QED BY <2>1, <3>1
  <2>4. CASE v # "working"
    <3>1. v \in {"ok", "failed"} /\ Answered' = [Answered EXCEPT ![c] = v]
      BY <1>t, <1>4, <2>4 DEF Answered, TypeOK
    <3>2. Promise!Answer(c)
      BY <2>1, <2>2, <3>1 DEF Promise!Answer
    <3> QED BY <3>2
  <2> QED BY <2>3, <2>4
<1>5. CASE DongleServe
  <2>1. PICK c \in Calls : c = Head(toDongle) /\ c = toDongle[1] /\ 1 \in 1 .. Len(toDongle)
    BY <1>5, <1>t, QueueFront DEF TypeOK, DongleServe
  <2>2. verdict[c] = "none" /\ phase[c] # "idle"
    BY <1>t, <2>1 DEF Ledger, Unjudged
  <2>3. \E v \in {"working", "ok", "failed"} : verdict' = [verdict EXCEPT ![c] = v]
    BY <1>5, <2>1 DEF DongleServe
  <2>4. UNCHANGED <<phase, result, drops>>
    BY <1>5 DEF DongleServe, hostVars
  <2> QED BY <1>4, <1>q, <2>2, <2>3, <2>4
<1>6. ASSUME NEW c \in Calls, DongleConfirm(c)
      PROVE  Quiet \/ Promise!Next
  <2>1. verdict[c] = "working" /\ UNCHANGED <<phase, result, drops>>
    BY <1>6 DEF DongleConfirm, hostVars
  <2>2. phase[c] # "idle"
    BY <1>t, <2>1 DEF Ledger, Judged
  <2>3. \E v \in {"working", "ok", "failed"} : verdict' = [verdict EXCEPT ![c] = v]
    BY <1>6 DEF DongleConfirm
  <2> QED BY <1>4, <2>1, <2>2, <2>3
<1>7. CASE LoseFrame
  <2>1. UNCHANGED <<Asked, Answered, Told>>
    BY <1>7 DEF LoseFrame, hostVars, dongleVars, Asked, Answered, Told
  <2>2. ~Lossless'
    BY <1>7, <1>t DEF LoseFrame, Lossless, TypeOK
  <2>3. CASE Lossless
    BY <2>1, <2>2, <2>3 DEF Promise!Break
  <2>4. CASE ~Lossless
    BY <1>q, <2>1, <2>2, <2>4
  <2> QED BY <2>3, <2>4
<1>8. CASE UNCHANGED vars
  <2>1. Quiet
    BY <1>8 DEF vars, Asked, Answered, Told, Lossless
  <2> QED BY <1>q, <2>1
<1> QED BY <1>1, <1>2, <1>3, <1>5, <1>6, <1>7, <1>8, <1>q DEF Next

\* ZnpApi implements Rpc.tla: until the first loss each future tells the verdict of the
\* dongle on its own call, or on another call with a timeout after one of these timed
\* out; and whatever is lost, it is told once.
THEOREM Refinement == InOrder => (Spec => ImplementsRpc)
<1>1. Inv /\ [Next]_vars => [Promise!Next]_(Promise!rpcVars)
  BY PromiseStep
<1> QED BY <1>1, PromiseInit, Invariant, PTL DEF Spec, ImplementsRpc, Promise!Spec
=============================================================================
