----------------------------- MODULE HubProofs ------------------------------
(***************************************************************************)
(* Proofs about Hub.tla: its invariants, for any devices, addresses,    *)
(* messages and faults.                                                     *)
(***************************************************************************)
EXTENDS Hub, ListLemmas

-----------------------------------------------------------------------------
(* The inductive invariant.                                                 *)

\* The handlers of nwk and the frames of the dongle are about messages sent.
Ids ==
  /\ \A k \in 1 .. Len(fromDongle) :
       fromDongle[k].op = "incoming" => fromDongle[k].id \in 1 .. Len(sent)
  /\ \A k \in 1 .. Len(handlers["nwk"]) :
       handlers["nwk"][k].for # "command" /\ handlers["nwk"][k].id \in 1 .. Len(sent)
  /\ \A k \in 1 .. Len(published) : published[k].id \in 1 .. Len(sent)

\* An address belongs to one device at a time, and no device has one again.
Places ==
  /\ \A d, e \in Devices : home[d] = home[e] => d = e
  /\ \A d \in Devices : home[d] \notin former[d]
  /\ \A i \in 1 .. Len(sent) :
       sent[i].src = home[sent[i].dev] \/ sent[i].src \in former[sent[i].dev]
  /\ \A i, j \in 1 .. Len(sent) : i < j /\ sent[i].src = sent[j].src =>
       sent[i].dev = sent[j].dev \/ sent[i].src \in former[sent[i].dev]

\* What an answer on the way from the dongle says of the dongle.
Answers(l) == {f \in Frames : f.op = l}
Asks(l) == {r \in Requests : r.op = l}
Waited(l) == Selected(fromDongle, Answers(l)) \o Selected(toDongle, Asks(l))

\* The request or the answer of a lookup is about what its handler is about.
About(l, h) == IF l = "nwk" THEN sent[h.id].src ELSE commands[h.id]
Had(d) == {home[d]} \cup former[d]
Possible(m) ==
  {m.dev} \cup (IF m.src \in former[m.dev] THEN Devices \cup {NoDevice} ELSE {})
Expected(l, h) == IF l = "nwk" THEN Possible(sent[h.id]) ELSE Had(commands[h.id])
Fits(l, w, h) ==
  IF w \in Frames THEN w.ok => w.value \in Expected(l, h) ELSE w.key = About(l, h)
Match(l) ==
  faults["drop"] = 0 =>
    /\ Len(Waited(l)) = Len(handlers[l])
    /\ \A k \in 1 .. Len(handlers[l]) : Fits(l, Waited(l)[k], handlers[l][k])

\* Commands on the way to a device and with it.
Air == radio \o Selected(toDongle, Commands)

AirOrder ==
  /\ \A i \in 1 .. Len(Air) : Air[i].id \in 1 .. Len(commands)
  /\ \A k \in 1 .. Len(handlers["ext"]) : handlers["ext"][k].id \in 1 .. Len(commands)
  /\ \A i, j \in 1 .. Len(Air) : i < j => Air[i].id < Air[j].id
  /\ \A i \in 1 .. Len(Air) : \A k \in 1 .. Len(handlers["ext"]) :
       Air[i].id < handlers["ext"][k].id
  /\ \A i, j \in 1 .. Len(handlers["ext"]) :
       i < j => handlers["ext"][i].id < handlers["ext"][j].id

Apart(s) ==
  \A i, j \in 1 .. Len(s) :
    /\ i < j /\ s[i].key = s[j].key
    /\ \A k \in i + 1 .. j - 1 : s[k].key # s[i].key
    => s[i].tsn # s[j].tsn
Counted(s, nums) ==
  \A i \in 1 .. Len(s) :
    (\A j \in i + 1 .. Len(s) : s[j].key # s[i].key)
      => nums[s[i].key] = (s[i].tsn + 1) % TsnMod
AirNumbers == Apart(Air) /\ Counted(Air, send_trans_seq_nums_)

AirPlaces ==
  faults["drop"] = 0 => \A i \in 1 .. Len(Air) : Air[i].key \in Had(commands[Air[i].id])

\* What a device sent lately has another number than what it sends next.
Later(t, g) == IF t + g < TsnMod THEN t + g ELSE t + g - TsnMod
Numbers ==
  faults["restart"] = 0 =>
    /\ \A i \in 1 .. Len(sent) : Len(sent) + 1 - i < TsnMod =>
         \E g \in 1 .. Len(sent) + 1 - i :
           devtsn[sent[i].dev] = Later(sent[i].data.tsn, g)
    /\ \A i, j \in 1 .. Len(sent) :
         i < j /\ sent[i].dev = sent[j].dev /\ j - i < TsnMod
           => sent[i].data.tsn # sent[j].data.tsn

\* Messages are published in order, and those that wait for their address next.
Listed(k) == handlers["nwk"][k].for = "zcl"
Behind(n) ==
  /\ \A k \in 1 .. Len(handlers["nwk"]) : Listed(k) => handlers["nwk"][k].id < n
  /\ \A k \in 1 .. Len(published) : Told(k) => published[k].id < n
Ordered ==
  /\ OnceInOrder
  /\ \A i, j \in 1 .. Len(handlers["nwk"]) :
       i < j /\ Listed(i) /\ Listed(j) => handlers["nwk"][i].id < handlers["nwk"][j].id
  /\ \A i \in 1 .. Len(published) : \A j \in 1 .. Len(handlers["nwk"]) :
       Told(i) /\ Listed(j) => published[i].id < handlers["nwk"][j].id

\* The filter: of what address a sent to the endpoint, message p came last.
Ours(k) == fromDongle[k].op = "incoming" /\ sent[fromDongle[k].id].dst = endpoint_
From(k, a) == Ours(k) /\ sent[fromDongle[k].id].src = a
Done(i) ==
  \/ faults["refusal"] + faults["drop"] > 0
  \/ sent[i].data.body \notin Known
  \/ Repeats(i)
  \/ \E k \in 1 .. Len(published) : Told(k) /\ published[k].id = i
  \/ \E k \in 1 .. Len(handlers["nwk"]) : Listed(k) /\ handlers["nwk"][k].id = i

\* The place k of the line holds the first copy of a message.
FirstCopy(k) ==
  /\ Behind(fromDongle[k].id)
  /\ \A j \in 1 .. k - 1 : Ours(j) => fromDongle[j].id < fromDongle[k].id
Again(k) ==
  \E j \in 1 .. k - 1 : Ours(j) /\ fromDongle[j].id = fromDongle[k].id

Last(a, p) ==
  IF p = 0 THEN last_msg_[a] = <<>>
  ELSE last_msg_[a] = sent[p].data /\ sent[p].src = a /\ sent[p].dst = endpoint_
InTurn(k, a, p) ==
  From(k, a) =>
    /\ p <= fromDongle[k].id
    /\ \A j \in 1 .. k - 1 : From(j, a) => fromDongle[j].id <= fromDongle[k].id
    /\ p < fromDongle[k].id => FirstCopy(k) \/ Again(k)
Coming(a, p) == \A k \in 1 .. Len(fromDongle) : InTurn(k, a, p)
Treated(a, p) ==
  \A i \in 1 .. Len(sent) : sent[i].src = a /\ sent[i].dst = endpoint_ =>
    IF p < i THEN \E k \in 1 .. Len(fromDongle) : Ours(k) /\ fromDongle[k].id = i
    ELSE Done(i)
Filter ==
  \A a \in Addrs : \E p \in 0 .. Len(sent) :
    Last(a, p) /\ Coming(a, p) /\ Treated(a, p)

Refused ==
  \A k \in 1 .. Len(fromDongle) :
    fromDongle[k].op # "incoming" /\ ~fromDongle[k].ok => faults["refusal"] > 0

Inv ==
  /\ TypeOK /\ Ids /\ Places /\ Refused
  /\ Match("nwk") /\ Match("ext") /\ AirOrder /\ AirNumbers /\ AirPlaces
  /\ Numbers /\ Ordered /\ Filter /\ RightDevice

-----------------------------------------------------------------------------
(* Types.                                                                   *)

\* The assumptions on the constants, in one place.
LEMMA Constants ==
  /\ Home \in [Devices -> Addrs]
  /\ \A d, e \in Devices : Home[d] = Home[e] => d = e
  /\ Known \subseteq Bodies /\ NoDevice \notin Devices
  /\ TsnMod \in Nat /\ TsnMod > 1
BY HomeAssumption, KnownAssumption, TsnAssumption

\* What a counter modulo TsnMod does.
LEMMA Modulo ==
  ASSUME NEW t \in 0 .. TsnMod - 1
  PROVE  /\ (t + 1) % TsnMod \in 0 .. TsnMod - 1
         /\ (t + 1) % TsnMod = Later(t, 1)
         /\ (t + 1) % TsnMod # t
<1>1. TsnMod \in Nat /\ TsnMod > 1
  BY Constants
<1>2. CASE t + 1 = TsnMod
  <2>1. TsnMod % TsnMod = 0
    BY <1>1
  <2> QED BY <1>1, <1>2, <2>1 DEF Later
<1>3. CASE t + 1 < TsnMod
  <2>1. (t + 1) % TsnMod = t + 1
    BY <1>1, <1>3
  <2> QED BY <1>1, <1>3, <2>1 DEF Later
<1> QED BY <1>1, <1>2, <1>3

\* The frame at the front of a line, and what is left of it.
LEMMA Front ==
  ASSUME NEW S, NEW s \in Seq(S), s # <<>>
  PROVE  /\ Len(s) \in Nat /\ Len(s) >= 1 /\ Head(s) = s[1] /\ Head(s) \in S
         /\ Tail(s) \in Seq(S) /\ Len(Tail(s)) = Len(s) - 1
         /\ \A i \in 1 .. Len(Tail(s)) : i + 1 \in 1 .. Len(s) /\ Tail(s)[i] = s[i + 1]
<1>1. /\ Len(s) \in Nat /\ 1 \in 1 .. Len(s) /\ Head(s) = s[1] /\ Head(s) \in S
      /\ Tail(s) \in Seq(S) /\ Len(Tail(s)) = Len(s) - 1
      /\ \A i \in 1 .. Len(Tail(s)) : i + 1 \in 1 .. Len(s) /\ Tail(s)[i] = s[i + 1]
  BY HeadTail
<1> QED BY <1>1

\* An element behind a list.
LEMMA Back ==
  ASSUME NEW S, NEW s \in Seq(S), NEW e \in S
  PROVE  /\ Append(s, e) \in Seq(S) /\ Len(s) \in Nat /\ Len(Append(s, e)) = Len(s) + 1
         /\ \A i \in 1 .. Len(s) : Append(s, e)[i] = s[i]
         /\ Append(s, e)[Len(s) + 1] = e
BY AppendProperties, LenProperties


-----------------------------------------------------------------------------
(* What the steps of OnFrame do, list by list.                              *)

\* A message is heard: the handlers and the lookups that are added for it.
Heard(asked, asks) ==
  LET i == Head(fromDongle).id
      new == sent[i].dst = endpoint_ /\ last_msg_[sent[i].src] # sent[i].data
  IN /\ i \in 1 .. Len(sent) /\ sent[i] \in Messages
     /\ handlers' = [handlers EXCEPT !["nwk"] = @ \o asked]
     /\ toDongle' = toDongle \o asks
     /\ Len(asked) = Len(asks)
     /\ \A k \in 1 .. Len(asked) :
          asked[k].for # "command" /\ asked[k].id = i /\ asks[k].key = sent[i].src
     /\ \A k \in 1 .. Len(asked) :
          asked[k].for = "zcl" => k = 1 /\ new /\ sent[i].data.body \in Known
     /\ new /\ sent[i].data.body \in Known => Len(asked) >= 1 /\ asked[1].for = "zcl"
     /\ last_msg_' = IF new THEN [last_msg_ EXCEPT ![sent[i].src] = sent[i].data]
                     ELSE last_msg_
     /\ UNCHANGED <<send_trans_seq_nums_, published, commands>>

\* OnIncomingMsg hears a message.
LEMMA Hearing ==
  ASSUME TypeOK, Ids, OnFrame, Head(fromDongle).op = "incoming"
  PROVE  \E asked \in Seq(Handlers) : \E asks \in Seq(Asks("nwk")) : Heard(asked, asks)
<1> DEFINE i == Head(fromDongle).id
           m == sent[i]
           ask == [op |-> "nwk", key |-> m.src]
           asked == Asked(m, i)
           asks == [k \in DOMAIN asked |-> ask]
           zcl == [for |-> "zcl", id |-> i]
           link == [for |-> "link", id |-> i]
           new == m.dst = endpoint_ /\ last_msg_[m.src] # m.data
<1>1. i \in 1 .. Len(sent) /\ Len(sent) \in Nat /\ m \in Messages
  <2>1. fromDongle \in Seq(Frames) /\ fromDongle # <<>>
    BY DEF TypeOK, OnFrame
  <2>2. Head(fromDongle) = fromDongle[1] /\ 1 \in 1 .. Len(fromDongle)
    BY <2>1, Front
  <2>3. i \in 1 .. Len(sent)
    BY <2>2 DEF Ids
  <2> QED BY <2>3, ElementOfSeq, LenProperties DEF TypeOK
<1>2. zcl \in Handlers /\ link \in Handlers /\ ask \in Asks("nwk")
  BY <1>1 DEF Handlers, Asks, Requests, Messages
<1>3. OnIncomingMsg(Head(fromDongle))
  BY DEF OnFrame
<1>4. asked = IF new /\ m.data.body \in Known THEN <<zcl, link>> ELSE <<link>>
  BY DEF Asked, IsDuplicate
<1>5. /\ last_msg_' = IF new THEN [last_msg_ EXCEPT ![m.src] = m.data] ELSE last_msg_
      /\ handlers' = [handlers EXCEPT !["nwk"] = @ \o asked]
      /\ toDongle' = toDongle \o asks
      /\ UNCHANGED <<send_trans_seq_nums_, published, commands>>
  BY <1>3 DEF OnIncomingMsg, IsDuplicate
<1>6. /\ asked \in Seq(Handlers) /\ Len(asked) \in {1, 2} /\ DOMAIN asked = 1 .. Len(asked)
      /\ \A k \in 1 .. Len(asked) : asked[k].for # "command" /\ asked[k].id = i
      /\ \A k \in 1 .. Len(asked) :
           asked[k].for = "zcl" => k = 1 /\ new /\ m.data.body \in Known
      /\ new /\ m.data.body \in Known => asked[1].for = "zcl"
  <2> HIDE DEF i, m, asked, new
  <2>1. CASE new /\ m.data.body \in Known
    <3>1. asked = <<zcl, link>>
      BY <1>4, <2>1
    <3>2. Len(asked) = 2 /\ asked[1] = zcl /\ asked[2] = link /\ asked \in Seq(Handlers)
          /\ DOMAIN asked = 1 .. 2
      BY <1>2, <3>1
    <3> QED BY <2>1, <3>2
  <2>2. CASE ~(new /\ m.data.body \in Known)
    <3>1. asked = <<link>>
      BY <1>4, <2>2
    <3>2. Len(asked) = 1 /\ asked[1] = link /\ asked \in Seq(Handlers) /\ DOMAIN asked = 1 .. 1
      BY <1>2, <3>1
    <3> QED BY <2>2, <3>2
  <2> QED BY <2>1, <2>2
<1>7. /\ asks \in Seq(Asks("nwk")) /\ Len(asks) = Len(asked)
      /\ \A k \in 1 .. Len(asked) : asks[k] = ask
  <2>1. asks = [k \in 1 .. Len(asked) |-> ask]
    BY <1>6
  <2> HIDE DEF asks, asked, ask
  <2>2. asks \in [1 .. Len(asked) -> Asks("nwk")] /\ Len(asked) \in Nat
    BY <1>2, <1>6, <2>1
  <2>3. asks \in Seq(Asks("nwk"))
    BY <2>2, SeqDef
  <2>4. DOMAIN asks = 1 .. Len(asked)
    BY <2>2
  <2>5. Len(asks) = Len(asked)
    BY <2>2, <2>3, <2>4, LenProperties
  <2> QED BY <2>1, <2>3, <2>5
<1>8. Heard(asked, asks)
  <2>1. \A k \in 1 .. Len(asked) : asks[k].key = m.src
    BY <1>7
  <2> HIDE DEF asked, asks
  <2> QED BY <1>1, <1>5, <1>6, <1>7, <2>1 DEF Heard
<1> QED BY <1>6, <1>7, <1>8

\* The handler of a lookup takes its answer.
Taken(l) ==
  LET f == Head(fromDongle)
      h == handlers[l][1]
  IN /\ f \in Frames /\ f.op = l /\ l \in Lookups
     /\ h \in Handlers /\ handlers[l] # <<>>
     /\ handlers' = [handlers EXCEPT ![l] = Tail(@)]
     /\ UNCHANGED <<last_msg_, commands>>

\* An answer to a lookup by short address, and what is published at it.
LEMMA NwkAnswered ==
  ASSUME TypeOK, Ids, OnFrame, Head(fromDongle).op = "nwk"
  PROVE  LET f == Head(fromDongle)
             h == handlers["nwk"][1]
             p == [what |-> h.for, topic |-> f.value, id |-> h.id]
         IN /\ Taken("nwk") /\ UNCHANGED <<send_trans_seq_nums_, toDongle>>
            /\ h.id \in 1 .. Len(sent) /\ h.for \in {"zcl", "link"}
            /\ f.ok => f.value \in Devices \cup {NoDevice} /\ p \in Publications
            /\ IF f.ok THEN published' = Append(published, p) ELSE published' = published
<1> DEFINE f == Head(fromDongle)
           h == handlers["nwk"][1]
<1>1. OnLookup(f) /\ handlers["nwk"] # <<>>
  BY DEF OnFrame, OnLookup
<1>2. f \in Frames /\ handlers["nwk"] \in Seq(Handlers)
  BY Front DEF TypeOK, OnFrame, Lookups
<1>3. h \in Handlers /\ h = Head(handlers["nwk"]) /\ 1 \in 1 .. Len(handlers["nwk"])
  BY <1>1, <1>2, Front
<1>4. h.id \in 1 .. Len(sent) /\ h.for \in {"zcl", "link"}
  BY <1>3 DEF Ids, Handlers
<1>5. f.ok => f.value \in Devices \cup {NoDevice}
  BY <1>2 DEF Frames
<1>6. Taken("nwk")
  BY <1>1, <1>2, <1>3 DEF Taken, OnLookup, Served, Lookups
<1>7. /\ UNCHANGED <<send_trans_seq_nums_, toDongle>>
      /\ IF f.ok THEN published' = Append(published, [what |-> h.for, topic |-> f.value, id |-> h.id])
         ELSE published' = published
  BY <1>1, <1>3 DEF OnLookup, Served, Publish
<1>8. h.id \in Nat
  BY <1>3 DEF Handlers
<1>9. f.ok => [what |-> h.for, topic |-> f.value, id |-> h.id] \in Publications
  BY <1>4, <1>5, <1>8 DEF Publications
<1> QED BY <1>4, <1>5, <1>6, <1>7, <1>9

\* An answer to a lookup by IEEE address, and the command sent at it.
LEMMA ExtAnswered ==
  ASSUME TypeOK, OnFrame, Head(fromDongle).op = "ext"
  PROVE  LET f == Head(fromDongle)
             h == handlers["ext"][1]
             a == f.value
             c == [op |-> "data", key |-> a, tsn |-> send_trans_seq_nums_[a], id |-> h.id]
         IN /\ Taken("ext") /\ UNCHANGED published
            /\ f.ok => a \in Addrs /\ c \in Commands
            /\ IF f.ok
               THEN /\ toDongle' = Append(toDongle, c)
                    /\ send_trans_seq_nums_' =
                         [send_trans_seq_nums_ EXCEPT ![a] = (@ + 1) % TsnMod]
               ELSE UNCHANGED <<toDongle, send_trans_seq_nums_>>
<1> DEFINE f == Head(fromDongle)
           h == handlers["ext"][1]
<1>1. OnLookup(f) /\ handlers["ext"] # <<>>
  BY DEF OnFrame, OnLookup
<1>2. f \in Frames /\ handlers["ext"] \in Seq(Handlers)
  BY Front DEF TypeOK, OnFrame, Lookups
<1>3. h \in Handlers /\ h = Head(handlers["ext"])
  BY <1>1, <1>2, Front
<1>5. f.ok => f.value \in Addrs
  BY <1>2 DEF Frames
<1>6. Taken("ext")
  BY <1>1, <1>2, <1>3 DEF Taken, OnLookup, Served, Lookups
<1>7. /\ UNCHANGED published
      /\ IF f.ok
         THEN /\ toDongle' = Append(toDongle, [op |-> "data", key |-> f.value,
                               tsn |-> send_trans_seq_nums_[f.value], id |-> h.id])
              /\ send_trans_seq_nums_' =
                   [send_trans_seq_nums_ EXCEPT ![f.value] = (@ + 1) % TsnMod]
         ELSE UNCHANGED <<toDongle, send_trans_seq_nums_>>
  BY <1>1, <1>3 DEF OnLookup, Served, SendCommand, NextTransSeqNumFor
<1>8. f.ok => [op |-> "data", key |-> f.value, tsn |-> send_trans_seq_nums_[f.value],
               id |-> h.id] \in Commands
  BY <1>3, <1>5 DEF Handlers, TypeOK, Commands
<1> QED BY <1>5, <1>6, <1>7, <1>8

\* OnFrame hears a message or takes an answer of one of the two kinds.
LEMMA FrameKinds ==
  ASSUME TypeOK, OnFrame
  PROVE  /\ fromDongle \in Seq(Frames) /\ fromDongle # <<>> /\ fromDongle' = Tail(fromDongle)
         /\ UNCHANGED <<home, former, devtsn, sent, radio, faults>>
         /\ Head(fromDongle).op \in {"incoming", "nwk", "ext"}
<1>1. fromDongle \in Seq(Frames) /\ fromDongle # <<>> /\ fromDongle' = Tail(fromDongle)
  BY DEF TypeOK, OnFrame
<1>2. Head(fromDongle) \in Frames
  BY <1>1, Front
<1>3. Head(fromDongle).op \in {"incoming", "nwk", "ext"}
  BY <1>2 DEF Frames, Lookups
<1> QED BY <1>1, <1>3 DEF OnFrame, netVars

-----------------------------------------------------------------------------
(* Types.                                                                   *)

\* The counters of a device or of the hub are counted up.
LEMMA Counters ==
  ASSUME NEW D, NEW f \in [D -> 0 .. TsnMod - 1], NEW d \in D
  PROVE  [f EXCEPT ![d] = (@ + 1) % TsnMod] \in [D -> 0 .. TsnMod - 1]
<1>1. (f[d] + 1) % TsnMod \in 0 .. TsnMod - 1
  BY Modulo
<1> QED BY <1>1

\* Every step keeps the types.
LEMMA TypeStep ==
  ASSUME TypeOK, Ids, Next
  PROVE  TypeOK'
<1> USE DEF TypeOK, netVars, hubVars
<1>0. /\ TsnMod \in Nat /\ 0 \in 0 .. TsnMod - 1
      /\ \A t \in 0 .. TsnMod - 1 : (t + 1) % TsnMod \in 0 .. TsnMod - 1
  <2>1. TsnMod \in Nat /\ TsnMod > 1
    BY Constants
  <2>2. ASSUME NEW t \in 0 .. TsnMod - 1
        PROVE  (t + 1) % TsnMod \in 0 .. TsnMod - 1
    BY Modulo
  <2> QED BY <2>1, <2>2
<1>1. ASSUME NEW k \in Kinds, Fault(k)
      PROVE  faults' \in [Kinds -> Nat]
  BY <1>1 DEF Fault
<1>2. CASE OnFrame
  <2> DEFINE f == Head(fromDongle)
  <2>1. f \in Frames /\ fromDongle' \in Seq(Frames)
    BY <1>2, Front DEF OnFrame
  <2>4. UNCHANGED <<home, former, devtsn, sent, radio, faults>>
    BY <1>2, FrameKinds
  <2>2. CASE f.op = "incoming"
    <3>1. PICK asked \in Seq(Handlers), asks \in Seq(Asks("nwk")) :
             Heard(asked, asks)
      BY <1>2, <2>2, Hearing
    <3>2. handlers' \in [Lookups -> Seq(Handlers)]
      <4>1. handlers["nwk"] \in Seq(Handlers)
        BY DEF Lookups
      <4>2. handlers["nwk"] \o asked \in Seq(Handlers)
        BY <4>1, ConcatProperties
      <4> QED BY <3>1, <4>2 DEF Heard
    <3>3. toDongle' \in Seq(Requests)
      <4>1. asks \in Seq(Requests)
        BY DEF Asks
      <4> QED BY <3>1, <4>1, ConcatProperties DEF Heard
    <3>4. last_msg_' \in [Addrs -> {<<>>} \cup Data]
      BY <3>1 DEF Heard, Messages
    <3> QED BY <1>2, <2>1, <3>1, <3>2, <3>3, <3>4 DEF OnFrame, Heard
  <2>3. CASE f.op \in Lookups
    <3>1. Taken(f.op)
      BY <1>2, <2>3, NwkAnswered, ExtAnswered DEF Lookups
    <3>2. handlers' \in [Lookups -> Seq(Handlers)]
      <4>1. Tail(handlers[f.op]) \in Seq(Handlers)
        BY <2>3, <3>1, Front DEF Taken
      <4> QED BY <2>3, <3>1, <4>1 DEF Taken
    <3>3. CASE f.op = "nwk"
      <4>1. published' \in Seq(Publications)
        <5>1. published' = published \/ \E p \in Publications : published' = Append(published, p)
          BY <1>2, <3>3, NwkAnswered
        <5>2. ASSUME NEW p \in Publications
              PROVE  Append(published, p) \in Seq(Publications)
          BY Back
        <5> QED BY <5>1, <5>2
      <4>2. UNCHANGED <<toDongle, send_trans_seq_nums_>>
        BY <1>2, <3>3, NwkAnswered
      <4> QED BY <2>1, <2>4, <3>1, <3>2, <4>1, <4>2 DEF Taken
    <3>4. CASE f.op = "ext"
      <4>1. toDongle' \in Seq(Requests)
        <5>1. ASSUME NEW c \in Commands
              PROVE  Append(toDongle, c) \in Seq(Requests)
          <6>1. c \in Requests
            BY DEF Requests
          <6> QED BY <6>1, Back
        <5>2. toDongle' = toDongle \/ \E c \in Commands : toDongle' = Append(toDongle, c)
          BY <1>2, <3>4, ExtAnswered
        <5> QED BY <5>1, <5>2
      <4>2. send_trans_seq_nums_' \in [Addrs -> 0 .. TsnMod - 1]
        <5>0. send_trans_seq_nums_ \in [Addrs -> 0 .. TsnMod - 1]
          OBVIOUS
        <5>1. \/ send_trans_seq_nums_' = send_trans_seq_nums_
              \/ \E a \in Addrs : send_trans_seq_nums_' =
                   [send_trans_seq_nums_ EXCEPT ![a] = (@ + 1) % TsnMod]
          BY <1>2, <3>4, ExtAnswered
        <5>2. ASSUME NEW a \in Addrs
              PROVE  [send_trans_seq_nums_ EXCEPT ![a] = (@ + 1) % TsnMod]
                       \in [Addrs -> 0 .. TsnMod - 1]
          BY <5>0, Counters
        <5>3. CASE send_trans_seq_nums_' = send_trans_seq_nums_
          BY <5>0, <5>3
        <5>4. ASSUME NEW a \in Addrs,
                     send_trans_seq_nums_' = [send_trans_seq_nums_ EXCEPT ![a] = (@ + 1) % TsnMod]
              PROVE  send_trans_seq_nums_' \in [Addrs -> 0 .. TsnMod - 1]
          BY <5>2, <5>4
        <5> QED BY <5>1, <5>3, <5>4
      <4>3. UNCHANGED published
        BY <1>2, <3>4, ExtAnswered
      <4> QED BY <2>1, <2>4, <3>1, <3>2, <4>1, <4>2, <4>3 DEF Taken
    <3> QED BY <2>3, <3>3, <3>4 DEF Lookups
  <2> QED BY <1>2, <2>2, <2>3, FrameKinds DEF Lookups
<1>3. ASSUME NEW d \in Devices, OnPublish(d)
      PROVE  TypeOK'
  <2>1. [for |-> "command", id |-> Len(commands) + 1] \in Handlers
    BY LenProperties DEF Handlers
  <2>2. [op |-> "ext", key |-> d] \in Requests
    BY DEF Requests
  <2>3. handlers' \in [Lookups -> Seq(Handlers)]
    <3>1. handlers["ext"] \in Seq(Handlers)
      BY DEF Lookups
    <3>2. Append(handlers["ext"], [for |-> "command", id |-> Len(commands) + 1]) \in Seq(Handlers)
      BY <2>1, <3>1, Back
    <3> QED BY <1>3, <3>2 DEF OnPublish
  <2>4. toDongle' \in Seq(Requests) /\ commands' \in Seq(Devices)
    BY <1>3, <2>2, Back DEF OnPublish
  <2> QED BY <1>3, <2>3, <2>4 DEF OnPublish
<1>4. ASSUME NEW d \in Devices, Report(d)
      PROVE  TypeOK'
  <2>1. PICK body \in Bodies, dst \in {endpoint_, 2} :
          sent' = Append(sent, [dev |-> d, src |-> home[d], dst |-> dst,
                                data |-> [tsn |-> devtsn[d], body |-> body]])
    BY <1>4 DEF Report
  <2>2. [dev |-> d, src |-> home[d], dst |-> dst,
         data |-> [tsn |-> devtsn[d], body |-> body]] \in Messages
    BY DEF Messages, Data
  <2>3. sent' \in Seq(Messages) /\ Len(sent') \in Nat
    BY <2>1, <2>2, Back
  <2>4. [op |-> "incoming", id |-> Len(sent')] \in Frames
    BY <2>3 DEF Frames
  <2>5. fromDongle' \in Seq(Frames)
    BY <1>4, <2>4, Back DEF Report
  <2>6. devtsn' \in [Devices -> 0 .. TsnMod - 1]
    BY <1>0, <1>4 DEF Report
  <2> QED BY <1>4, <2>3, <2>5, <2>6 DEF Report
<1>5. ASSUME NEW d \in Devices, Resend(d)
      PROVE  TypeOK'
  <2>1. PICK i \in DOMAIN sent : fromDongle' = Append(fromDongle, [op |-> "incoming", id |-> i])
    BY <1>5 DEF Resend
  <2>2. i \in Nat
    BY LenProperties
  <2>3. [op |-> "incoming", id |-> i] \in Frames
    BY <2>2 DEF Frames
  <2>4. fromDongle' \in Seq(Frames)
    BY <2>1, <2>3, Back
  <2> QED BY <1>1, <1>5, <2>4 DEF Resend, Kinds
<1>6. ASSUME NEW d \in Devices, DeviceRestarts(d)
      PROVE  TypeOK'
  BY <1>0, <1>1, <1>6 DEF DeviceRestarts, Kinds
<1>7. ASSUME NEW d \in Devices, Rejoin(d)
      PROVE  TypeOK'
  BY <1>1, <1>7 DEF Rejoin, Kinds
<1>8. CASE DongleServe
  <2> DEFINE r == Head(toDongle)
  <2>1. r \in Requests /\ toDongle' \in Seq(Requests)
    BY <1>8, Front DEF DongleServe
  <2>2. CASE r.op = "data"
    <3>1. r \in Commands
      BY <2>1, <2>2 DEF Requests
    <3>2. radio' = Append(radio, r) /\ UNCHANGED <<fromDongle, faults>>
      BY <1>8, <2>2 DEF DongleServe
    <3>3. radio' \in Seq(Commands)
      BY <3>1, <3>2, Back
    <3> QED BY <1>8, <2>1, <3>2, <3>3 DEF DongleServe
  <2>3. CASE r.op # "data"
    <3>1. r.op \in Lookups /\ (r.op = "nwk" => r.key \in Addrs) /\ (r.op = "ext" => r.key \in Devices)
      BY <2>1, <2>3 DEF Requests, Commands, Lookups
    <3>2. [op |-> r.op, ok |-> FALSE] \in Frames
      BY <3>1 DEF Frames
    <3>3. [op |-> r.op, ok |-> TRUE, value |-> Found(r)] \in Frames
      <4>1. r.op = "ext" => Found(r) \in Addrs
        BY <3>1 DEF Found
      <4>2. r.op = "nwk" => Found(r) \in Devices \cup {NoDevice}
        BY DEF Found
      <4> QED BY <3>1, <4>1, <4>2 DEF Frames, Lookups
    <3>4. radio' = radio
      BY <1>8, <2>3 DEF DongleServe
    <3>7. \/ fromDongle' = Append(fromDongle, [op |-> r.op, ok |-> FALSE])
          \/ fromDongle' = Append(fromDongle,
               [op |-> r.op, ok |-> TRUE, value |-> Found(r)])
      BY <1>8, <2>3 DEF DongleServe, Answer
    <3>6. fromDongle' \in Seq(Frames)
      <4>1. \E f \in Frames : fromDongle' = Append(fromDongle, f)
        BY <3>2, <3>3, <3>7
      <4> QED BY <4>1, Back
    <3>5. faults' \in [Kinds -> Nat]
      BY <1>1, <1>8 DEF DongleServe, Kinds
    <3> QED BY <1>8, <2>1, <3>4, <3>5, <3>6 DEF DongleServe
  <2> QED BY <2>2, <2>3
<1>9. CASE LoseFrame
  <2>1. fromDongle' \in Seq(Frames)
    BY <1>9, Front DEF LoseFrame
  <2> QED BY <1>1, <1>9, <2>1 DEF LoseFrame, Kinds
<1> QED BY <1>2, <1>3, <1>4, <1>5, <1>6, <1>7, <1>8, <1>9 DEF Next

-----------------------------------------------------------------------------
(* Ids, addresses and faults.                                               *)

\* A fault is counted and no other.
LEMMA FaultCounts ==
  ASSUME TypeOK, NEW kind \in Kinds, Fault(kind)
  PROVE  /\ faults'[kind] = faults[kind] + 1 /\ faults[kind] \in Nat
         /\ \A k \in Kinds : k # kind => faults'[k] = faults[k]
         /\ \A k \in Kinds : faults[k] \in Nat /\ faults'[k] \in Nat /\ faults[k] <= faults'[k]
BY DEF TypeOK, Fault

\* What was sent and what was asked for stays, and no fault is forgotten.
LEMMA Grows ==
  ASSUME TypeOK, Next
  PROVE  /\ Len(sent) \in Nat /\ Len(sent') \in Nat /\ Len(sent) <= Len(sent')
         /\ \A i \in 1 .. Len(sent) : sent'[i] = sent[i] /\ i \in 1 .. Len(sent')
         /\ Len(commands) \in Nat /\ Len(commands') \in Nat /\ Len(commands) <= Len(commands')
         /\ \A i \in 1 .. Len(commands) : commands'[i] = commands[i] /\ i \in 1 .. Len(commands')
         /\ \A k \in Kinds : faults[k] \in Nat /\ faults'[k] \in Nat /\ faults[k] <= faults'[k]
<1>1. /\ sent \in Seq(Messages) /\ commands \in Seq(Devices) /\ faults \in [Kinds -> Nat]
      /\ Len(sent) \in Nat /\ Len(commands) \in Nat
  BY LenProperties DEF TypeOK
<1>2. /\ Len(sent') \in Nat /\ Len(sent) <= Len(sent')
      /\ \A i \in 1 .. Len(sent) : sent'[i] = sent[i] /\ i \in 1 .. Len(sent')
  <2>1. CASE \E d \in Devices : Report(d)
    <3>1. PICK m \in Messages : sent' = Append(sent, m)
      <4>1. ASSUME NEW d \in Devices, NEW body \in Bodies, NEW dst \in {endpoint_, 2}
            PROVE  [dev |-> d, src |-> home[d], dst |-> dst,
                    data |-> [tsn |-> devtsn[d], body |-> body]] \in Messages
        BY DEF Messages, Data, TypeOK
      <4> QED BY <2>1, <4>1 DEF Report
    <3> QED BY <1>1, <3>1, Back
  <2>2. CASE ~\E d \in Devices : Report(d)
    <3>1. sent' = sent
      BY <2>2 DEF Next, OnFrame, OnPublish, Resend, DeviceRestarts, Rejoin, DongleServe,
                  LoseFrame, netVars
    <3> QED BY <1>1, <3>1
  <2> QED BY <2>1, <2>2
<1>3. /\ Len(commands') \in Nat /\ Len(commands) <= Len(commands')
      /\ \A i \in 1 .. Len(commands) : commands'[i] = commands[i] /\ i \in 1 .. Len(commands')
  <2>1. CASE \E d \in Devices : OnPublish(d)
    <3>1. PICK d \in Devices : commands' = Append(commands, d)
      BY <2>1 DEF OnPublish
    <3> QED BY <1>1, <3>1, Back
  <2>2. CASE ~\E d \in Devices : OnPublish(d)
    <3>1. commands' = commands
      BY <2>2 DEF Next, OnFrame, OnIncomingMsg, OnLookup, Report, Resend, DeviceRestarts,
                  Rejoin, DongleServe, LoseFrame, hubVars
    <3> QED BY <1>1, <3>1
  <2> QED BY <2>1, <2>2
<1>4. \A k \in Kinds : faults[k] \in Nat /\ faults'[k] \in Nat /\ faults[k] <= faults'[k]
  <2>1. CASE \E kind \in Kinds : Fault(kind)
    BY <2>1, FaultCounts
  <2>2. CASE ~\E kind \in Kinds : Fault(kind)
    <3>1. faults' = faults
      BY <2>2 DEF Next, OnFrame, OnPublish, Report, Resend, DeviceRestarts,
                  Rejoin, DongleServe, LoseFrame, Kinds
    <3> QED BY <1>1, <3>1
  <2> QED BY <2>1, <2>2
<1> QED BY <1>1, <1>2, <1>3, <1>4

\* What the line from the dongle holds after a step, it held before or got at its end.
LEMMA Arrivals ==
  ASSUME TypeOK, Next
  PROVE  \E f \in Frames :
           /\ \/ fromDongle' = Tail(fromDongle) /\ fromDongle # <<>>
              \/ fromDongle' = fromDongle
              \/ fromDongle' = Append(fromDongle, f)
           /\ \A k \in 1 .. Len(fromDongle') :
                fromDongle'[k] = f \/ \E j \in 1 .. Len(fromDongle) : fromDongle'[k] = fromDongle[j]
           /\ f.op = "incoming" => f.id \in 1 .. Len(sent')
           /\ f.op # "incoming" /\ ~f.ok => faults'["refusal"] > 0
<1> DEFINE Arrives(f) ==
             /\ \/ fromDongle' = Tail(fromDongle) /\ fromDongle # <<>>
                \/ fromDongle' = fromDongle
                \/ fromDongle' = Append(fromDongle, f)
             /\ f.op = "incoming" => f.id \in 1 .. Len(sent')
             /\ f.op # "incoming" /\ ~f.ok => faults'["refusal"] > 0
<1>0. fromDongle \in Seq(Frames) /\ Len(fromDongle) \in Nat
  BY LenProperties DEF TypeOK
<1>1. \E f \in Frames : Arrives(f)
  <2>1. CASE OnFrame \/ LoseFrame \/ \E d \in Devices : OnPublish(d) \/ DeviceRestarts(d) \/ Rejoin(d)
    <3> DEFINE f == [op |-> "nwk", ok |-> TRUE, value |-> NoDevice]
    <3>1. f \in Frames /\ f.op # "incoming" /\ f.ok
      BY DEF Frames
    <3>2. \/ fromDongle' = Tail(fromDongle) /\ fromDongle # <<>>
          \/ fromDongle' = fromDongle
      BY <2>1 DEF OnFrame, LoseFrame, OnPublish, DeviceRestarts, Rejoin
    <3> QED BY <3>1, <3>2
  <2>2. ASSUME NEW i \in Nat, i \in 1 .. Len(sent'),
               fromDongle' = Append(fromDongle, [op |-> "incoming", id |-> i])
        PROVE  \E f \in Frames : Arrives(f)
    <3> DEFINE f == [op |-> "incoming", id |-> i]
    <3>1. f \in Frames
      BY DEF Frames
    <3> QED BY <2>2, <3>1
  <2>3. ASSUME NEW d \in Devices, Report(d)
        PROVE  \E f \in Frames : Arrives(f)
    <3>1. Len(sent') \in Nat /\ Len(sent') \in 1 .. Len(sent')
      <4>1. PICK m : sent' = Append(sent, m)
        BY <2>3 DEF Report
      <4>2. sent \in Seq(Messages \cup {m})
        BY ElementOfSeq, LenProperties, SeqDef DEF TypeOK
      <4>3. Len(sent') = Len(sent) + 1 /\ Len(sent) \in Nat
        BY <4>1, <4>2, AppendProperties, LenProperties
      <4> QED BY <4>3
    <3>2. fromDongle' = Append(fromDongle, [op |-> "incoming", id |-> Len(sent')])
      BY <2>3 DEF Report
    <3> QED BY <2>2, <3>1, <3>2
  <2>4. ASSUME NEW d \in Devices, Resend(d)
        PROVE  \E f \in Frames : Arrives(f)
    <3>1. PICK i \in DOMAIN sent : fromDongle' = Append(fromDongle, [op |-> "incoming", id |-> i])
      BY <2>4 DEF Resend
    <3>2. i \in Nat /\ i \in 1 .. Len(sent')
      BY <2>4, LenProperties DEF TypeOK, Resend, netVars
    <3> QED BY <2>2, <3>1, <3>2
  <2>5. CASE DongleServe
    <3> DEFINE r == Head(toDongle)
    <3>0. r \in Requests
      BY <2>5, Front DEF DongleServe, TypeOK
    <3>1. CASE r.op = "data"
      <4> DEFINE f == [op |-> "nwk", ok |-> TRUE, value |-> NoDevice]
      <4>1. f \in Frames /\ f.op # "incoming" /\ f.ok
        BY DEF Frames
      <4>2. fromDongle' = fromDongle
        BY <2>5, <3>1 DEF DongleServe
      <4> QED BY <4>1, <4>2
    <3>2. CASE r.op # "data"
      <4>0. r.op \in Lookups /\ (r.op = "nwk" => r.key \in Addrs) /\ (r.op = "ext" => r.key \in Devices)
        BY <3>0, <3>2 DEF Requests, Commands, Lookups
      <4>1. CASE Answer([op |-> r.op, ok |-> TRUE, value |-> Found(r)])
        <5> DEFINE f == [op |-> r.op, ok |-> TRUE, value |-> Found(r)]
        <5>1. f \in Frames
          <6>1. r.op = "ext" => Found(r) \in Addrs
            BY <4>0 DEF Found, TypeOK
          <6>2. r.op = "nwk" => Found(r) \in Devices \cup {NoDevice}
            BY DEF Found
          <6> QED BY <4>0, <6>1, <6>2 DEF Frames, Lookups
        <5>2. f.op # "incoming" /\ f.ok /\ fromDongle' = Append(fromDongle, f)
          BY <4>0, <4>1 DEF Lookups, Answer
        <5> HIDE DEF f
        <5> QED BY <5>1, <5>2
      <4>2. CASE Fault("refusal") /\ Answer([op |-> r.op, ok |-> FALSE])
        <5> DEFINE f == [op |-> r.op, ok |-> FALSE]
        <5>1. f \in Frames
          BY <4>0 DEF Frames
        <5>2. f.op # "incoming" /\ fromDongle' = Append(fromDongle, f)
          BY <4>0, <4>2 DEF Lookups, Answer
        <5>3. faults'["refusal"] > 0
          BY <4>2, FaultCounts DEF Kinds
        <5> HIDE DEF f
        <5> QED BY <5>1, <5>2, <5>3
      <4> QED BY <2>5, <3>2, <4>1, <4>2 DEF DongleServe
    <3> QED BY <3>1, <3>2
  <2> QED BY <2>1, <2>3, <2>4, <2>5 DEF Next
<1>2. PICK f \in Frames : Arrives(f)
  BY <1>1
<1>3. ASSUME NEW k \in 1 .. Len(fromDongle')
      PROVE  fromDongle'[k] = f \/ \E j \in 1 .. Len(fromDongle) : fromDongle'[k] = fromDongle[j]
  <2>1. CASE fromDongle' = Tail(fromDongle) /\ fromDongle # <<>>
    BY <1>0, <2>1, Front
  <2>2. CASE fromDongle' = Append(fromDongle, f)
    <3>1. k \in 1 .. Len(fromDongle) \/ k = Len(fromDongle) + 1
      BY <1>0, <2>2, Back
    <3> QED BY <1>0, <2>2, <3>1, Back
  <2>3. CASE fromDongle' = fromDongle
    BY <2>3
  <2> QED BY <1>2, <2>1, <2>2, <2>3
<1> QED BY <1>2, <1>3

\* The messages sent have their type.
LEMMA SentMessage ==
  ASSUME TypeOK, NEW i \in 1 .. Len(sent)
  PROVE  /\ sent[i] \in Messages /\ sent[i].dev \in Devices /\ sent[i].src \in Addrs
         /\ sent[i].dst \in {endpoint_, 2} /\ sent[i].data \in Data
         /\ sent[i].data.tsn \in 0 .. TsnMod - 1 /\ sent[i].data.body \in Bodies
<1>1. sent[i] \in Messages
  BY ElementOfSeq DEF TypeOK
<1>2. \A m \in Messages : /\ m.dev \in Devices /\ m.src \in Addrs
                          /\ m.dst \in {endpoint_, 2} /\ m.data \in Data
  BY DEF Messages
<1>3. \A x \in Data : x.tsn \in 0 .. TsnMod - 1 /\ x.body \in Bodies
  BY DEF Data
<1> QED BY <1>1, <1>2, <1>3

\* Where an element of two lists, one behind the other, comes from.
LEMMA Joined ==
  ASSUME NEW S, NEW s \in Seq(S), NEW t \in Seq(S)
  PROVE  /\ s \o t \in Seq(S) /\ Len(s) \in Nat /\ Len(t) \in Nat
         /\ Len(s \o t) = Len(s) + Len(t)
         /\ \A k \in 1 .. Len(s) : (s \o t)[k] = s[k]
         /\ \A k \in 1 .. Len(t) : (s \o t)[Len(s) + k] = t[k]
         /\ \A k \in 1 .. Len(s) + Len(t) :
              k \in 1 .. Len(s) \/ \E j \in 1 .. Len(t) : k = Len(s) + j
<1>1. /\ s \o t \in Seq(S) /\ Len(s) \in Nat /\ Len(t) \in Nat
      /\ Len(s \o t) = Len(s) + Len(t)
      /\ \A k \in 1 .. Len(s) + Len(t) :
           (s \o t)[k] = IF k <= Len(s) THEN s[k] ELSE t[k - Len(s)]
  BY ConcatProperties, LenProperties
<1>2. ASSUME NEW k \in 1 .. Len(t)
      PROVE  (s \o t)[Len(s) + k] = t[k]
  <2>1. Len(s) + k \in 1 .. Len(s) + Len(t) /\ ~(Len(s) + k <= Len(s)) /\ Len(s) + k - Len(s) = k
    BY <1>1
  <2> QED BY <1>1, <2>1
<1>3. ASSUME NEW k \in 1 .. Len(s) + Len(t), k \notin 1 .. Len(s)
      PROVE  \E j \in 1 .. Len(t) : k = Len(s) + j
  <2>1. k - Len(s) \in 1 .. Len(t) /\ k = Len(s) + (k - Len(s))
    BY <1>1, <1>3
  <2> QED BY <2>1
<1> QED BY <1>1, <1>2, <1>3

\* A device sends a message.
LEMMA Reporting ==
  ASSUME TypeOK, NEW d \in Devices, Report(d)
  PROVE  \E m \in Messages :
           /\ m.dev = d /\ m.src = home[d] /\ m.data.tsn = devtsn[d]
           /\ sent' = Append(sent, m) /\ Len(sent) \in Nat /\ Len(sent') = Len(sent) + 1
           /\ \A i \in 1 .. Len(sent) : sent'[i] = sent[i]
           /\ sent'[Len(sent) + 1] = m
           /\ fromDongle' = Append(fromDongle, [op |-> "incoming", id |-> Len(sent) + 1])
           /\ [op |-> "incoming", id |-> Len(sent) + 1] \in Frames
<1>1. PICK body \in Bodies, dst \in {endpoint_, 2} :
        sent' = Append(sent, [dev |-> d, src |-> home[d], dst |-> dst,
                              data |-> [tsn |-> devtsn[d], body |-> body]])
  BY DEF Report
<1> DEFINE m == [dev |-> d, src |-> home[d], dst |-> dst,
                 data |-> [tsn |-> devtsn[d], body |-> body]]
<1>2. m \in Messages
  BY DEF Messages, Data, TypeOK
<1>3. m.dev = d /\ m.src = home[d] /\ m.data.tsn = devtsn[d] /\ sent' = Append(sent, m)
  BY <1>1
<1> HIDE DEF m
<1>4. /\ Len(sent) \in Nat /\ Len(sent') = Len(sent) + 1
      /\ \A i \in 1 .. Len(sent) : sent'[i] = sent[i]
      /\ sent'[Len(sent) + 1] = m
  BY <1>2, <1>3, Back DEF TypeOK
<1>5. fromDongle' = Append(fromDongle, [op |-> "incoming", id |-> Len(sent) + 1])
  BY <1>4 DEF Report
<1>6. [op |-> "incoming", id |-> Len(sent) + 1] \in Frames
  <2>1. PICK n \in Nat : n = Len(sent) + 1
    BY <1>4
  <2> QED BY <2>1 DEF Frames
<1> QED BY <1>2, <1>3, <1>4, <1>5, <1>6

\* Every step keeps the ids within what was sent.
LEMMA IdsStep ==
  ASSUME TypeOK, Ids, Next
  PROVE  Ids'
<1>0. /\ Len(sent) \in Nat /\ Len(sent') \in Nat /\ Len(sent) <= Len(sent')
      /\ \A i \in 1 .. Len(sent) : i \in 1 .. Len(sent')
  BY Grows
<1>1. \A k \in 1 .. Len(fromDongle') :
        fromDongle'[k].op = "incoming" => fromDongle'[k].id \in 1 .. Len(sent')
  <2>1. PICK f \in Frames :
           /\ \A k \in 1 .. Len(fromDongle') :
                fromDongle'[k] = f \/ \E j \in 1 .. Len(fromDongle) : fromDongle'[k] = fromDongle[j]
           /\ f.op = "incoming" => f.id \in 1 .. Len(sent')
    BY Arrivals
  <2> QED BY <1>0, <2>1 DEF Ids
<1>2. \A k \in 1 .. Len(handlers'["nwk"]) :
        handlers'["nwk"][k].for # "command" /\ handlers'["nwk"][k].id \in 1 .. Len(sent')
  <2> DEFINE Fine(h) == h.for # "command" /\ h.id \in 1 .. Len(sent')
  <2>0. /\ handlers["nwk"] \in Seq(Handlers) /\ Len(handlers["nwk"]) \in Nat
        /\ \A k \in 1 .. Len(handlers["nwk"]) : Fine(handlers["nwk"][k])
    BY <1>0, LenProperties DEF Ids, TypeOK, Lookups
  <2>1. CASE OnFrame /\ Head(fromDongle).op = "incoming"
    <3>1. PICK asked \in Seq(Handlers), asks \in Seq(Asks("nwk")) : Heard(asked, asks)
      BY <2>1, Hearing
    <3>2. handlers'["nwk"] = handlers["nwk"] \o asked
      BY <3>1 DEF Heard, TypeOK, Lookups
    <3>3. Len(asked) \in Nat /\ \A k \in 1 .. Len(asked) : Fine(asked[k])
      BY <1>0, <3>1, LenProperties DEF Heard
    <3> DEFINE s == handlers["nwk"]
    <3>4. ASSUME NEW k \in 1 .. Len(s \o asked)
          PROVE  Fine((s \o asked)[k])
      <4>1. k \in 1 .. Len(s) \/ \E j \in 1 .. Len(asked) : k = Len(s) + j
        BY <2>0, Joined
      <4>2. CASE k \in 1 .. Len(s)
        <5>1. (s \o asked)[k] = s[k]
          BY <2>0, <4>2, Joined
        <5> QED BY <2>0, <4>2, <5>1
      <4>3. ASSUME NEW j \in 1 .. Len(asked), k = Len(s) + j
            PROVE  Fine((s \o asked)[k])
        <5>1. (s \o asked)[Len(s) + j] = asked[j]
          BY <2>0, Joined
        <5> QED BY <3>3, <4>3, <5>1
      <4> QED BY <4>1, <4>2, <4>3
    <3> QED BY <3>2, <3>4
  <2>2. CASE OnFrame /\ Head(fromDongle).op = "nwk"
    <3>1. handlers'["nwk"] = Tail(handlers["nwk"]) /\ handlers["nwk"] # <<>>
      BY <2>2, NwkAnswered DEF Taken, TypeOK, Lookups
    <3> QED BY <2>0, <3>1, Front
  <2>3. CASE ~OnFrame \/ Head(fromDongle).op = "ext"
    <3>1. handlers'["nwk"] = handlers["nwk"]
      <4>1. CASE OnFrame /\ Head(fromDongle).op = "ext"
        BY <4>1, ExtAnswered DEF Taken, TypeOK, Lookups
      <4>2. CASE \E d \in Devices : OnPublish(d)
        BY <4>2 DEF OnPublish, TypeOK, Lookups
      <4>3. CASE ~OnFrame /\ ~\E d \in Devices : OnPublish(d)
        BY <4>3 DEF Next, Report, Resend, DeviceRestarts, Rejoin, DongleServe, LoseFrame, hubVars
      <4> QED BY <2>3, <4>1, <4>2, <4>3
    <3> QED BY <2>0, <3>1
  <2> QED BY <2>1, <2>2, <2>3, FrameKinds
<1>3. \A k \in 1 .. Len(published') : published'[k].id \in 1 .. Len(sent')
  <2>1. CASE OnFrame /\ Head(fromDongle).op = "nwk"
    <3>1. published' = published \/
            \E p \in Publications : published' = Append(published, p) /\ p.id \in 1 .. Len(sent)
      BY <2>1, NwkAnswered
    <3>2. ASSUME NEW p \in Publications
          PROVE  /\ Len(Append(published, p)) = Len(published) + 1 /\ Len(published) \in Nat
                 /\ Append(published, p)[Len(published) + 1] = p
                 /\ \A k \in 1 .. Len(published) : Append(published, p)[k] = published[k]
      BY Back DEF TypeOK
    <3> QED BY <1>0, <3>1, <3>2 DEF Ids
  <2>2. CASE ~(OnFrame /\ Head(fromDongle).op = "nwk")
    <3>1. published' = published
      <4>1. CASE OnFrame
        <5>1. CASE Head(fromDongle).op = "incoming"
          BY <4>1, <5>1, Hearing DEF Heard
        <5>2. CASE Head(fromDongle).op = "ext"
          BY <4>1, <5>2, ExtAnswered
        <5> QED BY <2>2, <4>1, <5>1, <5>2, FrameKinds
      <4>2. CASE ~OnFrame
        BY <4>2 DEF Next, OnPublish, Report, Resend, DeviceRestarts, Rejoin, DongleServe,
                    LoseFrame, hubVars
      <4> QED BY <4>1, <4>2
    <3> QED BY <1>0, <3>1 DEF Ids
  <2> QED BY <2>1, <2>2
<1> QED BY <1>1, <1>2, <1>3 DEF Ids

\* An answer says no only after a refusal.
LEMMA RefusedStep ==
  ASSUME TypeOK, Refused, Next
  PROVE  Refused'
<1>1. PICK f \in Frames :
         /\ \A k \in 1 .. Len(fromDongle') :
              fromDongle'[k] = f \/ \E j \in 1 .. Len(fromDongle) : fromDongle'[k] = fromDongle[j]
         /\ f.op # "incoming" /\ ~f.ok => faults'["refusal"] > 0
  BY Arrivals
<1>2. faults["refusal"] > 0 => faults'["refusal"] > 0
  BY Grows DEF Kinds
<1> QED BY <1>1, <1>2 DEF Refused

\* Devices keep their addresses apart, and leave them for good.
LEMMA PlacesStep ==
  ASSUME TypeOK, Places, Next
  PROVE  Places'
<1>1. CASE UNCHANGED <<home, former, sent>>
  BY <1>1 DEF Places
<1>2. ASSUME NEW d \in Devices, Report(d)
      PROVE  Places'
  <2>1. PICK m \in Messages :
           /\ m.dev = d /\ m.src = home[d]
           /\ Len(sent) \in Nat /\ Len(sent') = Len(sent) + 1
           /\ \A i \in 1 .. Len(sent) : sent'[i] = sent[i]
           /\ sent'[Len(sent) + 1] = m
    BY <1>2, Reporting
  <2>2. UNCHANGED <<home, former, faults>>
    BY <1>2 DEF Report
  <2>3. ASSUME NEW i \in 1 .. Len(sent'), i # Len(sent) + 1
        PROVE  i \in 1 .. Len(sent) /\ sent'[i] = sent[i]
    BY <2>1, <2>3
  <2>4. \A i \in 1 .. Len(sent') :
          sent'[i].src = home[sent'[i].dev] \/ sent'[i].src \in former[sent'[i].dev]
    BY <2>1, <2>3 DEF Places
  <2>5. ASSUME NEW i \in 1 .. Len(sent'), NEW j \in 1 .. Len(sent'), i < j,
               sent'[i].src = sent'[j].src
        PROVE  sent'[i].dev = sent'[j].dev \/ sent'[i].src \in former[sent'[i].dev]
    <3>1. i \in 1 .. Len(sent) /\ sent'[i] = sent[i] /\ sent[i].dev \in Devices
      BY <2>1, <2>5, SentMessage
    <3>2. CASE j \in 1 .. Len(sent)
      BY <2>1, <2>5, <3>1, <3>2 DEF Places
    <3>3. CASE j = Len(sent) + 1
      BY <1>2, <2>1, <2>5, <3>1, <3>3 DEF Places
    <3> QED BY <2>1, <3>2, <3>3
  <2> QED BY <2>2, <2>4, <2>5 DEF Places
<1>3. ASSUME NEW d \in Devices, Rejoin(d)
      PROVE  Places'
  <2>1. PICK a \in Addrs : /\ a \notin former[d] /\ \A e \in Devices : home[e] # a
                           /\ home' = [home EXCEPT ![d] = a]
    BY <1>3 DEF Rejoin
  <2>2. /\ former' = [former EXCEPT ![d] = @ \cup {home[d]}] /\ UNCHANGED sent
        /\ former \in [Devices -> SUBSET Addrs]
    BY <1>3 DEF Rejoin, TypeOK
  <2>3. home'[d] = a /\ \A e \in Devices : e # d => home'[e] = home[e]
    BY <2>1 DEF TypeOK
  <2>4. /\ former'[d] = former[d] \cup {home[d]}
        /\ \A e \in Devices : e # d => former'[e] = former[e]
    BY <2>2
  <2>5. \A e, f \in Devices : home'[e] = home'[f] => e = f
    BY <2>1, <2>3 DEF Places
  <2>6. \A e \in Devices : home'[e] \notin former'[e]
    BY <2>1, <2>3, <2>4 DEF Places
  <2>7. \A i \in 1 .. Len(sent) : sent[i].dev \in Devices
    BY SentMessage
  <2>8. \A i \in 1 .. Len(sent) :
          sent[i].src = home'[sent[i].dev] \/ sent[i].src \in former'[sent[i].dev]
    BY <2>3, <2>4, <2>7 DEF Places
  <2>9. \A i, j \in 1 .. Len(sent) : i < j /\ sent[i].src = sent[j].src =>
          sent[i].dev = sent[j].dev \/ sent[i].src \in former'[sent[i].dev]
    BY <2>4, <2>7 DEF Places
  <2> QED BY <2>2, <2>5, <2>6, <2>8, <2>9 DEF Places
<1>4. \/ UNCHANGED <<home, former, sent>>
      \/ \E d \in Devices : Report(d) \/ Rejoin(d)
  BY DEF Next, OnFrame, OnPublish, Resend, DeviceRestarts, DongleServe, LoseFrame, netVars
<1> QED BY <1>1, <1>2, <1>3, <1>4

\* Until a device counts anew, the numbers of what it sends do not repeat too soon.
LEMMA NumbersStep ==
  ASSUME TypeOK, Numbers, Next
  PROVE  Numbers'
<1>0. TsnMod \in Nat /\ TsnMod > 1 /\ Len(sent) \in Nat
  BY Constants, LenProperties DEF TypeOK
<1>1. CASE UNCHANGED <<devtsn, sent>>
  <2>1. faults'["restart"] = 0 => faults["restart"] = 0
    BY Grows DEF Kinds
  <2> QED BY <1>1, <2>1 DEF Numbers
<1>2. ASSUME NEW d \in Devices, DeviceRestarts(d)
      PROVE  Numbers'
  <2>1. faults'["restart"] # 0
    BY <1>2, FaultCounts DEF DeviceRestarts, Kinds
  <2> QED BY <2>1 DEF Numbers
<1>3. ASSUME NEW d \in Devices, Report(d)
      PROVE  Numbers'
  <2> SUFFICES ASSUME faults["restart"] = 0
               PROVE  /\ \A i \in 1 .. Len(sent') : Len(sent') + 1 - i < TsnMod =>
                           \E g \in 1 .. Len(sent') + 1 - i :
                             devtsn'[sent'[i].dev] = Later(sent'[i].data.tsn, g)
                      /\ \A i, j \in 1 .. Len(sent') :
                           i < j /\ sent'[i].dev = sent'[j].dev /\ j - i < TsnMod
                             => sent'[i].data.tsn # sent'[j].data.tsn
    BY <1>3 DEF Numbers, Report
  <2>1. PICK n \in Nat : n = Len(sent)
    BY <1>0
  <2>2. PICK m \in Messages :
           /\ m.dev = d /\ m.src = home[d] /\ m.data.tsn = devtsn[d]
           /\ Len(sent') = n + 1
           /\ \A i \in 1 .. n : sent'[i] = sent[i]
           /\ sent'[n + 1] = m
    BY <1>3, <2>1, Reporting
  <2>3. \A i \in 1 .. n : sent[i].dev \in Devices /\ sent[i].data.tsn \in 0 .. TsnMod - 1
    BY <2>1, SentMessage
  <2>4. devtsn[d] \in 0 .. TsnMod - 1
    BY DEF TypeOK
  <2>5. devtsn'[d] = Later(devtsn[d], 1) /\ \A e \in Devices : e # d => devtsn'[e] = devtsn[e]
    BY <1>3, <2>4, Modulo DEF Report, TypeOK
  <2>6. ASSUME NEW i \in 1 .. n + 1, n + 2 - i < TsnMod
        PROVE  \E g \in 1 .. n + 2 - i : devtsn'[sent'[i].dev] = Later(sent'[i].data.tsn, g)
    <3>1. CASE i = n + 1
      <4>1. 1 \in 1 .. n + 2 - i
        BY <3>1
      <4> QED BY <2>2, <2>5, <3>1, <4>1
    <3>2. CASE i \in 1 .. n
      <4>1. PICK g \in 1 .. n + 1 - i : devtsn[sent[i].dev] = Later(sent[i].data.tsn, g)
        <5>1. n + 1 - i < TsnMod
          BY <1>0, <2>6
        <5> QED BY <2>1, <3>2, <5>1 DEF Numbers
      <4>2. CASE sent[i].dev = d
        <5>1. g + 1 \in 1 .. n + 2 - i /\ g + 1 < TsnMod
          BY <1>0, <2>6
        <5>2. PICK t \in 0 .. TsnMod - 1 : t = sent[i].data.tsn
          BY <2>3, <3>2
        <5>3. Later(Later(t, g), 1) = Later(t, g + 1)
          BY <1>0, <5>1 DEF Later
        <5> QED BY <2>2, <2>5, <3>2, <4>1, <4>2, <5>1, <5>2, <5>3
      <4>3. CASE sent[i].dev # d
        <5>1. g \in 1 .. n + 2 - i
          OBVIOUS
        <5> QED BY <2>2, <2>3, <2>5, <3>2, <4>1, <4>3, <5>1
      <4> QED BY <4>2, <4>3
    <3> QED BY <2>6, <3>1, <3>2
  <2>7. ASSUME NEW i \in 1 .. n + 1, NEW j \in 1 .. n + 1,
               i < j, sent'[i].dev = sent'[j].dev, j - i < TsnMod
        PROVE  sent'[i].data.tsn # sent'[j].data.tsn
    <3>1. i \in 1 .. n
      BY <2>7
    <3>2. CASE j = n + 1
      <4>1. PICK g \in 1 .. n + 1 - i : devtsn[sent[i].dev] = Later(sent[i].data.tsn, g)
        <5>1. n + 1 - i < TsnMod
          BY <2>7, <3>2
        <5> QED BY <2>1, <3>1, <5>1 DEF Numbers
      <4>2. PICK t \in 0 .. TsnMod - 1 : t = sent[i].data.tsn
        BY <2>3, <3>1
      <4>3. Later(t, g) # t
        BY <1>0, <2>7, <3>2 DEF Later
      <4> QED BY <2>2, <2>7, <3>1, <3>2, <4>1, <4>2, <4>3
    <3>3. CASE j \in 1 .. n
      BY <2>1, <2>2, <2>7, <3>1, <3>3 DEF Numbers
    <3> QED BY <3>2, <3>3
  <2> QED BY <2>2, <2>6, <2>7
<1>4. \/ UNCHANGED <<devtsn, sent>>
      \/ \E d \in Devices : Report(d) \/ DeviceRestarts(d)
  BY DEF Next, OnFrame, OnPublish, Resend, Rejoin, DongleServe, LoseFrame, netVars
<1> QED BY <1>1, <1>2, <1>3, <1>4

-----------------------------------------------------------------------------
(* The filter of duplicates, and the order of what is published.             *)

\* What happens to the handlers of nwk.
LEMMA NwkQueue ==
  ASSUME TypeOK, Ids, Next
  PROVE  \/ OnFrame /\ Head(fromDongle).op = "incoming"
         \/ OnFrame /\ Head(fromDongle).op = "nwk"
         \/ handlers'["nwk"] = handlers["nwk"] /\ UNCHANGED <<published, last_msg_>>
<1>1. CASE OnFrame /\ Head(fromDongle).op = "ext"
  BY <1>1, ExtAnswered DEF Taken, TypeOK, Lookups
<1>2. CASE \E d \in Devices : OnPublish(d)
  BY <1>2 DEF OnPublish, TypeOK, Lookups
<1>3. CASE ~OnFrame /\ ~\E d \in Devices : OnPublish(d)
  BY <1>3 DEF Next, Report, Resend, DeviceRestarts, Rejoin, DongleServe, LoseFrame, hubVars
<1> QED BY <1>1, <1>2, <1>3, FrameKinds

\* An answer takes the oldest handler, which publishes, or only logs a refusal.
LEMMA NwkTaken ==
  ASSUME TypeOK, Ids, Refused, OnFrame, Head(fromDongle).op = "nwk"
  PROVE  \E h \in Handlers :
           /\ handlers["nwk"] \in Seq(Handlers) /\ handlers["nwk"] # <<>>
           /\ handlers["nwk"][1] = h /\ h.id \in 1 .. Len(sent)
           /\ handlers'["nwk"] = Tail(handlers["nwk"])
           /\ \/ published' = published /\ faults["refusal"] > 0
              \/ \E p \in Publications : /\ published' = Append(published, p)
                                         /\ p.id = h.id /\ p.what = h.for
                                         /\ p.topic = Head(fromDongle).value
                                         /\ Head(fromDongle).ok
           /\ UNCHANGED <<last_msg_, sent, faults, toDongle>>
<1>1. PICK f : f = Head(fromDongle)
  OBVIOUS
<1>2. PICK h : h = handlers["nwk"][1]
  OBVIOUS
<1>3. /\ Taken("nwk") /\ h.id \in 1 .. Len(sent) /\ UNCHANGED toDongle
      /\ f.ok => \E p \in Publications : /\ published' = Append(published, p)
                                         /\ p.id = h.id /\ p.what = h.for /\ p.topic = f.value
      /\ ~f.ok => published' = published
  BY <1>1, <1>2, NwkAnswered
<1>4. ~f.ok => faults["refusal"] > 0
  <2>1. f = fromDongle[1] /\ 1 \in 1 .. Len(fromDongle)
    BY <1>1, Front, FrameKinds
  <2> QED BY <1>1, <2>1 DEF Refused
<1>5. /\ h \in Handlers /\ handlers["nwk"] \in Seq(Handlers) /\ handlers["nwk"] # <<>>
      /\ handlers'["nwk"] = Tail(handlers["nwk"]) /\ UNCHANGED last_msg_
  BY <1>2, <1>3 DEF Taken, TypeOK, Lookups
<1>6. UNCHANGED <<sent, faults>>
  BY FrameKinds
<1> QED BY <1>1, <1>2, <1>3, <1>4, <1>5, <1>6

\* What comes behind all that was heard does so until the next message is heard.
LEMMA BehindStays ==
  ASSUME TypeOK, Ids, Refused, Next, ~(OnFrame /\ Head(fromDongle).op = "incoming"),
         NEW n \in Nat, Behind(n)
  PROVE  Behind(n)'
<1>1. CASE OnFrame /\ Head(fromDongle).op = "nwk"
  <2>1. PICK h \in Handlers :
           /\ handlers["nwk"] \in Seq(Handlers) /\ handlers["nwk"] # <<>>
           /\ handlers["nwk"][1] = h
           /\ handlers'["nwk"] = Tail(handlers["nwk"])
           /\ \/ published' = published
              \/ \E p \in Publications : /\ published' = Append(published, p)
                                         /\ p.id = h.id /\ p.what = h.for
    BY <1>1, NwkTaken
  <2>2. \A k \in 1 .. Len(handlers'["nwk"]) : Listed(k)' => handlers'["nwk"][k].id < n
    BY <2>1, Front DEF Behind, Listed
  <2>3. \A k \in 1 .. Len(published') : Told(k)' => published'[k].id < n
    <3>1. CASE published' = published
      BY <3>1 DEF Behind, Told
    <3>2. ASSUME NEW p \in Publications, published' = Append(published, p),
                 p.id = h.id, p.what = h.for
          PROVE  \A k \in 1 .. Len(published') : Told(k)' => published'[k].id < n
      <4>1. h.for = "zcl" => h.id < n
        BY <2>1, Front DEF Behind, Listed
      <4>2. /\ Len(published') = Len(published) + 1 /\ Len(published) \in Nat
            /\ \A k \in 1 .. Len(published) : published'[k] = published[k]
            /\ published'[Len(published) + 1] = p
        BY <3>2, Back DEF TypeOK
      <4> QED BY <3>2, <4>1, <4>2 DEF Behind, Told
    <3> QED BY <2>1, <3>1, <3>2
  <2> QED BY <2>2, <2>3 DEF Behind
<1>2. CASE handlers'["nwk"] = handlers["nwk"] /\ UNCHANGED published
  BY <1>2 DEF Behind, Listed, Told
<1> QED BY <1>1, <1>2, NwkQueue

\* A message that was treated stays so.
LEMMA DoneStays ==
  ASSUME TypeOK, Ids, Refused, Next, NEW i \in 1 .. Len(sent), Done(i)
  PROVE  Done(i)'
<1>0. /\ Len(sent) \in Nat
      /\ \A j \in 1 .. Len(sent) : sent'[j] = sent[j]
      /\ \A k \in Kinds : faults[k] \in Nat /\ faults'[k] \in Nat /\ faults[k] <= faults'[k]
  BY Grows
<1>1. CASE faults["refusal"] + faults["drop"] > 0
  BY <1>0, <1>1 DEF Done, Kinds
<1>2. CASE sent[i].data.body \notin Known
  BY <1>0, <1>2 DEF Done
<1>3. CASE Repeats(i)
  <2>1. PICK j \in 1 .. i - 1 :
          /\ sent[j].src = sent[i].src /\ sent[j].dst = endpoint_
          /\ sent[j].data = sent[i].data
          /\ \A k \in j + 1 .. i - 1 : sent[k].src = sent[i].src => sent[k].dst # endpoint_
          /\ faults["restart"] = 0 /\ sent[j].dev = sent[i].dev => i - j >= TsnMod
    BY <1>3 DEF Repeats
  <2>2. \A k \in 1 .. i : k \in 1 .. Len(sent)
    BY <1>0
  <2>3. \A k \in 1 .. i : sent'[k] = sent[k]
    BY <1>0, <2>2
  <2>4. faults'["restart"] = 0 => faults["restart"] = 0
    BY <1>0 DEF Kinds
  <2>5. j \in 1 .. i /\ i \in 1 .. i /\ \A k \in j + 1 .. i - 1 : k \in 1 .. i
    OBVIOUS
  <2>6. Repeats(i)'
    BY <2>1, <2>3, <2>4, <2>5 DEF Repeats
  <2> QED BY <2>6 DEF Done
<1>4. CASE \E k \in 1 .. Len(published) : Told(k) /\ published[k].id = i
  <2>1. PICK k \in 1 .. Len(published) : Told(k) /\ published[k].id = i
    BY <1>4
  <2>2. k \in 1 .. Len(published') /\ published'[k] = published[k]
    <3>1. CASE OnFrame /\ Head(fromDongle).op = "incoming"
      BY <3>1, Hearing DEF Heard
    <3>2. CASE OnFrame /\ Head(fromDongle).op = "nwk"
      <4>1. published' = published \/ \E p \in Publications : published' = Append(published, p)
        BY <3>2, NwkTaken
      <4>2. published \in Seq(Publications)
        BY DEF TypeOK
      <4>3. ASSUME NEW p \in Publications
            PROVE  k \in 1 .. Len(Append(published, p)) /\ Append(published, p)[k] = published[k]
        BY <4>2, Back
      <4> QED BY <4>1, <4>3
    <3> QED BY <3>1, <3>2, NwkQueue
  <2> QED BY <2>1, <2>2 DEF Done, Told
<1>5. CASE \E k \in 1 .. Len(handlers["nwk"]) : Listed(k) /\ handlers["nwk"][k].id = i
  <2>1. PICK k \in 1 .. Len(handlers["nwk"]) : Listed(k) /\ handlers["nwk"][k].id = i
    BY <1>5
  <2>2. ASSUME NEW j \in 1 .. Len(handlers'["nwk"]), handlers'["nwk"][j] = handlers["nwk"][k]
        PROVE  Done(i)'
    BY <2>1, <2>2 DEF Done, Listed
  <2>3. CASE OnFrame /\ Head(fromDongle).op = "incoming"
    <3>1. PICK asked \in Seq(Handlers), asks \in Seq(Asks("nwk")) : Heard(asked, asks)
      BY <2>3, Hearing
    <3>2. handlers'["nwk"] = handlers["nwk"] \o asked /\ handlers["nwk"] \in Seq(Handlers)
      BY <3>1 DEF Heard, TypeOK, Lookups
    <3>3. k \in 1 .. Len(handlers'["nwk"]) /\ handlers'["nwk"][k] = handlers["nwk"][k]
      BY <3>2, Joined
    <3> QED BY <2>2, <3>3
  <2>4. CASE OnFrame /\ Head(fromDongle).op = "nwk"
    <3>1. PICK h \in Handlers :
             /\ handlers["nwk"] \in Seq(Handlers) /\ handlers["nwk"] # <<>>
             /\ handlers["nwk"][1] = h
             /\ handlers'["nwk"] = Tail(handlers["nwk"])
             /\ \/ faults["refusal"] > 0
                \/ \E p \in Publications : /\ published' = Append(published, p)
                                           /\ p.id = h.id /\ p.what = h.for
      BY <2>4, NwkTaken
    <3>2. CASE faults["refusal"] > 0
      BY <1>0, <3>2 DEF Done, Kinds
    <3>3. CASE k # 1
      <4>1. k - 1 \in 1 .. Len(handlers'["nwk"]) /\ handlers'["nwk"][k - 1] = handlers["nwk"][k]
        BY <3>1, <3>3, Front
      <4> QED BY <2>2, <4>1
    <3>4. ASSUME k = 1, NEW p \in Publications, published' = Append(published, p),
                 p.id = h.id, p.what = h.for
          PROVE  Done(i)'
      <4>1. Len(published) + 1 \in 1 .. Len(published') /\ published'[Len(published) + 1] = p
        BY <3>4, Back DEF TypeOK
      <4> QED BY <2>1, <3>1, <3>4, <4>1 DEF Done, Told, Listed
    <3> QED BY <3>1, <3>2, <3>3, <3>4
  <2>5. CASE handlers'["nwk"] = handlers["nwk"]
    BY <2>1, <2>2, <2>5
  <2> QED BY <2>3, <2>4, <2>5, NwkQueue
<1> QED BY <1>1, <1>2, <1>3, <1>4, <1>5 DEF Done

\* A message that is not ignored comes behind all that were heard before.
LEMMA NewIsBehind ==
  ASSUME TypeOK, Ids, Filter, fromDongle # <<>>, Head(fromDongle).op = "incoming",
         NEW i, i = Head(fromDongle).id, sent[i].dst = endpoint_,
         last_msg_[sent[i].src] # sent[i].data
  PROVE  Behind(i)
<1>1. 1 \in 1 .. Len(fromDongle) /\ Head(fromDongle) = fromDongle[1]
  BY Front DEF TypeOK
<1>2. i \in 1 .. Len(sent) /\ i = fromDongle[1].id /\ From(1, sent[i].src)
  BY <1>1 DEF Ids, From, Ours
<1>3. sent[i].src \in Addrs /\ Len(sent) \in Nat
  BY <1>2, SentMessage, LenProperties DEF TypeOK
<1>4. PICK p \in 0 .. Len(sent) : Last(sent[i].src, p) /\ Coming(sent[i].src, p)
  BY <1>3 DEF Filter
<1>5. p <= i
  BY <1>1, <1>2, <1>4 DEF Coming, InTurn
<1>6. p # i
  BY <1>2, <1>4 DEF Last
<1>7. FirstCopy(1) \/ Again(1)
  BY <1>1, <1>2, <1>3, <1>4, <1>5, <1>6 DEF Coming, InTurn
<1>8. ~Again(1)
  BY DEF Again
<1> QED BY <1>2, <1>7, <1>8 DEF FirstCopy

\* Messages stay in order, from their reception to their publication.
LEMMA OrderedStep ==
  ASSUME TypeOK, Ids, Refused, Filter, Ordered, Next
  PROVE  Ordered'
<1>0. /\ handlers["nwk"] \in Seq(Handlers) /\ Len(handlers["nwk"]) \in Nat
      /\ published \in Seq(Publications) /\ Len(published) \in Nat
      /\ DOMAIN published = 1 .. Len(published)
  BY LenProperties DEF TypeOK, Lookups
<1>1. CASE OnFrame /\ Head(fromDongle).op = "incoming"
  <2>1. PICK i : i = Head(fromDongle).id
    OBVIOUS
  <2>2. PICK asked \in Seq(Handlers), asks \in Seq(Asks("nwk")) : Heard(asked, asks)
    BY <1>1, Hearing
  <2>3. /\ handlers'["nwk"] = handlers["nwk"] \o asked /\ published' = published
        /\ i \in 1 .. Len(sent)
        /\ \A k \in 1 .. Len(asked) : asked[k].for = "zcl" =>
             k = 1 /\ sent[i].dst = endpoint_ /\ last_msg_[sent[i].src] # sent[i].data
        /\ \A k \in 1 .. Len(asked) : asked[k].id = i
    BY <2>1, <2>2 DEF Heard, TypeOK, Lookups
  <2>4. \A k \in 1 .. Len(asked) : asked[k].for = "zcl" => Behind(i)
    BY <1>1, <2>1, <2>3, NewIsBehind DEF OnFrame
  <2> DEFINE s == handlers["nwk"]
  <2>5. /\ Len(s \o asked) = Len(s) + Len(asked) /\ Len(asked) \in Nat
        /\ \A k \in 1 .. Len(s) : (s \o asked)[k] = s[k]
        /\ \A k \in 1 .. Len(asked) : (s \o asked)[Len(s) + k] = asked[k]
        /\ \A k \in 1 .. Len(s) + Len(asked) :
             k \in 1 .. Len(s) \/ \E j \in 1 .. Len(asked) : k = Len(s) + j
    BY <1>0, Joined
  <2>6. ASSUME NEW k \in 1 .. Len(s \o asked), (s \o asked)[k].for = "zcl"
        PROVE  \/ k \in 1 .. Len(s) /\ (s \o asked)[k] = s[k] /\ Listed(k)
               \/ k = Len(s) + 1 /\ (s \o asked)[k].id = i /\ Behind(i)
    <3>1. CASE k \in 1 .. Len(s)
      BY <2>5, <2>6, <3>1 DEF Listed
    <3>2. ASSUME NEW j \in 1 .. Len(asked), k = Len(s) + j
          PROVE  k = Len(s) + 1 /\ (s \o asked)[k].id = i /\ Behind(i)
      <4>1. (s \o asked)[k] = asked[j]
        BY <2>5, <3>2
      <4> QED BY <2>3, <2>4, <2>6, <3>2, <4>1
    <3> QED BY <2>5, <3>1, <3>2
  <2>7. ASSUME NEW k \in 1 .. Len(s \o asked), NEW j \in 1 .. Len(s \o asked), k < j,
               (s \o asked)[k].for = "zcl", (s \o asked)[j].for = "zcl"
        PROVE  (s \o asked)[k].id < (s \o asked)[j].id
    <3>1. CASE k \in 1 .. Len(s) /\ j \in 1 .. Len(s)
      <4>1. Listed(k) /\ Listed(j) /\ (s \o asked)[k] = s[k] /\ (s \o asked)[j] = s[j]
        BY <2>5, <2>7, <3>1 DEF Listed
      <4> QED BY <2>7, <3>1, <4>1 DEF Ordered
    <3>2. CASE k \in 1 .. Len(s) /\ j \notin 1 .. Len(s)
      <4>1. Listed(k) /\ (s \o asked)[k] = s[k]
        BY <2>5, <2>7, <3>2 DEF Listed
      <4>2. (s \o asked)[j].id = i /\ Behind(i)
        BY <2>6, <2>7, <3>2
      <4> QED BY <3>2, <4>1, <4>2 DEF Behind
    <3>3. CASE k \notin 1 .. Len(s)
      <4>1. k = Len(s) + 1 /\ (j \in 1 .. Len(s) \/ j = Len(s) + 1)
        BY <2>6, <2>7, <3>3
      <4> QED BY <1>0, <2>7, <4>1
    <3> QED BY <3>1, <3>2, <3>3
  <2>8. ASSUME NEW k \in 1 .. Len(published), NEW j \in 1 .. Len(s \o asked), Told(k),
               (s \o asked)[j].for = "zcl"
        PROVE  published[k].id < (s \o asked)[j].id
    BY <1>0, <2>6, <2>8 DEF Ordered, Behind
  <2> QED BY <2>3, <2>7, <2>8 DEF Ordered, OnceInOrder, Listed, Told
<1>2. CASE OnFrame /\ Head(fromDongle).op = "nwk"
  <2>1. PICK h \in Handlers :
           /\ handlers["nwk"] # <<>> /\ handlers["nwk"][1] = h
           /\ handlers'["nwk"] = Tail(handlers["nwk"])
           /\ \/ published' = published
              \/ \E p \in Publications : /\ published' = Append(published, p)
                                         /\ p.id = h.id /\ p.what = h.for
    BY <1>2, NwkTaken
  <2>2. ASSUME NEW k \in 1 .. Len(handlers'["nwk"])
        PROVE  /\ k + 1 \in 1 .. Len(handlers["nwk"]) /\ k \in Nat
               /\ handlers'["nwk"][k] = handlers["nwk"][k + 1]
    BY <1>0, <2>1, Front
  <2>3. \A i, j \in 1 .. Len(handlers'["nwk"]) :
          i < j /\ Listed(i)' /\ Listed(j)' => handlers'["nwk"][i].id < handlers'["nwk"][j].id
    <3>1. ASSUME NEW i \in 1 .. Len(handlers'["nwk"]), NEW j \in 1 .. Len(handlers'["nwk"]),
                 i < j, Listed(i)', Listed(j)'
          PROVE  handlers'["nwk"][i].id < handlers'["nwk"][j].id
      <4>1. Listed(i + 1) /\ Listed(j + 1)
        BY <2>2, <3>1 DEF Listed
      <4>2. i + 1 < j + 1
        BY <2>2, <3>1
      <4>3. handlers["nwk"][i + 1].id < handlers["nwk"][j + 1].id
        BY <2>2, <4>1, <4>2 DEF Ordered
      <4> QED BY <2>2, <4>3
    <3> QED BY <3>1
  <2>4. CASE published' = published
    <3>1. OnceInOrder'
      BY <2>4 DEF Ordered, OnceInOrder, Told
    <3>2. \A i \in 1 .. Len(published) : Told(i)' <=> Told(i)
      BY <2>4 DEF Told
    <3>3. \A j \in 1 .. Len(handlers'["nwk"]) : Listed(j)' <=> Listed(j + 1)
      BY <2>2 DEF Listed
    <3>4. ASSUME NEW i \in 1 .. Len(published), NEW j \in 1 .. Len(handlers'["nwk"]),
                 Told(i)', Listed(j)'
          PROVE  published[i].id < handlers'["nwk"][j].id
      BY <2>2, <3>2, <3>3, <3>4 DEF Ordered
    <3> QED BY <2>3, <2>4, <3>1, <3>4 DEF Ordered
  <2>5. ASSUME NEW p \in Publications, published' = Append(published, p),
               p.id = h.id, p.what = h.for
        PROVE  Ordered'
    <3>1. /\ Len(published') = Len(published) + 1
          /\ \A k \in 1 .. Len(published) : published'[k] = published[k]
          /\ published'[Len(published) + 1] = p
          /\ DOMAIN published' = 1 .. Len(published) + 1
      BY <1>0, <2>5, Back, LenProperties
    <3>2. 1 \in 1 .. Len(handlers["nwk"])
      BY <1>0, <2>1, Front
    <3>3. \A k \in 1 .. Len(published) : Told(k) /\ h.for = "zcl" => published[k].id < h.id
      BY <2>1, <3>2 DEF Ordered, Listed
    <3>4. \A k \in 1 .. Len(handlers'["nwk"]) :
            Listed(k)' /\ h.for = "zcl" => h.id < handlers'["nwk"][k].id
      BY <2>1, <2>2, <3>2 DEF Ordered, Listed
    <3>5. \A i, j \in 1 .. Len(published) + 1 :
            i < j /\ Told(i)' /\ Told(j)' => published'[i].id < published'[j].id
      <4>1. ASSUME NEW i \in 1 .. Len(published) + 1, NEW j \in 1 .. Len(published) + 1,
                   i < j, published'[i].what = "zcl", published'[j].what = "zcl"
            PROVE  published'[i].id < published'[j].id
        <5>1. i \in 1 .. Len(published) /\ published'[i] = published[i] /\ Told(i)
          BY <1>0, <3>1, <4>1 DEF Told
        <5>2. CASE j \in 1 .. Len(published)
          <6>1. published'[j] = published[j] /\ Told(j)
            BY <3>1, <4>1, <5>2 DEF Told
          <6> QED BY <1>0, <4>1, <5>1, <5>2, <6>1 DEF Ordered, OnceInOrder
        <5>3. CASE j = Len(published) + 1
          <6>1. published'[j] = p
            BY <3>1, <5>3
          <6> QED BY <2>5, <3>3, <4>1, <5>1, <6>1
        <5> QED BY <1>0, <5>2, <5>3
      <4> QED BY <4>1 DEF Told
    <3>6. \A i \in 1 .. Len(published') : \A j \in 1 .. Len(handlers'["nwk"]) :
            Told(i)' /\ Listed(j)' => published'[i].id < handlers'["nwk"][j].id
      <4>1. ASSUME NEW i \in 1 .. Len(published) + 1, NEW j \in 1 .. Len(handlers'["nwk"]),
                   published'[i].what = "zcl", handlers'["nwk"][j].for = "zcl"
            PROVE  published'[i].id < handlers'["nwk"][j].id
        <5>1. CASE i \in 1 .. Len(published)
          <6>1. published'[i] = published[i] /\ Told(i)
            BY <3>1, <4>1, <5>1 DEF Told
          <6>2. j + 1 \in 1 .. Len(handlers["nwk"]) /\ Listed(j + 1)
            BY <2>2, <4>1 DEF Listed
          <6>3. handlers'["nwk"][j] = handlers["nwk"][j + 1]
            BY <2>2
          <6>4. published[i].id < handlers["nwk"][j + 1].id
            BY <5>1, <6>1, <6>2 DEF Ordered
          <6> QED BY <6>1, <6>3, <6>4
        <5>2. CASE i = Len(published) + 1
          <6>1. published'[i] = p
            BY <3>1, <5>2
          <6> QED BY <2>5, <3>4, <4>1, <6>1 DEF Listed
        <5> QED BY <1>0, <5>1, <5>2
      <4> QED BY <3>1, <4>1 DEF Told, Listed
    <3> QED BY <2>3, <3>1, <3>5, <3>6 DEF Ordered, OnceInOrder
  <2> QED BY <2>1, <2>4, <2>5
<1>3. CASE handlers'["nwk"] = handlers["nwk"] /\ UNCHANGED published
  BY <1>3 DEF Ordered, OnceInOrder, Listed, Told
<1> QED BY <1>1, <1>2, <1>3, NwkQueue

\* A frame that stays in the line is about what it was about.
LEMMA Placed ==
  ASSUME TypeOK, Ids, Next,
         NEW j \in 1 .. Len(fromDongle), NEW k \in 1 .. Len(fromDongle'),
         fromDongle'[k] = fromDongle[j]
  PROVE  /\ Ours(k)' <=> Ours(j)
         /\ \A a \in Addrs : From(k, a)' <=> From(j, a)
         /\ Ours(j) => fromDongle[j].id \in 1 .. Len(sent)
<1>1. \A i \in 1 .. Len(sent) : sent'[i] = sent[i]
  BY Grows
<1>2. fromDongle[j].op = "incoming" => fromDongle[j].id \in 1 .. Len(sent)
  BY DEF Ids
<1> QED BY <1>1, <1>2 DEF Ours, From

\* What the filter knows of address a, and what it is to hear from it, stays as
\* frames are put behind the line, or leave its front and are not from a.
LEMMA Kept ==
  ASSUME TypeOK, Ids, Refused, Next, NEW s \in {0, 1}, NEW n \in Nat,
         n + s = Len(fromDongle), n <= Len(fromDongle'), Len(fromDongle') \in Nat,
         \A k \in 1 .. n : fromDongle'[k] = fromDongle[k + s],
         NEW a \in Addrs, s = 1 => ~From(1, a), last_msg_'[a] = last_msg_[a],
         \A k \in 1 .. Len(fromDongle) : \A x \in Nat :
           x = fromDongle[k].id /\ k > s /\ FirstCopy(k) => Behind(x)',
         NEW p \in 0 .. Len(sent), Last(a, p), Coming(a, p), Treated(a, p)
  PROVE  /\ Last(a, p)'
         /\ \A k \in 1 .. n : InTurn(k, a, p)'
         /\ \A i \in 1 .. Len(sent) : sent[i].src = a /\ sent[i].dst = endpoint_ =>
              IF p < i THEN \E k \in 1 .. n : Ours(k)' /\ fromDongle'[k].id = i
              ELSE Done(i)'
<1>0. Len(sent) \in Nat /\ \A i \in 1 .. Len(sent) : sent'[i] = sent[i]
  BY Grows
<1>1. ASSUME NEW k \in 1 .. n
      PROVE  /\ k + s \in 1 .. Len(fromDongle) /\ k \in 1 .. Len(fromDongle')
             /\ fromDongle'[k] = fromDongle[k + s]
             /\ Ours(k)' <=> Ours(k + s)
             /\ From(k, a)' <=> From(k + s, a)
             /\ Ours(k + s) => fromDongle[k + s].id \in 1 .. Len(sent)
  <2>1. PICK j : j = k + s
    OBVIOUS
  <2>2. j \in 1 .. Len(fromDongle) /\ k \in 1 .. Len(fromDongle') /\ fromDongle'[k] = fromDongle[j]
    BY <2>1
  <2>3. /\ Ours(k)' <=> Ours(j)
        /\ From(k, a)' <=> From(j, a)
        /\ Ours(j) => fromDongle[j].id \in 1 .. Len(sent)
    BY <2>2, Placed
  <2> QED BY <2>1, <2>2, <2>3
<1>2. ASSUME NEW k \in 1 .. n, From(k, a)'
      PROVE  /\ p <= fromDongle'[k].id
             /\ \A j \in 1 .. k - 1 : From(j, a)' => fromDongle'[j].id <= fromDongle'[k].id
             /\ p < fromDongle'[k].id => FirstCopy(k)' \/ Again(k)'
  <2>1. PICK x \in 1 .. Len(sent) : x = fromDongle[k + s].id
    BY <1>1, <1>2 DEF From
  <2>2. fromDongle'[k].id = x /\ k + s \in 1 .. Len(fromDongle)
    BY <1>1, <2>1
  <2>3. InTurn(k + s, a, p) /\ From(k + s, a)
    BY <1>1, <1>2, <2>2 DEF Coming
  <2>4. \A j \in 1 .. k - 1 : j \in 1 .. n /\ j + s \in 1 .. (k + s) - 1
    OBVIOUS
  <2>5. \A j \in 1 .. k - 1 : From(j, a)' => fromDongle'[j].id <= x
    BY <1>1, <2>1, <2>3, <2>4 DEF InTurn
  <2>6. ASSUME FirstCopy(k + s)
        PROVE  FirstCopy(k)'
    <3>0. k + s > s /\ x \in Nat
      BY <1>0
    <3>1. Behind(x)'
      BY <2>1, <2>2, <2>6, <3>0 DEF Behind
    <3>2. \A j \in 1 .. k - 1 : Ours(j)' => fromDongle'[j].id < x
      BY <1>1, <2>1, <2>4, <2>6 DEF FirstCopy
    <3> QED BY <2>2, <3>1, <3>2 DEF FirstCopy, Behind
  <2>7. ASSUME Again(k + s)
        PROVE  Again(k)'
    <3>1. PICK i \in 1 .. (k + s) - 1 : Ours(i) /\ fromDongle[i].id = x
      BY <2>1, <2>7 DEF Again
    <3>2. From(i, a)
      BY <2>1, <2>3, <3>1 DEF From
    <3>3. i - s \in 1 .. k - 1 /\ (i - s) + s = i
      BY <3>1, <3>2
    <3>4. Ours(i - s)' /\ fromDongle'[i - s].id = x
      BY <1>1, <2>4, <3>1, <3>3
    <3> QED BY <2>2, <3>3, <3>4 DEF Again
  <2> QED BY <2>1, <2>2, <2>3, <2>5, <2>6, <2>7 DEF InTurn
<1>3. ASSUME NEW i \in 1 .. Len(sent), sent[i].src = a, sent[i].dst = endpoint_
      PROVE  IF p < i THEN \E k \in 1 .. n : Ours(k)' /\ fromDongle'[k].id = i
             ELSE Done(i)'
  <2>1. CASE p < i
    <3>1. PICK k \in 1 .. Len(fromDongle) : Ours(k) /\ fromDongle[k].id = i
      BY <1>3, <2>1 DEF Treated
    <3>2. From(k, a)
      BY <1>3, <3>1 DEF From
    <3>3. k - s \in 1 .. n /\ (k - s) + s = k
      BY <3>1, <3>2
    <3> QED BY <1>1, <2>1, <3>1, <3>3
  <2>2. CASE ~(p < i)
    BY <1>3, <2>2, DoneStays DEF Treated
  <2> QED BY <2>1, <2>2
<1>4. Last(a, p)'
  BY <1>0 DEF Last
<1> QED BY <1>2, <1>3, <1>4 DEF InTurn

\* The line from the dongle but when a message is heard.
LEMMA LineMoves ==
  ASSUME TypeOK, Ids, Refused, Next, ~(OnFrame /\ Head(fromDongle).op = "incoming")
  PROVE  /\ last_msg_' = last_msg_
         /\ \/ /\ fromDongle # <<>> /\ Head(fromDongle).op # "incoming"
               /\ fromDongle' = Tail(fromDongle) /\ sent' = sent
            \/ fromDongle' = fromDongle /\ sent' = sent
            \/ /\ \E f \in Frames : fromDongle' = Append(fromDongle, f) /\ f.op # "incoming"
               /\ sent' = sent
            \/ \E d \in Devices : Report(d) \/ Resend(d)
<1>1. last_msg_' = last_msg_
  BY NwkQueue, NwkTaken
<1>2. CASE OnFrame \/ LoseFrame
  BY <1>1, <1>2 DEF OnFrame, LoseFrame, netVars
<1>3. CASE \E d \in Devices : OnPublish(d) \/ DeviceRestarts(d) \/ Rejoin(d)
  BY <1>1, <1>3 DEF OnPublish, DeviceRestarts, Rejoin, netVars
<1>4. CASE DongleServe
  <2>1. PICK f \in Frames :
          /\ \/ fromDongle' = Tail(fromDongle) /\ fromDongle # <<>>
             \/ fromDongle' = fromDongle
             \/ fromDongle' = Append(fromDongle, f)
          /\ \A k \in 1 .. Len(fromDongle') :
               fromDongle'[k] = f \/ \E j \in 1 .. Len(fromDongle) : fromDongle'[k] = fromDongle[j]
    BY Arrivals
  <2>2. \/ fromDongle' = fromDongle
        \/ \E g : fromDongle' = Append(fromDongle, g) /\ g.op # "incoming" /\ g \in Frames
    <3>1. PICK r \in Requests : r = Head(toDongle)
      BY <1>4, Front DEF DongleServe, TypeOK
    <3>2. CASE r.op = "data"
      BY <1>4, <3>1, <3>2 DEF DongleServe
    <3>3. CASE r.op # "data"
      <4>1. r.op \in {"nwk", "ext"} /\ Found(r) \in Devices \cup Addrs \cup {NoDevice}
                 /\ (r.op = "ext" => Found(r) \in Addrs)
                 /\ (r.op = "nwk" => Found(r) \in Devices \cup {NoDevice})
        BY <3>1, <3>3 DEF Requests, Commands, Found, TypeOK
      <4>2. /\ [op |-> r.op, ok |-> TRUE, value |-> Found(r)] \in Frames
            /\ [op |-> r.op, ok |-> FALSE] \in Frames
        BY <4>1 DEF Frames, Lookups
      <4> QED BY <1>4, <3>1, <3>3, <4>1, <4>2 DEF DongleServe, Answer
    <3> QED BY <3>2, <3>3
  <2> QED BY <1>1, <1>4, <2>2 DEF DongleServe, netVars
<1> QED BY <1>1, <1>2, <1>3, <1>4 DEF Next

\* A message sent, or sent again, is put behind the line.
LEMMA FilterKept ==
  ASSUME TypeOK, Ids, Refused, Places, Filter, Next,
         ~(OnFrame /\ Head(fromDongle).op = "incoming")
  PROVE  Filter'
<1>0. /\ Len(sent) \in Nat /\ Len(sent') \in Nat /\ Len(sent) <= Len(sent')
      /\ \A i \in 1 .. Len(sent) : sent'[i] = sent[i]
      /\ fromDongle \in Seq(Frames) /\ Len(fromDongle) \in Nat /\ last_msg_' = last_msg_
  BY Grows, LenProperties, LineMoves DEF TypeOK
<1> SUFFICES ASSUME NEW a \in Addrs
             PROVE  \E p \in 0 .. Len(sent') :
                      Last(a, p)' /\ Coming(a, p)' /\ Treated(a, p)'
  BY DEF Filter
<1>1. PICK p \in 0 .. Len(sent) : Last(a, p) /\ Coming(a, p) /\ Treated(a, p)
  BY DEF Filter
<1> SUFFICES Last(a, p)' /\ Coming(a, p)' /\ Treated(a, p)'
  BY <1>0, <1>1
<1>2. ASSUME NEW k \in 1 .. Len(fromDongle), NEW x \in Nat,
             x = fromDongle[k].id, FirstCopy(k)
      PROVE  Behind(x)'
  <2>1. Behind(x)
    BY <1>2 DEF FirstCopy
  <2> QED BY <2>1, BehindStays
<1>3. ASSUME NEW s \in {0, 1}, NEW n \in Nat, n + s = Len(fromDongle),
             n <= Len(fromDongle'), Len(fromDongle') \in Nat,
             \A k \in 1 .. n : fromDongle'[k] = fromDongle[k + s],
             s = 1 => ~From(1, a)
      PROVE  /\ Last(a, p)'
             /\ \A k \in 1 .. n : InTurn(k, a, p)'
             /\ \A i \in 1 .. Len(sent) : sent[i].src = a /\ sent[i].dst = endpoint_ =>
                  IF p < i THEN \E k \in 1 .. n : Ours(k)' /\ fromDongle'[k].id = i
                  ELSE Done(i)'
  <2>1. \A k \in 1 .. Len(fromDongle) : \A x \in Nat :
          x = fromDongle[k].id /\ k > s /\ FirstCopy(k) => Behind(x)'
    BY <1>2
  <2>2. last_msg_'[a] = last_msg_[a]
    BY <1>0
  <2> QED BY <1>1, <1>3, <2>1, <2>2, Kept
<1>4. ASSUME fromDongle # <<>>, Head(fromDongle).op # "incoming",
             fromDongle' = Tail(fromDongle), sent' = sent
      PROVE  Last(a, p)' /\ Coming(a, p)' /\ Treated(a, p)'
  <2>1. PICK n \in Nat : n + 1 = Len(fromDongle)
    BY <1>0, <1>4, Front
  <2>2. /\ Len(fromDongle') = n /\ ~From(1, a)
        /\ \A k \in 1 .. n : fromDongle'[k] = fromDongle[k + 1]
    BY <1>0, <1>4, <2>1, Front DEF From, Ours
  <2>3. /\ Last(a, p)' /\ \A k \in 1 .. n : InTurn(k, a, p)'
        /\ \A i \in 1 .. Len(sent) : sent[i].src = a /\ sent[i].dst = endpoint_ =>
             IF p < i THEN \E k \in 1 .. n : Ours(k)' /\ fromDongle'[k].id = i
             ELSE Done(i)'
    BY <1>3, <2>1, <2>2
  <2> QED BY <1>4, <2>2, <2>3 DEF Coming, Treated
<1>5. ASSUME fromDongle' = fromDongle, sent' = sent
      PROVE  Last(a, p)' /\ Coming(a, p)' /\ Treated(a, p)'
  <2>1. PICK n \in Nat : n = Len(fromDongle)
    BY <1>0
  <2>2. /\ Last(a, p)' /\ \A k \in 1 .. n : InTurn(k, a, p)'
        /\ \A i \in 1 .. Len(sent) : sent[i].src = a /\ sent[i].dst = endpoint_ =>
             IF p < i THEN \E k \in 1 .. n : Ours(k)' /\ fromDongle'[k].id = i
             ELSE Done(i)'
    <3>1. n + 0 = n /\ \A k \in 1 .. n : k + 0 = k
      BY <2>1
    <3> QED BY <1>3, <1>5, <2>1, <3>1
  <2> QED BY <1>5, <2>1, <2>2 DEF Coming, Treated
<1>6. ASSUME NEW f \in Frames, fromDongle' = Append(fromDongle, f),
             f.op = "incoming" => f.id \in 1 .. Len(sent')
      PROVE  /\ Last(a, p)' /\ Len(fromDongle') = Len(fromDongle) + 1
             /\ fromDongle'[Len(fromDongle) + 1] = f
             /\ \A k \in 1 .. Len(fromDongle) : InTurn(k, a, p)'
             /\ \A k \in 1 .. Len(fromDongle) : fromDongle'[k] = fromDongle[k]
             /\ \A i \in 1 .. Len(sent) : sent[i].src = a /\ sent[i].dst = endpoint_ =>
                  IF p < i THEN \E k \in 1 .. Len(fromDongle) : Ours(k)' /\ fromDongle'[k].id = i
                  ELSE Done(i)'
  <2>1. PICK n \in Nat : n = Len(fromDongle)
    BY <1>0
  <2>2. /\ Len(fromDongle') = n + 1 /\ fromDongle'[n + 1] = f
        /\ \A k \in 1 .. n : fromDongle'[k] = fromDongle[k]
    BY <1>0, <1>6, <2>1, Back
  <2>3. n + 0 = n /\ \A k \in 1 .. n : k + 0 = k
    BY <2>1
  <2>4. /\ Last(a, p)' /\ \A k \in 1 .. n : InTurn(k, a, p)'
        /\ \A i \in 1 .. Len(sent) : sent[i].src = a /\ sent[i].dst = endpoint_ =>
             IF p < i THEN \E k \in 1 .. n : Ours(k)' /\ fromDongle'[k].id = i
             ELSE Done(i)'
    BY <1>3, <2>1, <2>2, <2>3
  <2> QED BY <2>1, <2>2, <2>4
<1>7. ASSUME NEW f \in Frames, fromDongle' = Append(fromDongle, f), f.op # "incoming",
             sent' = sent
      PROVE  Last(a, p)' /\ Coming(a, p)' /\ Treated(a, p)'
  <2>1. PICK n \in Nat : n = Len(fromDongle)
    BY <1>0
  <2>2. /\ Last(a, p)' /\ Len(fromDongle') = n + 1 /\ fromDongle'[n + 1] = f
        /\ \A k \in 1 .. n : InTurn(k, a, p)'
        /\ \A i \in 1 .. Len(sent) : sent[i].src = a /\ sent[i].dst = endpoint_ =>
             IF p < i THEN \E k \in 1 .. n : Ours(k)' /\ fromDongle'[k].id = i
             ELSE Done(i)'
    BY <1>6, <1>7, <2>1
  <2>3. InTurn(n + 1, a, p)'
    BY <1>7, <2>2 DEF InTurn, From, Ours
  <2>4. \A k \in 1 .. n + 1 : k \in 1 .. n \/ k = n + 1
    BY <2>1
  <2>5. \A k \in 1 .. n : k \in 1 .. n + 1
    BY <2>1
  <2> QED BY <1>7, <2>2, <2>3, <2>4, <2>5 DEF Coming, Treated
<1>8. ASSUME NEW d \in Devices, Report(d)
      PROVE  Last(a, p)' /\ Coming(a, p)' /\ Treated(a, p)'
  <2>1. PICK n \in Nat : n = Len(fromDongle)
    BY <1>0
  <2>2. PICK l \in Nat : l = Len(sent)
    BY <1>0
  <2>3. PICK f \in Frames : f = [op |-> "incoming", id |-> l + 1]
    BY <1>8, <2>2, Reporting
  <2>4. Len(sent') = l + 1 /\ fromDongle' = Append(fromDongle, f)
    BY <1>8, <2>2, <2>3, Reporting
  <2>5. l + 1 \in 1 .. Len(sent') /\ f.op = "incoming" /\ f.id = l + 1
    BY <2>3, <2>4
  <2>6. /\ Last(a, p)' /\ Len(fromDongle') = n + 1 /\ fromDongle'[n + 1] = f
        /\ \A k \in 1 .. n : InTurn(k, a, p)'
        /\ \A k \in 1 .. n : fromDongle'[k] = fromDongle[k]
        /\ \A i \in 1 .. l : sent[i].src = a /\ sent[i].dst = endpoint_ =>
             IF p < i THEN \E k \in 1 .. n : Ours(k)' /\ fromDongle'[k].id = i
             ELSE Done(i)'
    BY <1>6, <2>1, <2>2, <2>4, <2>5
  <2>7. \A k \in 1 .. n : fromDongle'[k].op = "incoming" =>
                            fromDongle'[k].id \in 1 .. l /\ fromDongle'[k].id < l + 1
    BY <2>1, <2>2, <2>6 DEF Ids
  <2>8. Behind(l + 1)'
    <3>1. UNCHANGED <<handlers, published>>
      BY <1>8 DEF Report, hubVars
    <3>2. /\ \A k \in 1 .. Len(handlers["nwk"]) : handlers["nwk"][k].id < l + 1
          /\ \A k \in 1 .. Len(published) : published[k].id < l + 1
      BY <2>2 DEF Ids
    <3> QED BY <3>1, <3>2 DEF Behind
  <2>9. InTurn(n + 1, a, p)'
    <3>1. (n + 1) - 1 = n /\ p <= l + 1
      BY <1>0, <2>2
    <3>2. FirstCopy(n + 1)'
      BY <2>5, <2>6, <2>7, <2>8, <3>1 DEF FirstCopy, Behind, Ours
    <3>3. \A j \in 1 .. n : From(j, a)' => fromDongle'[j].id <= l + 1
      BY <2>2, <2>7 DEF From, Ours
    <3> QED BY <2>5, <2>6, <3>1, <3>2, <3>3 DEF InTurn
  <2>10. \A k \in 1 .. n + 1 : k \in 1 .. n \/ k = n + 1
    BY <2>1
  <2>11. Coming(a, p)'
    BY <2>6, <2>9, <2>10 DEF Coming
  <2>12. ASSUME NEW i \in 1 .. l + 1, sent'[i].src = a, sent'[i].dst = endpoint_
         PROVE  IF p < i THEN \E k \in 1 .. n + 1 : Ours(k)' /\ fromDongle'[k].id = i
                ELSE Done(i)'
    <3>1. CASE i \in 1 .. l
      <4>1. sent'[i] = sent[i]
        BY <1>0, <2>2, <3>1
      <4>2. \A k \in 1 .. n : k \in 1 .. n + 1
        BY <2>1
      <4> QED BY <2>6, <2>12, <3>1, <4>1, <4>2
    <3>2. CASE i = l + 1
      <4>1. p < i /\ n + 1 \in 1 .. n + 1
        BY <1>0, <2>1, <2>2, <3>2
      <4>2. Ours(n + 1)' /\ fromDongle'[n + 1].id = i
        BY <2>5, <2>6, <2>12, <3>2 DEF Ours
      <4> QED BY <4>1, <4>2
    <3> QED BY <2>2, <3>1, <3>2
  <2>13. Treated(a, p)'
    BY <2>4, <2>6, <2>12 DEF Treated
  <2> QED BY <2>6, <2>11, <2>13
<1>9. ASSUME NEW d \in Devices, Resend(d)
      PROVE  Last(a, p)' /\ Coming(a, p)' /\ Treated(a, p)'
  <2>1. PICK n \in Nat : n = Len(fromDongle)
    BY <1>0
  <2>2. PICK i \in 1 .. Len(sent) :
          /\ sent[i].dev = d /\ sent[i].src = home[d]
          /\ \A j \in 1 .. Len(sent) : sent[j].dev = d => j <= i
          /\ fromDongle' = Append(fromDongle, [op |-> "incoming", id |-> i])
    <3>1. DOMAIN sent = 1 .. Len(sent)
      BY LenProperties DEF TypeOK
    <3> QED BY <1>9, <3>1 DEF Resend
  <2>3. PICK f \in Frames : f = [op |-> "incoming", id |-> i]
    <3>1. i \in Nat
      BY <1>0
    <3>2. [op |-> "incoming", id |-> i] \in Frames
      BY <3>1 DEF Frames
    <3> QED BY <3>2
  <2>4. sent' = sent /\ fromDongle' = Append(fromDongle, f)
    BY <1>9, <2>2, <2>3 DEF Resend, netVars
  <2>5. i \in 1 .. Len(sent') /\ f.op = "incoming" /\ f.id = i
    BY <2>3, <2>4
  <2>6. /\ Last(a, p)' /\ Len(fromDongle') = n + 1 /\ fromDongle'[n + 1] = f
        /\ \A k \in 1 .. n : InTurn(k, a, p)'
        /\ \A k \in 1 .. n : fromDongle'[k] = fromDongle[k]
        /\ \A j \in 1 .. Len(sent) : sent[j].src = a /\ sent[j].dst = endpoint_ =>
             IF p < j THEN \E k \in 1 .. n : Ours(k)' /\ fromDongle'[k].id = j
             ELSE Done(j)'
    BY <1>6, <2>1, <2>4, <2>5
  <2>7. InTurn(n + 1, a, p)'
    <3> SUFFICES ASSUME From(n + 1, a)'
                 PROVE  /\ p <= i
                        /\ \A j \in 1 .. n : From(j, a)' => fromDongle'[j].id <= i
                        /\ p < i => Again(n + 1)'
      <4>1. (n + 1) - 1 = n
        BY <2>1
      <4> QED BY <2>5, <2>6, <4>1 DEF InTurn
    <3>1. sent[i].src = a /\ sent[i].dst = endpoint_
      BY <2>4, <2>5, <2>6 DEF From, Ours
    <3>2. \A j \in 1 .. Len(sent) : sent[j].src = a => j <= i
      <4>1. home[d] \notin former[d]
        BY <1>9 DEF Places
      <4>2. ASSUME NEW j \in 1 .. Len(sent), sent[j].src = a, i < j
            PROVE  FALSE
        <5>1. sent[i].dev = sent[j].dev
          BY <2>2, <3>1, <4>1, <4>2 DEF Places
        <5> QED BY <2>2, <4>2, <5>1
      <4> QED BY <1>0, <4>2
    <3>3. p <= i
      <4>1. CASE p = 0
        BY <4>1
      <4>2. CASE p \in 1 .. Len(sent)
        BY <1>1, <3>2, <4>2 DEF Last
      <4> QED BY <1>0, <4>1, <4>2
    <3>4. ASSUME NEW j \in 1 .. n, From(j, a)'
          PROVE  fromDongle'[j].id <= i
      <4>1. fromDongle[j].id \in 1 .. Len(sent) /\ sent[fromDongle[j].id].src = a
        BY <2>1, <2>4, <2>6, <3>4 DEF From, Ours, Ids
      <4> QED BY <2>6, <3>2, <4>1
    <3>5. ASSUME p < i
          PROVE  Again(n + 1)'
      <4>1. PICK k \in 1 .. n : Ours(k)' /\ fromDongle'[k].id = i
        BY <2>6, <3>1, <3>5
      <4>2. k \in 1 .. (n + 1) - 1
        BY <2>1
      <4> QED BY <2>5, <2>6, <4>1, <4>2 DEF Again
    <3> QED BY <3>3, <3>4, <3>5
  <2>8. \A k \in 1 .. n + 1 : k \in 1 .. n \/ k = n + 1
    BY <2>1
  <2>9. \A k \in 1 .. n : k \in 1 .. n + 1
    BY <2>1
  <2>10. Coming(a, p)' /\ Treated(a, p)'
    BY <2>4, <2>6, <2>7, <2>8, <2>9 DEF Coming, Treated
  <2> QED BY <2>6, <2>10
<1> QED BY <1>4, <1>5, <1>7, <1>8, <1>9, LineMoves

\* A message that is heard is published or ignored as it should be.
LEMMA FilterHeard ==
  ASSUME TypeOK, Ids, Refused, Places, Numbers, Filter, Next,
         OnFrame, Head(fromDongle).op = "incoming"
  PROVE  Filter'
<1>1. PICK i : i = Head(fromDongle).id
  OBVIOUS
<1>2. PICK asked \in Seq(Handlers), asks \in Seq(Asks("nwk")) : Heard(asked, asks)
  BY Hearing
<1>3. PICK n \in Nat : n + 1 = Len(fromDongle)
  <2>1. fromDongle \in Seq(Frames) /\ fromDongle # <<>>
    BY FrameKinds
  <2>2. PICK l \in Nat : l = Len(fromDongle) /\ l >= 1
    BY <2>1, Front
  <2>3. l - 1 \in Nat /\ (l - 1) + 1 = l
    BY <2>2
  <2> QED BY <2>2, <2>3
<1>4. /\ fromDongle[1].op = "incoming" /\ fromDongle[1].id = i /\ 1 \in 1 .. Len(fromDongle)
      /\ Len(fromDongle') = n /\ sent' = sent /\ published' = published
      /\ \A k \in 1 .. n : /\ fromDongle'[k] = fromDongle[k + 1]
                           /\ k + 1 \in 1 .. Len(fromDongle) /\ k \in 1 .. Len(fromDongle')
  <2>1. /\ fromDongle \in Seq(Frames) /\ fromDongle # <<>> /\ sent' = sent
        /\ fromDongle' = Tail(fromDongle)
    BY FrameKinds
  <2>2. published' = published
    BY <1>2 DEF Heard
  <2>3. /\ Head(fromDongle) = fromDongle[1] /\ Len(fromDongle') = n
        /\ 1 \in 1 .. Len(fromDongle)
        /\ \A k \in 1 .. n : k + 1 \in 1 .. Len(fromDongle) /\ fromDongle'[k] = fromDongle[k + 1]
    BY <1>3, <2>1, Front
  <2> QED BY <1>1, <2>1, <2>2, <2>3
<1>5. i \in 1 .. Len(sent) /\ Len(sent) \in Nat /\ sent[i].src \in Addrs
  BY <1>4, SentMessage, LenProperties DEF Ids, TypeOK
<1>6. /\ handlers'["nwk"] = handlers["nwk"] \o asked
      /\ handlers["nwk"] \in Seq(Handlers)
      /\ \A k \in 1 .. Len(asked) : asked[k].id = i /\ (asked[k].for = "zcl" => Ours(1))
      /\ sent[i].dst = endpoint_ /\ last_msg_[sent[i].src] # sent[i].data
         /\ sent[i].data.body \in Known => 1 \in 1 .. Len(asked) /\ asked[1].for = "zcl"
  <2>1. Len(asked) \in Nat
    BY LenProperties
  <2>2. \A k \in 1 .. Len(asked) : asked[k].id = i /\ (asked[k].for = "zcl" => Ours(1))
    BY <1>1, <1>2, <1>4 DEF Heard, Ours
  <2>3. handlers'["nwk"] = handlers["nwk"] \o asked /\ handlers["nwk"] \in Seq(Handlers)
    BY <1>2 DEF Heard, TypeOK, Lookups
  <2>4. sent[i].dst = endpoint_ /\ last_msg_[sent[i].src] # sent[i].data
        /\ sent[i].data.body \in Known => Len(asked) >= 1 /\ asked[1].for = "zcl"
    BY <1>1, <1>2 DEF Heard
  <2> QED BY <2>1, <2>2, <2>3, <2>4
<1>7. /\ last_msg_' \in [Addrs -> {<<>>} \cup Data]
      /\ \A a \in Addrs : last_msg_'[a] = IF From(1, a) THEN sent[i].data ELSE last_msg_[a]
  BY <1>1, <1>2, <1>4, <1>5, SentMessage DEF Heard, TypeOK, From, Ours
<1>8. ASSUME NEW k \in 1 .. Len(fromDongle), NEW x \in Nat, x = fromDongle[k].id,
             k > 1, FirstCopy(k)
      PROVE  Behind(x)'
  <2>1. Behind(x) /\ (Ours(1) => i < x)
    <3>1. 1 \in 1 .. k - 1
      BY <1>8
    <3> QED BY <1>4, <1>8, <3>1 DEF FirstCopy
  <2>2. ASSUME NEW j \in 1 .. Len(handlers'["nwk"]), handlers'["nwk"][j].for = "zcl"
        PROVE  handlers'["nwk"][j].id < x
    <3>1. CASE j \in 1 .. Len(handlers["nwk"])
      <4>1. handlers'["nwk"][j] = handlers["nwk"][j]
        BY <1>6, <3>1, Joined
      <4> QED BY <2>1, <2>2, <3>1, <4>1 DEF Behind, Listed
    <3>2. ASSUME NEW q \in 1 .. Len(asked), j = Len(handlers["nwk"]) + q
          PROVE  handlers'["nwk"][j].id < x
      <4>1. handlers'["nwk"][j] = asked[q]
        BY <1>6, <3>2, Joined
      <4> QED BY <1>6, <2>1, <2>2, <4>1
    <3>3. j \in 1 .. Len(handlers["nwk"]) \/ \E q \in 1 .. Len(asked) : j = Len(handlers["nwk"]) + q
      BY <1>6, Joined
    <3> QED BY <3>1, <3>2, <3>3
  <2> QED BY <1>4, <2>1, <2>2 DEF Behind, Listed, Told
<1> SUFFICES ASSUME NEW a \in Addrs
             PROVE  \E q \in 0 .. Len(sent) :
                      Last(a, q)' /\ Coming(a, q)' /\ Treated(a, q)'
  BY <1>4 DEF Filter
<1>9. PICK p \in 0 .. Len(sent) : Last(a, p) /\ Coming(a, p) /\ Treated(a, p)
  BY DEF Filter
<1>10. CASE ~From(1, a)
  <2>1. /\ Last(a, p)'
        /\ \A k \in 1 .. n : InTurn(k, a, p)'
        /\ \A j \in 1 .. Len(sent) : sent[j].src = a /\ sent[j].dst = endpoint_ =>
             IF p < j THEN \E k \in 1 .. n : Ours(k)' /\ fromDongle'[k].id = j
             ELSE Done(j)'
    <3>1. \A k \in 1 .. Len(fromDongle) : \A x \in Nat :
            x = fromDongle[k].id /\ k > 1 /\ FirstCopy(k) => Behind(x)'
      BY <1>8
    <3>2. last_msg_'[a] = last_msg_[a] /\ n <= Len(fromDongle') /\ Len(fromDongle') \in Nat
      BY <1>4, <1>7, <1>10
    <3> QED BY <1>3, <1>4, <1>9, <1>10, <3>1, <3>2, Kept
  <2>2. Coming(a, p)' /\ Treated(a, p)'
    BY <1>4, <2>1 DEF Coming, Treated
  <2> QED BY <1>9, <2>1, <2>2
<1>11. CASE From(1, a)
  <2>1. /\ sent[i].src = a /\ sent[i].dst = endpoint_
        /\ InTurn(1, a, p) /\ p <= i
    BY <1>4, <1>9, <1>11 DEF From, Ours, Coming, InTurn
  <2>2. \A k \in 1 .. Len(fromDongle) :
          From(k, a) => i <= fromDongle[k].id /\ fromDongle[k].id \in 1 .. Len(sent)
    <3>1. ASSUME NEW k \in 1 .. Len(fromDongle), From(k, a)
          PROVE  i <= fromDongle[k].id /\ fromDongle[k].id \in 1 .. Len(sent)
      <4>1. k = 1 \/ 1 \in 1 .. k - 1
        BY <1>3
      <4>2. InTurn(k, a, p) /\ fromDongle[k].id \in 1 .. Len(sent)
        BY <1>9, <3>1 DEF Coming, From, Ours, Ids
      <4>3. CASE 1 \in 1 .. k - 1
        BY <1>4, <1>11, <3>1, <4>2, <4>3 DEF InTurn
      <4> QED BY <1>4, <1>5, <4>1, <4>2, <4>3
    <3> QED BY <3>1
  <2>3. Last(a, i)'
    BY <1>4, <1>5, <1>7, <1>11, <2>1 DEF Last
  <2>4. ASSUME NEW k \in 1 .. n
        PROVE  /\ Ours(k)' <=> Ours(k + 1)
               /\ From(k, a)' <=> From(k + 1, a)
    BY <1>4 DEF Ours, From
  <2>5. ASSUME NEW k \in 1 .. n, From(k, a)'
        PROVE  InTurn(k, a, i)'
    <3>1. PICK x \in 1 .. Len(sent) : x = fromDongle[k + 1].id
      BY <1>4, <2>2, <2>4, <2>5
    <3>2. fromDongle'[k].id = x /\ k + 1 \in 1 .. Len(fromDongle) /\ (k + 1) - 1 = k /\ x \in Nat
      BY <1>4, <3>1
    <3>3. InTurn(k + 1, a, p) /\ From(k + 1, a) /\ i <= x
      BY <1>9, <2>2, <2>4, <2>5, <3>1, <3>2 DEF Coming
    <3>4. \A j \in 1 .. k - 1 : j \in 1 .. n /\ j + 1 \in 1 .. (k + 1) - 1
      BY <1>3
    <3>5. \A j \in 1 .. k - 1 : From(j, a)' => fromDongle'[j].id <= x
      BY <1>4, <2>4, <3>1, <3>3, <3>4 DEF InTurn
    <3>6. ASSUME FirstCopy(k + 1)
          PROVE  FirstCopy(k)'
      <4>1. Behind(x)'
        <5>1. k + 1 > 1
          OBVIOUS
        <5> QED BY <1>8, <3>1, <3>2, <3>6, <5>1 DEF Behind
      <4>2. \A j \in 1 .. k - 1 : Ours(j)' => fromDongle'[j].id < x
        BY <1>4, <2>4, <3>1, <3>4, <3>6 DEF FirstCopy
      <4> QED BY <3>2, <4>1, <4>2 DEF FirstCopy, Behind
    <3>7. ASSUME Again(k + 1), i < x
          PROVE  Again(k)'
      <4>1. PICK j \in 1 .. (k + 1) - 1 : Ours(j) /\ fromDongle[j].id = x
        BY <3>1, <3>7 DEF Again
      <4>2. j # 1
        BY <1>4, <1>5, <3>7, <4>1
      <4>3. j - 1 \in 1 .. k - 1 /\ (j - 1) + 1 = j
        BY <4>1, <4>2
      <4>4. Ours(j - 1)' /\ fromDongle'[j - 1].id = x
        BY <1>4, <2>4, <3>4, <4>1, <4>3
      <4> QED BY <3>2, <4>3, <4>4 DEF Again
    <3> QED BY <1>5, <1>9, <2>1, <3>1, <3>2, <3>3, <3>5, <3>6, <3>7 DEF InTurn
  <2>6. Coming(a, i)'
    <3>1. ASSUME NEW k \in 1 .. n
          PROVE  InTurn(k, a, i)'
      BY <2>5 DEF InTurn
    <3> QED BY <1>4, <3>1 DEF Coming
  <2>7. ASSUME NEW j \in 1 .. Len(sent), sent[j].src = a, sent[j].dst = endpoint_, p < j
        PROVE  i <= j
    <3>1. PICK k \in 1 .. Len(fromDongle) : Ours(k) /\ fromDongle[k].id = j
      BY <1>9, <2>7 DEF Treated
    <3>2. From(k, a)
      BY <2>7, <3>1 DEF From
    <3> QED BY <2>2, <3>1, <3>2
  <2>8. Done(i)'
    <3>1. CASE p = i
      <4>1. Done(i)
        BY <1>5, <1>9, <2>1, <3>1 DEF Treated
      <4> QED BY <1>5, <4>1, DoneStays
    <3>2. CASE p # i /\ last_msg_[a] = sent[i].data
      <4>1. p < i /\ p \in Nat
        BY <1>5, <2>1, <3>2
      <4>2. p # 0
        <5>1. sent[i].data \in Data
          BY <1>5, SentMessage
        <5>2. sent[i].data # <<>>
          <6>1. DOMAIN sent[i].data = {"tsn", "body"}
            BY <5>1 DEF Data
          <6>2. DOMAIN <<>> = 1 .. 0
            BY EmptySeq, LenProperties
          <6>3. {"tsn", "body"} # 1 .. 0
            OBVIOUS
          <6> QED BY <6>1, <6>2, <6>3, Zenon
        <5> QED BY <1>9, <3>2, <5>2 DEF Last
      <4>3. /\ p \in 1 .. Len(sent) /\ p \in 1 .. i - 1
            /\ sent[p].src = a /\ sent[p].dst = endpoint_ /\ sent[p].data = sent[i].data
        BY <1>5, <1>9, <3>2, <4>1, <4>2 DEF Last
      <4>4. ASSUME NEW j \in p + 1 .. i - 1, sent[j].src = a
            PROVE  sent[j].dst # endpoint_
        <5>1. j \in 1 .. Len(sent) /\ p < j /\ ~(i <= j)
          BY <1>5, <4>1
        <5> QED BY <2>7, <4>4, <5>1
      <4>5. faults["restart"] = 0 /\ sent[p].dev = sent[i].dev => i - p >= TsnMod
        <5>2. TsnMod \in Nat
          BY Constants
        <5>3. ASSUME faults["restart"] = 0, sent[p].dev = sent[i].dev, i - p < TsnMod
              PROVE  FALSE
          <6>1. p < i /\ p \in 1 .. Len(sent)
            BY <4>1, <4>3
          <6>2. sent[p].data.tsn # sent[i].data.tsn
            BY <1>5, <5>3, <6>1 DEF Numbers
          <6> QED BY <4>3, <6>2
        <5> QED BY <1>5, <4>1, <5>2, <5>3
      <4>6. Repeats(i)
        BY <2>1, <4>3, <4>4, <4>5 DEF Repeats
      <4> QED BY <1>5, <4>6, DoneStays DEF Done
    <3>3. CASE last_msg_[a] # sent[i].data /\ sent[i].data.body \in Known
      <4>1. 1 \in 1 .. Len(asked) /\ asked[1].for = "zcl" /\ asked[1].id = i
        BY <1>6, <2>1, <3>3
      <4>2. PICK k : k = Len(handlers["nwk"]) + 1
        OBVIOUS
      <4>3. k \in 1 .. Len(handlers'["nwk"]) /\ handlers'["nwk"][k] = asked[1]
        BY <1>6, <4>1, <4>2, Joined
      <4> QED BY <4>1, <4>3 DEF Done, Listed
    <3>4. CASE sent[i].data.body \notin Known
      BY <1>4, <3>4 DEF Done
    <3> QED BY <3>1, <3>2, <3>3, <3>4
  <2>9. ASSUME NEW j \in 1 .. Len(sent), sent[j].src = a, sent[j].dst = endpoint_
        PROVE  IF i < j THEN \E k \in 1 .. n : Ours(k)' /\ fromDongle'[k].id = j
               ELSE Done(j)'
    <3>1. CASE i < j
      <4>1. PICK k \in 1 .. Len(fromDongle) : Ours(k) /\ fromDongle[k].id = j
        BY <1>5, <1>9, <2>1, <2>9, <3>1 DEF Treated
      <4>2. k # 1
        BY <1>4, <1>5, <3>1, <4>1
      <4>3. k - 1 \in 1 .. n /\ (k - 1) + 1 = k
        BY <1>3, <4>1, <4>2
      <4> QED BY <1>4, <2>4, <3>1, <4>1, <4>3
    <3>2. CASE j = i
      BY <1>5, <2>8, <3>2
    <3>3. CASE j < i
      <4>1. ~(p < j)
        BY <1>5, <2>7, <2>9, <3>3
      <4>2. Done(j)
        BY <1>9, <2>9, <4>1 DEF Treated
      <4>3. ~(i < j)
        BY <1>5, <3>3
      <4> QED BY <4>2, <4>3, DoneStays
    <3> QED BY <1>5, <3>1, <3>2, <3>3
  <2>10. Treated(a, i)'
    BY <1>4, <2>9 DEF Treated
  <2> QED BY <1>5, <2>3, <2>6, <2>10
<1> QED BY <1>10, <1>11

-----------------------------------------------------------------------------
(* The lookups and their answers.                                           *)

\* A list of some things is a list of more things.
LEMMA WiderSeq ==
  ASSUME NEW S, NEW T, S \subseteq T
  PROVE  \A s \in Seq(S) : s \in Seq(T)
<1> SUFFICES ASSUME NEW s \in Seq(S)
             PROVE  s \in Seq(T)
  OBVIOUS
<1>1. s \in [1 .. Len(s) -> S] /\ Len(s) \in Nat
  BY LenProperties
<1>2. s \in [1 .. Len(s) -> T]
  BY <1>1
<1> QED BY <1>1, <1>2, SeqDef

\* What is selected of a list without its head.
LEMMA SelectedTail ==
  ASSUME NEW S, NEW s \in Seq(S), s # <<>>, NEW T
  PROVE  /\ Selected(s, T) \in Seq(S \cap T) /\ Selected(Tail(s), T) \in Seq(S \cap T)
         /\ Len(Selected(Tail(s), T)) \in Nat
         /\ Head(s) \notin T => Selected(Tail(s), T) = Selected(s, T)
         /\ Head(s) \in T =>
              /\ Len(Selected(s, T)) = Len(Selected(Tail(s), T)) + 1
              /\ Selected(s, T)[1] = Head(s)
              /\ \A k \in 1 .. Len(Selected(Tail(s), T)) :
                   Selected(Tail(s), T)[k] = Selected(s, T)[k + 1]
<1>1. PICK h \in S : h = Head(s) /\ Tail(s) \in Seq(S)
  BY Front
<1>2. PICK u \in Seq(S \cap T) : u = Selected(s, T)
  BY SelectedType
<1>3. PICK v \in Seq(S \cap T) : v = Selected(Tail(s), T)
  BY <1>1, SelectedType
<1>4. Len(v) \in Nat
  BY <1>3, LenProperties
<1>5. u = (IF h \in T THEN <<h>> ELSE <<>>) \o v
  BY <1>1, <1>2, <1>3, SelectedHead
<1>6. ASSUME h \notin T
      PROVE  v = u
  BY <1>5, <1>6, ConcatEmptySeq
<1>7. ASSUME h \in T
      PROVE  /\ Len(u) = Len(v) + 1 /\ u[1] = h
             /\ \A k \in 1 .. Len(v) : v[k] = u[k + 1]
  <2>1. u = <<h>> \o v /\ <<h>> \in Seq(S \cap T)
    BY <1>5, <1>7
  <2>2. Len(<<h>>) = 1 /\ <<h>>[1] = h
    OBVIOUS
  <2>3. /\ Len(u) = 1 + Len(v) /\ u[1] = h
        /\ \A k \in 1 .. Len(v) : u[1 + k] = v[k]
    BY <1>4, <2>1, <2>2, Joined
  <2>4. \A k \in 1 .. Len(v) : v[k] = u[k + 1]
    BY <1>4, <2>3
  <2> QED BY <1>4, <2>3, <2>4
<1> QED BY <1>1, <1>2, <1>3, <1>4, <1>6, <1>7

\* A head that is not selected, and one that is.
LEMMA SelectedPast ==
  ASSUME NEW S, NEW s \in Seq(S), s # <<>>, NEW T, Head(s) \notin T
  PROVE  Selected(Tail(s), T) = Selected(s, T)
BY SelectedTail

\* The list u is h followed by u1.
Leads(h, u, u1) ==
  /\ Len(u1) \in Nat /\ Len(u) = Len(u1) + 1 /\ u[1] = h
  /\ \A k \in 1 .. Len(u1) : u1[k] = u[k + 1]

LEMMA SelectedTaken ==
  ASSUME NEW S, NEW s \in Seq(S), s # <<>>, NEW T, Head(s) \in T
  PROVE  /\ Selected(Tail(s), T) \in Seq(S \cap T)
         /\ Leads(Head(s), Selected(s, T), Selected(Tail(s), T))
<1>1. /\ Selected(Tail(s), T) \in Seq(S \cap T)
      /\ Len(Selected(Tail(s), T)) \in Nat
      /\ Len(Selected(s, T)) = Len(Selected(Tail(s), T)) + 1
      /\ Selected(s, T)[1] = Head(s)
      /\ \A k \in 1 .. Len(Selected(Tail(s), T)) :
           Selected(Tail(s), T)[k] = Selected(s, T)[k + 1]
  BY SelectedTail
<1> QED BY <1>1 DEF Leads

\* Requests and frames by what they are about.
LEMMA Sorts ==
  /\ \A f \in Frames : \A l \in Lookups : f \in Answers(l) <=> f.op = l
  /\ \A r \in Requests : \A l \in Lookups : r \in Asks(l) <=> r.op = l
  /\ \A r \in Requests : r \in Commands <=> r.op = "data"
  /\ \A r \in Requests : r.op \in {"data", "nwk", "ext"} /\ r \notin Frames
<1>1. \A f \in Frames : \A l \in Lookups : f \in Answers(l) <=> f.op = l
  BY DEF Answers
<1>2. \A r \in Requests : \A l \in Lookups : r \in Asks(l) <=> r.op = l
  BY DEF Asks
<1>3. \A r \in Requests : r.op \in {"data", "nwk", "ext"} /\ (r \in Commands <=> r.op = "data")
  BY DEF Requests, Commands
<1>4. \A r \in Requests : "key" \in DOMAIN r
  BY DEF Requests, Commands
<1>5. \A f \in Frames : "key" \notin DOMAIN f
  <2>1. \A f \in [op : {"incoming"}, id : Nat] : DOMAIN f = {"op", "id"}
    OBVIOUS
  <2>2. \A f \in [op : Lookups, ok : {FALSE}] : DOMAIN f = {"op", "ok"}
    OBVIOUS
  <2>3. \A f \in [op : {"nwk"}, ok : {TRUE}, value : Devices \cup {NoDevice}] :
          DOMAIN f = {"op", "ok", "value"}
    OBVIOUS
  <2>4. \A f \in [op : {"ext"}, ok : {TRUE}, value : Addrs] : DOMAIN f = {"op", "ok", "value"}
    OBVIOUS
  <2>5. "key" \notin {"op", "id"} /\ "key" \notin {"op", "ok"} /\ "key" \notin {"op", "ok", "value"}
    OBVIOUS
  <2>6. ASSUME NEW f \in Frames
        PROVE  \/ f \in [op : {"incoming"}, id : Nat]
               \/ f \in [op : Lookups, ok : {FALSE}]
               \/ f \in [op : {"nwk"}, ok : {TRUE}, value : Devices \cup {NoDevice}]
               \/ f \in [op : {"ext"}, ok : {TRUE}, value : Addrs]
    BY Zenon DEF Frames
  <2> QED BY <2>1, <2>2, <2>3, <2>4, <2>5, <2>6, Zenon
<1> QED BY <1>1, <1>2, <1>3, <1>4, <1>5

\* The parts of what is waited for.
LEMMA WaitedParts ==
  ASSUME TypeOK, NEW l \in Lookups
  PROVE  /\ fromDongle \in Seq(Frames) /\ toDongle \in Seq(Requests)
         /\ handlers[l] \in Seq(Handlers)
         /\ Selected(fromDongle, Answers(l)) \in Seq(Frames \cup Requests)
         /\ Selected(toDongle, Asks(l)) \in Seq(Frames \cup Requests)
         /\ Selected(toDongle, Asks(l)) \in Seq(Asks(l))
         /\ Waited(l) \in Seq(Frames \cup Requests)
<1>1. fromDongle \in Seq(Frames) /\ toDongle \in Seq(Requests) /\ handlers[l] \in Seq(Handlers)
  BY DEF TypeOK
<1>2. fromDongle \in Seq(Frames \cup Requests) /\ toDongle \in Seq(Frames \cup Requests)
  <2>1. Frames \subseteq Frames \cup Requests /\ Requests \subseteq Frames \cup Requests
    OBVIOUS
  <2> QED BY <1>1, <2>1, WiderSeq
<1>3. /\ Selected(fromDongle, Answers(l)) \in Seq((Frames \cup Requests) \cap Answers(l))
      /\ Selected(toDongle, Asks(l)) \in Seq((Frames \cup Requests) \cap Asks(l))
  BY <1>2, SelectedType
<1>4. /\ Selected(fromDongle, Answers(l)) \in Seq(Frames \cup Requests)
      /\ Selected(toDongle, Asks(l)) \in Seq(Frames \cup Requests)
      /\ Selected(toDongle, Asks(l)) \in Seq(Asks(l))
  <2>1. \A X, Y : X \cap Y \subseteq X /\ X \cap Y \subseteq Y
    OBVIOUS
  <2> QED BY <1>3, <2>1, WiderSeq
<1>5. Waited(l) \in Seq(Frames \cup Requests)
  BY <1>4, ConcatProperties DEF Waited
<1> QED BY <1>1, <1>4, <1>5

\* What is waited for does not change with the lines that hold no lookup.
LEMMA WaitedSame ==
  ASSUME TypeOK, NEW l \in Lookups,
         \/ fromDongle' = fromDongle
         \/ fromDongle # <<>> /\ Head(fromDongle).op # l /\ fromDongle' = Tail(fromDongle)
         \/ \E f \in Frames : f.op # l /\ fromDongle' = Append(fromDongle, f),
         \/ toDongle' = toDongle
         \/ toDongle # <<>> /\ Head(toDongle).op # l /\ toDongle' = Tail(toDongle)
         \/ \E r \in Requests : r.op # l /\ toDongle' = Append(toDongle, r)
         \/ \E asks \in Seq(Requests \ Asks(l)) : toDongle' = toDongle \o asks
  PROVE  Waited(l)' = Waited(l)
<1>0. fromDongle \in Seq(Frames) /\ toDongle \in Seq(Requests)
  BY DEF TypeOK
<1>1. Selected(fromDongle', Answers(l)) = Selected(fromDongle, Answers(l))
  <2>1. CASE fromDongle # <<>> /\ Head(fromDongle).op # l /\ fromDongle' = Tail(fromDongle)
    <3>1. Head(fromDongle) \notin Answers(l)
      BY <2>1 DEF Answers
    <3>2. Selected(Tail(fromDongle), Answers(l)) = Selected(fromDongle, Answers(l))
      BY <1>0, <2>1, <3>1, SelectedPast
    <3> QED BY <2>1, <3>2
  <2>2. ASSUME NEW f \in Frames, f.op # l, fromDongle' = Append(fromDongle, f)
        PROVE  Selected(fromDongle', Answers(l)) = Selected(fromDongle, Answers(l))
    <3>1. f \notin Answers(l)
      BY <2>2 DEF Answers
    <3> QED BY <1>0, <2>2, <3>1, SelectedAppend
  <2> QED BY <2>1, <2>2
<1>2. Selected(toDongle', Asks(l)) = Selected(toDongle, Asks(l))
  <2>1. CASE toDongle # <<>> /\ Head(toDongle).op # l /\ toDongle' = Tail(toDongle)
    <3>1. Head(toDongle) \notin Asks(l)
      BY <2>1 DEF Asks
    <3>2. Selected(Tail(toDongle), Asks(l)) = Selected(toDongle, Asks(l))
      BY <1>0, <2>1, <3>1, SelectedPast
    <3> QED BY <2>1, <3>2
  <2>2. ASSUME NEW r \in Requests, r.op # l, toDongle' = Append(toDongle, r)
        PROVE  Selected(toDongle', Asks(l)) = Selected(toDongle, Asks(l))
    <3>1. r \notin Asks(l)
      BY <2>2 DEF Asks
    <3> QED BY <1>0, <2>2, <3>1, SelectedAppend
  <2>3. ASSUME NEW asks \in Seq(Requests \ Asks(l)), toDongle' = toDongle \o asks
        PROVE  Selected(toDongle', Asks(l)) = Selected(toDongle, Asks(l))
    <3>1. asks \in Seq(Requests) /\ Range(asks) \cap Asks(l) = {}
      <4>1. Requests \ Asks(l) \subseteq Requests
        OBVIOUS
      <4>2. Range(asks) \subseteq Requests \ Asks(l)
        BY RangeElement
      <4> QED BY <4>1, <4>2, WiderSeq
    <3>2. Selected(toDongle', Asks(l)) = Selected(toDongle, Asks(l)) \o Selected(asks, Asks(l))
      <4>1. PICK s \in Seq(Requests) : s = toDongle
        BY <1>0
      <4>2. \A t \in Seq(Requests) :
              Selected(s \o t, Asks(l)) = Selected(s, Asks(l)) \o Selected(t, Asks(l))
        BY SelectedConcat
      <4>3. Selected(s \o asks, Asks(l)) = Selected(s, Asks(l)) \o Selected(asks, Asks(l))
        BY <3>1, <4>2
      <4> QED BY <2>3, <4>1, <4>3
    <3>3. Selected(asks, Asks(l)) = <<>>
      BY <3>1, SelectedNone
    <3>4. Selected(toDongle, Asks(l)) \in Seq(Asks(l))
      BY WaitedParts
    <3> QED BY <3>2, <3>3, <3>4, ConcatEmptySeq
  <2> QED BY <2>1, <2>2, <2>3
<1> QED BY <1>1, <1>2 DEF Waited, Answers, Asks

\* Requests put behind the line are waited for last.
LEMMA WaitedMore ==
  ASSUME TypeOK, NEW l \in Lookups,
         \/ fromDongle' = fromDongle
         \/ fromDongle # <<>> /\ Head(fromDongle).op # l /\ fromDongle' = Tail(fromDongle),
         NEW asks \in Seq(Asks(l)), toDongle' = toDongle \o asks
  PROVE  Waited(l)' = Waited(l) \o asks
<1>0. fromDongle \in Seq(Frames) /\ toDongle \in Seq(Requests) /\ asks \in Seq(Requests)
  <2>1. Asks(l) \subseteq Requests
    BY DEF Asks
  <2> QED BY <2>1, WiderSeq DEF TypeOK
<1>1. Selected(fromDongle', Answers(l)) = Selected(fromDongle, Answers(l))
  <2>1. CASE fromDongle # <<>> /\ Head(fromDongle).op # l /\ fromDongle' = Tail(fromDongle)
    <3>1. Head(fromDongle) \notin Answers(l)
      BY <2>1 DEF Answers
    <3>2. Selected(Tail(fromDongle), Answers(l)) = Selected(fromDongle, Answers(l))
      BY <1>0, <2>1, <3>1, SelectedPast
    <3> QED BY <2>1, <3>2
  <2> QED BY <2>1
<1>2. Selected(toDongle', Asks(l)) = Selected(toDongle, Asks(l)) \o asks
  <2>1. Selected(toDongle', Asks(l)) = Selected(toDongle, Asks(l)) \o Selected(asks, Asks(l))
    BY <1>0, SelectedConcat
  <2>2. Selected(asks, Asks(l)) = asks
    BY SelectedAll
  <2>3. Selected(toDongle', Asks(l)) = Selected(toDongle \o asks, Asks(l))
    OBVIOUS
  <2> QED BY <2>1, <2>2, <2>3
<1>3. PICK u \in Seq(Frames \cup Requests) : u = Selected(fromDongle, Answers(l))
  BY WaitedParts
<1>4. PICK v \in Seq(Frames \cup Requests) : v = Selected(toDongle, Asks(l))
  BY WaitedParts
<1>5. asks \in Seq(Frames \cup Requests)
  <2>1. Requests \subseteq Frames \cup Requests
    OBVIOUS
  <2> QED BY <1>0, <2>1, WiderSeq
<1>6. (u \o v) \o asks = u \o (v \o asks)
  <2>1. PICK T : T = Frames \cup Requests
    OBVIOUS
  <2>2. u \in Seq(T) /\ v \in Seq(T) /\ asks \in Seq(T)
    BY <1>3, <1>4, <1>5, <2>1
  <2> QED BY <2>2, ConcatAssociative
<1>7. Waited(l) = u \o v
  BY <1>3, <1>4 DEF Waited
<1>8. Waited(l)' = u \o (v \o asks)
  <2>1. Waited(l)' = Selected(fromDongle', Answers(l)) \o Selected(toDongle', Asks(l))
    BY DEF Waited, Answers, Asks
  <2> QED BY <1>1, <1>2, <1>3, <1>4, <2>1
<1> QED BY <1>6, <1>7, <1>8

\* The first answer in the line is the first that is waited for.
LEMMA WaitedFirst ==
  ASSUME TypeOK, NEW l \in Lookups, fromDongle # <<>>, Head(fromDongle).op = l,
         fromDongle' = Tail(fromDongle),
         \/ toDongle' = toDongle
         \/ \E r \in Requests : r.op # l /\ toDongle' = Append(toDongle, r)
  PROVE  /\ Len(Waited(l)) = Len(Waited(l)') + 1 /\ Len(Waited(l)') \in Nat
         /\ Waited(l)[1] = Head(fromDongle)
         /\ \A k \in 1 .. Len(Waited(l)') : Waited(l)'[k] = Waited(l)[k + 1]
<1>0. fromDongle \in Seq(Frames) /\ toDongle \in Seq(Requests)
  BY DEF TypeOK
<1>1. PICK f \in Frames : f = Head(fromDongle)
  BY <1>0, Front
<1>2. PICK u \in Seq(Frames \cup Requests) : u = Selected(fromDongle, Answers(l))
  BY WaitedParts
<1>3. PICK v \in Seq(Frames \cup Requests) : v = Selected(toDongle, Asks(l))
  BY WaitedParts
<1>4. PICK u1 : u1 = Selected(Tail(fromDongle), Answers(l))
  OBVIOUS
<1>5. /\ u1 \in Seq(Frames \cup Requests) /\ Len(u1) \in Nat
      /\ Len(u) = Len(u1) + 1 /\ u[1] = f
      /\ \A k \in 1 .. Len(u1) : u1[k] = u[k + 1]
  <2>1. f \in Answers(l)
    BY <1>1 DEF Answers
  <2>2. /\ u1 \in Seq(Frames \cap Answers(l)) /\ Len(u1) \in Nat
        /\ Len(u) = Len(u1) + 1 /\ u[1] = f
        /\ \A k \in 1 .. Len(u1) : u1[k] = u[k + 1]
    <3>0. Head(fromDongle) \in Answers(l)
      BY <1>1, <2>1
    <3>1. /\ Selected(Tail(fromDongle), Answers(l)) \in Seq(Frames \cap Answers(l))
          /\ Leads(Head(fromDongle), Selected(fromDongle, Answers(l)), Selected(Tail(fromDongle), Answers(l)))
      BY <1>0, <3>0, SelectedTaken
    <3> QED BY <1>1, <1>2, <1>4, <3>1 DEF Leads
  <2>3. Frames \cap Answers(l) \subseteq Frames \cup Requests
    OBVIOUS
  <2> QED BY <2>2, <2>3, WiderSeq
<1>6. Selected(toDongle', Asks(l)) = v
  <2>1. ASSUME NEW r \in Requests, r.op # l, toDongle' = Append(toDongle, r)
        PROVE  Selected(toDongle', Asks(l)) = v
    <3>1. r \notin Asks(l)
      BY <2>1 DEF Asks
    <3> QED BY <1>0, <1>3, <2>1, <3>1, SelectedAppend
  <2> QED BY <1>3, <2>1
<1>7. PICK w : w = u \o v
  OBVIOUS
<1>8. PICK w1 : w1 = u1 \o v
  OBVIOUS
<1>9. Waited(l) = w /\ Waited(l)' = w1
  BY <1>2, <1>3, <1>4, <1>6, <1>7, <1>8 DEF Waited, Answers, Asks
<1>10. /\ Len(v) \in Nat /\ Len(w) = Len(u) + Len(v) /\ Len(w1) = Len(u1) + Len(v)
       /\ \A k \in 1 .. Len(w) : w[k] = IF k <= Len(u) THEN u[k] ELSE v[k - Len(u)]
       /\ \A k \in 1 .. Len(w1) : w1[k] = IF k <= Len(u1) THEN u1[k] ELSE v[k - Len(u1)]
  <2>1. /\ Len(v) \in Nat /\ Len(w) = Len(u) + Len(v)
        /\ \A k \in 1 .. Len(w) : w[k] = IF k <= Len(u) THEN u[k] ELSE v[k - Len(u)]
    BY <1>2, <1>3, <1>7, ConcatProperties, LenProperties
  <2>2. /\ Len(w1) = Len(u1) + Len(v)
        /\ \A k \in 1 .. Len(w1) : w1[k] = IF k <= Len(u1) THEN u1[k] ELSE v[k - Len(u1)]
    BY <1>3, <1>5, <1>8, ConcatProperties, LenProperties
  <2> QED BY <2>1, <2>2
<1>11. ASSUME NEW k \in 1 .. Len(w1)
       PROVE  w1[k] = w[k + 1]
  <2>1. k + 1 \in 1 .. Len(w) /\ (k + 1) - Len(u) = k - Len(u1)
    BY <1>5, <1>10
  <2>2. k <= Len(u1) => k \in 1 .. Len(u1) /\ k + 1 <= Len(u)
    BY <1>5, <1>10
  <2>3. ~(k <= Len(u1)) => ~(k + 1 <= Len(u))
    BY <1>5, <1>10
  <2> QED BY <1>5, <1>10, <2>1, <2>2, <2>3
<1>12. Len(w) = Len(w1) + 1 /\ Len(w1) \in Nat /\ w[1] = f
  <2>1. 1 \in 1 .. Len(w) /\ 1 <= Len(u)
    BY <1>5, <1>10
  <2> QED BY <1>5, <1>10, <2>1
<1> QED BY <1>1, <1>9, <1>11, <1>12

\* An answer takes the place of the request.
LEMMA WaitedAnswer ==
  ASSUME TypeOK, NEW l \in Lookups, toDongle # <<>>, Head(toDongle).op = l,
         toDongle' = Tail(toDongle),
         NEW f \in Frames, f.op = l, fromDongle' = Append(fromDongle, f)
  PROVE  /\ Len(Waited(l)') = Len(Waited(l))
         /\ \E n \in 1 .. Len(Waited(l)) :
              /\ Waited(l)[n] = Head(toDongle) /\ Waited(l)'[n] = f
              /\ \A k \in 1 .. Len(Waited(l)) : k # n => Waited(l)'[k] = Waited(l)[k]
<1>0. fromDongle \in Seq(Frames) /\ toDongle \in Seq(Requests)
  BY DEF TypeOK
<1>1. PICK r \in Requests : r = Head(toDongle)
  BY <1>0, Front
<1>2. PICK u \in Seq(Frames \cup Requests) : u = Selected(fromDongle, Answers(l))
  BY WaitedParts
<1>3. PICK v \in Seq(Frames \cup Requests) : v = Selected(toDongle, Asks(l))
  BY WaitedParts
<1>4. PICK v1 : v1 = Selected(Tail(toDongle), Asks(l))
  OBVIOUS
<1>5. /\ v1 \in Seq(Frames \cup Requests) /\ Len(v1) \in Nat
      /\ Len(v) = Len(v1) + 1 /\ v[1] = r
      /\ \A k \in 1 .. Len(v1) : v1[k] = v[k + 1]
  <2>1. r \in Asks(l)
    BY <1>1 DEF Asks
  <2>2. /\ v1 \in Seq(Requests \cap Asks(l)) /\ Len(v1) \in Nat
        /\ Len(v) = Len(v1) + 1 /\ v[1] = r
        /\ \A k \in 1 .. Len(v1) : v1[k] = v[k + 1]
    <3>0. Head(toDongle) \in Asks(l)
      BY <1>1, <2>1
    <3>1. /\ Selected(Tail(toDongle), Asks(l)) \in Seq(Requests \cap Asks(l))
          /\ Leads(Head(toDongle), Selected(toDongle, Asks(l)), Selected(Tail(toDongle), Asks(l)))
      BY <1>0, <3>0, SelectedTaken
    <3> QED BY <1>1, <1>3, <1>4, <3>1 DEF Leads
  <2>3. Requests \cap Asks(l) \subseteq Frames \cup Requests
    OBVIOUS
  <2> QED BY <2>2, <2>3, WiderSeq
<1>6. PICK u1 : u1 = Append(u, f)
  OBVIOUS
<1>7. Selected(fromDongle', Answers(l)) = u1
  <2>1. f \in Answers(l)
    BY DEF Answers
  <2>2. Selected(Append(fromDongle, f), Answers(l)) = Append(Selected(fromDongle, Answers(l)), f)
    BY <1>0, <2>1, SelectedAppend
  <2> QED BY <1>2, <1>6, <2>2
<1>8. /\ u1 \in Seq(Frames \cup Requests) /\ Len(u) \in Nat /\ Len(u1) = Len(u) + 1
      /\ \A k \in 1 .. Len(u) : u1[k] = u[k]
      /\ u1[Len(u) + 1] = f
  BY <1>2, <1>6, Back
<1>9. PICK w : w = u \o v
  OBVIOUS
<1>10. PICK w1 : w1 = u1 \o v1
  OBVIOUS
<1>11. Waited(l) = w /\ Waited(l)' = w1
  BY <1>2, <1>3, <1>4, <1>7, <1>9, <1>10 DEF Waited, Answers, Asks
<1>12. /\ Len(w) = Len(u) + Len(v) /\ Len(w1) = Len(u1) + Len(v1)
       /\ \A k \in 1 .. Len(w) : w[k] = IF k <= Len(u) THEN u[k] ELSE v[k - Len(u)]
       /\ \A k \in 1 .. Len(w1) : w1[k] = IF k <= Len(u1) THEN u1[k] ELSE v1[k - Len(u1)]
  <2>1. /\ Len(w) = Len(u) + Len(v)
        /\ \A k \in 1 .. Len(w) : w[k] = IF k <= Len(u) THEN u[k] ELSE v[k - Len(u)]
    BY <1>2, <1>3, <1>9, ConcatProperties, LenProperties
  <2>2. /\ Len(w1) = Len(u1) + Len(v1)
        /\ \A k \in 1 .. Len(w1) : w1[k] = IF k <= Len(u1) THEN u1[k] ELSE v1[k - Len(u1)]
    BY <1>5, <1>8, <1>10, ConcatProperties, LenProperties
  <2> QED BY <2>1, <2>2
<1>13. PICK n : n = Len(u) + 1
  OBVIOUS
<1>14. Len(w1) = Len(w) /\ n \in 1 .. Len(w) /\ n - Len(u) = 1 /\ n <= Len(u1) /\ ~(n <= Len(u))
  BY <1>5, <1>8, <1>12, <1>13
<1>15. w[n] = r /\ w1[n] = f
  BY <1>5, <1>8, <1>12, <1>13, <1>14
<1>16. ASSUME NEW k \in 1 .. Len(w), k # n
       PROVE  w1[k] = w[k]
  <2>1. CASE k <= Len(u)
    <3>1. k \in 1 .. Len(u) /\ k <= Len(u1)
      BY <1>8, <2>1
    <3> QED BY <1>8, <1>12, <1>14, <2>1, <3>1
  <2>2. CASE ~(k <= Len(u))
    <3>1. /\ ~(k <= Len(u1)) /\ k - Len(u1) \in 1 .. Len(v1)
          /\ (k - Len(u1)) + 1 = k - Len(u)
      BY <1>5, <1>8, <1>12, <1>13, <1>16, <2>2
    <3> QED BY <1>5, <1>12, <1>14, <2>2, <3>1
  <2> QED BY <2>1, <2>2
<1> QED BY <1>1, <1>11, <1>14, <1>15, <1>16

\* The dongle answers what was asked.
LEMMA FoundFits ==
  ASSUME TypeOK, Ids, Places, AirOrder, NEW l \in Lookups,
         NEW k \in 1 .. Len(handlers[l]), NEW r \in Requests, r.op = l,
         Fits(l, r, handlers[l][k])
  PROVE  /\ Found(r) \in Expected(l, handlers[l][k])
         /\ [op |-> l, ok |-> TRUE, value |-> Found(r)] \in Frames
         /\ [op |-> l, ok |-> FALSE] \in Frames
<1>1. PICK h : h = handlers[l][k]
  OBVIOUS
<1>2. r \notin Frames
  BY Sorts
<1>3. r.key = About(l, h)
  BY <1>1, <1>2 DEF Fits
<1>4. CASE l = "nwk"
  <2>1. h.id \in 1 .. Len(sent) /\ r.key = sent[h.id].src
    BY <1>1, <1>3, <1>4 DEF Ids, About
  <2>2. sent[h.id].dev \in Devices
    BY <2>1, SentMessage
  <2>3. PICK m \in Messages : m = sent[h.id] /\ m.dev \in Devices
    BY <2>1, <2>2, SentMessage
  <2>4. Found(r) \in Devices \cup {NoDevice} /\ Found(r) \in Possible(m)
    <3>0. \/ m.src \in former[m.dev]
          \/ home[m.dev] = r.key /\ \A d \in Devices : home[d] = r.key => d = m.dev
      BY <2>1, <2>3 DEF Places
    <3>1. CASE \E d \in Devices : home[d] = r.key
      <4>1. PICK c : c = CHOOSE d \in Devices : home[d] = r.key
        OBVIOUS
      <4>2. c \in Devices /\ home[c] = r.key
        BY <3>1, <4>1
      <4>3. Found(r) = c
        BY <1>4, <3>1, <4>1 DEF Found
      <4> QED BY <3>0, <4>2, <4>3 DEF Possible
    <3>2. CASE ~\E d \in Devices : home[d] = r.key
      BY <1>4, <2>3, <3>0, <3>2 DEF Found, Possible
    <3> QED BY <3>1, <3>2
  <2> QED BY <1>1, <1>4, <2>3, <2>4 DEF Expected, Frames, Lookups
<1>5. CASE l = "ext"
  <2>1. h.id \in 1 .. Len(commands) /\ r.key = commands[h.id]
    BY <1>1, <1>3, <1>5 DEF AirOrder, About
  <2>2. r.key \in Devices
    BY <2>1, ElementOfSeq DEF TypeOK
  <2>3. Found(r) = home[r.key] /\ Found(r) \in Addrs
    BY <1>5, <2>2 DEF Found, TypeOK
  <2>4. Found(r) \in Had(commands[h.id])
    BY <2>1, <2>3 DEF Had
  <2> QED BY <1>1, <1>5, <2>3, <2>4 DEF Expected, Frames, Lookups
<1> QED BY <1>4, <1>5 DEF Lookups

\* The addresses of a device, those it left included, remain its own.
LEMMA HomesLeft ==
  ASSUME TypeOK, Next, NEW d \in Devices
  PROVE  former[d] \subseteq former'[d] /\ home[d] \in {home'[d]} \cup former'[d]
<1>1. CASE UNCHANGED <<home, former>>
  BY <1>1
<1>2. ASSUME NEW e \in Devices, Rejoin(e)
      PROVE  former[d] \subseteq former'[d] /\ home[d] \in {home'[d]} \cup former'[d]
  <2>1. PICK a : home' = [home EXCEPT ![e] = a]
    BY <1>2 DEF Rejoin
  <2>2. former' = [former EXCEPT ![e] = @ \cup {home[e]}]
    BY <1>2 DEF Rejoin
  <2>3. CASE d = e
    BY <2>2, <2>3 DEF TypeOK
  <2>4. CASE d # e
    BY <2>1, <2>2, <2>4 DEF TypeOK
  <2> QED BY <2>3, <2>4
<1>3. UNCHANGED <<home, former>> \/ \E e \in Devices : Rejoin(e)
  BY DEF Next, OnFrame, OnPublish, Report, Resend, DeviceRestarts, DongleServe, LoseFrame, netVars
<1> QED BY <1>1, <1>2, <1>3

\* What fits its handler goes on to fit it.
LEMMA FitsStays ==
  ASSUME TypeOK, Ids, AirOrder, Next, NEW l \in Lookups,
         NEW k \in 1 .. Len(handlers[l]), NEW h, h = handlers[l][k],
         NEW w, Fits(l, w, h)
  PROVE  Fits(l, w, h)'
<1>1. CASE l = "nwk"
  <2>1. h.id \in 1 .. Len(sent)
    BY <1>1 DEF Ids
  <2>2. sent'[h.id] = sent[h.id] /\ sent[h.id].dev \in Devices
    BY <2>1, Grows, SentMessage
  <2>3. former[sent[h.id].dev] \subseteq former'[sent[h.id].dev]
    BY <2>2, HomesLeft
  <2>4. About(l, h)' = About(l, h) /\ Expected(l, h) \subseteq Expected(l, h)'
    BY <1>1, <2>2, <2>3 DEF Expected, About, Possible
  <2> QED BY <2>4 DEF Fits
<1>2. CASE l = "ext"
  <2>1. h.id \in 1 .. Len(commands)
    BY <1>2 DEF AirOrder
  <2>2. commands'[h.id] = commands[h.id] /\ commands[h.id] \in Devices
    BY <2>1, Grows, ElementOfSeq DEF TypeOK
  <2>4. Had(commands[h.id]) \subseteq Had(commands[h.id])'
    BY <2>2, HomesLeft DEF Had
  <2>3. About(l, h)' = About(l, h) /\ Expected(l, h) \subseteq Expected(l, h)'
    BY <1>2, <2>2, <2>4 DEF Expected, About, Had
  <2> QED BY <2>3 DEF Fits
<1> QED BY <1>1, <1>2 DEF Lookups

\* The requests and the answers of a lookup stay in step with its handlers.
LEMMA MatchStep ==
  ASSUME TypeOK, Ids, Places, AirOrder, Next, NEW l \in Lookups, Match(l)
  PROVE  Match(l)'
<1> SUFFICES ASSUME faults'["drop"] = 0
             PROVE  /\ Len(Waited(l)') = Len(handlers'[l])
                    /\ \A k \in 1 .. Len(handlers'[l]) :
                         Fits(l, Waited(l)[k], handlers[l][k])'
  BY DEF Match
<1>0. /\ Len(Waited(l)) = Len(handlers[l]) /\ Len(handlers[l]) \in Nat
      /\ \A k \in 1 .. Len(handlers[l]) : Fits(l, Waited(l)[k], handlers[l][k])
      /\ handlers[l] \in Seq(Handlers) /\ Waited(l) \in Seq(Frames \cup Requests)
  <2>1. faults["drop"] = 0
    BY Grows DEF Kinds
  <2> QED BY <2>1, LenProperties, WaitedParts DEF Match
<1>1. ASSUME NEW k \in 1 .. Len(handlers[l]), NEW h, h = handlers[l][k], NEW w,
             w = Waited(l)[k]
      PROVE  Fits(l, w, h)'
  BY <1>0, <1>1, FitsStays
<1>2. ASSUME Waited(l)' = Waited(l), handlers'[l] = handlers[l]
      PROVE  /\ Len(Waited(l)') = Len(handlers'[l])
             /\ \A k \in 1 .. Len(handlers'[l]) : Fits(l, Waited(l)[k], handlers[l][k])'
  <2>1. ASSUME NEW k \in 1 .. Len(handlers'[l])
        PROVE  Fits(l, Waited(l)[k], handlers[l][k])'
    <3>1. PICK h : h = handlers[l][k]
      OBVIOUS
    <3>2. PICK w : w = Waited(l)[k]
      OBVIOUS
    <3>3. Fits(l, w, h)'
      BY <1>1, <1>2, <3>1, <3>2
    <3> QED BY <1>2, <3>1, <3>2, <3>3 DEF Fits, Expected, About
  <2> QED BY <1>0, <1>2, <2>1
<1>3. ASSUME NEW asked \in Seq(Handlers), NEW asks \in Seq(Asks(l)), Len(asked) = Len(asks),
             handlers'[l] = handlers[l] \o asked, Waited(l)' = Waited(l) \o asks,
             \A k \in 1 .. Len(asked) : Fits(l, asks[k], asked[k])'
      PROVE  /\ Len(Waited(l)') = Len(handlers'[l])
             /\ \A k \in 1 .. Len(handlers'[l]) : Fits(l, Waited(l)[k], handlers[l][k])'
  <2>0. asks \in Seq(Frames \cup Requests)
    <3>1. Asks(l) \subseteq Frames \cup Requests
      BY DEF Asks
    <3> QED BY <3>1, WiderSeq
  <2>1. PICK u \in Seq(Handlers) : u = handlers[l]
    BY <1>0
  <2>2. PICK v \in Seq(Frames \cup Requests) : v = Waited(l)
    BY <1>0
  <2>3. PICK n \in Nat : n = Len(u) /\ n = Len(v)
    BY <1>0, <2>1, <2>2
  <2>4. /\ Len(u \o asked) = n + Len(asked) /\ Len(v \o asks) = n + Len(asked)
        /\ \A k \in 1 .. n : (u \o asked)[k] = u[k] /\ (v \o asks)[k] = v[k]
        /\ \A k \in 1 .. Len(asked) : (u \o asked)[n + k] = asked[k] /\ (v \o asks)[n + k] = asks[k]
    <3>1. /\ Len(u \o asked) = n + Len(asked)
          /\ \A k \in 1 .. n : (u \o asked)[k] = u[k]
          /\ \A k \in 1 .. Len(asked) : (u \o asked)[n + k] = asked[k]
      <4>1. u \in Seq(Handlers) /\ asked \in Seq(Handlers)
        BY <2>1
      <4>2. /\ Len(u \o asked) = Len(u) + Len(asked)
            /\ \A k \in 1 .. Len(u) : (u \o asked)[k] = u[k]
            /\ \A k \in 1 .. Len(asked) : (u \o asked)[Len(u) + k] = asked[k]
        BY <4>1, Joined
      <4> QED BY <2>3, <4>2
    <3>2. /\ Len(v \o asks) = n + Len(asks)
          /\ \A k \in 1 .. n : (v \o asks)[k] = v[k]
          /\ \A k \in 1 .. Len(asks) : (v \o asks)[n + k] = asks[k]
      <4>1. /\ Len(v \o asks) = Len(v) + Len(asks)
            /\ \A k \in 1 .. Len(v) : (v \o asks)[k] = v[k]
            /\ \A k \in 1 .. Len(asks) : (v \o asks)[Len(v) + k] = asks[k]
        BY <2>0, Joined
      <4> QED BY <2>3, <4>1
    <3> QED BY <1>3, <3>1, <3>2
  <2>5. handlers'[l] = u \o asked /\ Waited(l)' = v \o asks
    BY <1>3, <2>1, <2>2
  <2>6. ASSUME NEW k \in 1 .. n + Len(asked)
        PROVE  Fits(l, Waited(l)[k], handlers[l][k])'
    <3>1. CASE k \in 1 .. n
      <4>1. PICK h : h = u[k]
        OBVIOUS
      <4>2. PICK w : w = v[k]
        OBVIOUS
      <4>3. Fits(l, w, h)'
        BY <1>1, <2>1, <2>2, <2>3, <3>1, <4>1, <4>2
      <4>4. handlers'[l][k] = h /\ Waited(l)'[k] = w
        BY <2>4, <2>5, <3>1, <4>1, <4>2
      <4> QED BY <4>3, <4>4 DEF Fits, Expected, About
    <3>2. ASSUME NEW j \in 1 .. Len(asked), k = n + j
          PROVE  Fits(l, Waited(l)[k], handlers[l][k])'
      <4>1. handlers'[l][k] = asked[j] /\ Waited(l)'[k] = asks[j]
        BY <2>4, <2>5, <3>2
      <4>2. Fits(l, asks[j], asked[j])'
        BY <1>3
      <4> QED BY <4>1, <4>2 DEF Fits, Expected, About
    <3>3. k \notin 1 .. n => k - n \in 1 .. Len(asked) /\ k = n + (k - n)
      BY LenProperties
    <3> QED BY <3>1, <3>2, <3>3
  <2> QED BY <2>4, <2>5, <2>6
<1>4. ASSUME fromDongle # <<>>, Head(fromDongle).op = l, fromDongle' = Tail(fromDongle),
             \/ toDongle' = toDongle
             \/ \E r \in Requests : r.op # l /\ toDongle' = Append(toDongle, r),
             handlers[l] # <<>>, handlers'[l] = Tail(handlers[l])
      PROVE  /\ Len(Waited(l)') = Len(handlers'[l])
             /\ \A k \in 1 .. Len(handlers'[l]) : Fits(l, Waited(l)[k], handlers[l][k])'
  <2>0. PICK w1 : w1 = Waited(l)'
    OBVIOUS
  <2>1. /\ Len(Waited(l)) = Len(w1) + 1 /\ Len(w1) \in Nat
        /\ \A k \in 1 .. Len(w1) : w1[k] = Waited(l)[k + 1]
    <3>1. /\ Len(Waited(l)) = Len(Waited(l)') + 1 /\ Len(Waited(l)') \in Nat
          /\ \A k \in 1 .. Len(Waited(l)') : Waited(l)'[k] = Waited(l)[k + 1]
      BY <1>4, WaitedFirst
    <3> QED BY <2>0, <3>1
  <2>2. /\ Len(handlers'[l]) = Len(handlers[l]) - 1
        /\ \A k \in 1 .. Len(handlers'[l]) : /\ k + 1 \in 1 .. Len(handlers[l])
                                             /\ handlers'[l][k] = handlers[l][k + 1]
    BY <1>0, <1>4, Front
  <2>3. Len(w1) = Len(handlers'[l])
    <3>1. PICK m \in Nat : m = Len(handlers[l]) /\ m = Len(Waited(l))
      BY <1>0
    <3>2. m = Len(w1) + 1 /\ Len(w1) \in Nat
      BY <2>1, <3>1
    <3>3. Len(handlers'[l]) = m - 1
      BY <2>2, <3>1
    <3> QED BY <3>2, <3>3
  <2>4. ASSUME NEW k \in 1 .. Len(handlers'[l])
        PROVE  Fits(l, Waited(l)[k], handlers[l][k])'
    <3>1. PICK h : h = handlers[l][k + 1]
      OBVIOUS
    <3>2. PICK w : w = Waited(l)[k + 1]
      OBVIOUS
    <3>3. Fits(l, w, h)'
      BY <1>1, <2>2, <3>1, <3>2
    <3>4. handlers'[l][k] = h /\ Waited(l)'[k] = w
      BY <2>0, <2>1, <2>2, <2>3, <3>1, <3>2
    <3> QED BY <3>3, <3>4 DEF Fits, Expected, About
  <2> QED BY <2>0, <2>3, <2>4
<1>5. ASSUME toDongle # <<>>, Head(toDongle).op = l, toDongle' = Tail(toDongle),
             \/ fromDongle' = Append(fromDongle, [op |-> l, ok |-> FALSE])
             \/ fromDongle' = Append(fromDongle,
                  [op |-> l, ok |-> TRUE, value |-> Found(Head(toDongle))]),
             handlers'[l] = handlers[l]
      PROVE  /\ Len(Waited(l)') = Len(handlers'[l])
             /\ \A k \in 1 .. Len(handlers'[l]) : Fits(l, Waited(l)[k], handlers[l][k])'
  <2>1. PICK r \in Requests : r = Head(toDongle) /\ r.op = l
    BY <1>5, Front DEF TypeOK
  <2>4. ASSUME NEW f \in Frames, f.op = l, fromDongle' = Append(fromDongle, f),
               NEW n \in 1 .. Len(Waited(l)), Waited(l)[n] = r, Waited(l)'[n] = f,
               \A k \in 1 .. Len(Waited(l)) : k # n => Waited(l)'[k] = Waited(l)[k],
               Len(Waited(l)') = Len(Waited(l)),
               f.ok => f.value = Found(r)
        PROVE  /\ Len(Waited(l)') = Len(handlers'[l])
               /\ \A k \in 1 .. Len(handlers'[l]) : Fits(l, Waited(l)[k], handlers[l][k])'
    <3>1. n \in 1 .. Len(handlers[l]) /\ Fits(l, r, handlers[l][n])
      BY <1>0, <2>4
    <3>2. Found(r) \in Expected(l, handlers[l][n])
      BY <2>1, <3>1, FoundFits
    <3>3. PICK g : g = handlers[l][n]
      OBVIOUS
    <3>4. Fits(l, f, g)
      BY <2>4, <3>2, <3>3 DEF Fits
    <3>5. Fits(l, f, g)'
      BY <3>1, <3>3, <3>4, FitsStays
    <3>6. ASSUME NEW k \in 1 .. Len(handlers'[l])
          PROVE  Fits(l, Waited(l)[k], handlers[l][k])'
      <4>1. CASE k = n
        <5>1. handlers'[l][k] = g /\ Waited(l)'[k] = f
          BY <1>5, <2>4, <3>3, <4>1
        <5> QED BY <3>5, <5>1 DEF Fits, Expected, About
      <4>2. CASE k # n
        <5>1. PICK h : h = handlers[l][k]
          OBVIOUS
        <5>2. PICK w : w = Waited(l)[k]
          OBVIOUS
        <5>3. k \in 1 .. Len(handlers[l])
          BY <1>5
        <5>4. Fits(l, w, h)'
          BY <1>1, <5>1, <5>2, <5>3
        <5>5. handlers'[l][k] = h /\ Waited(l)'[k] = w
          BY <1>0, <1>5, <2>4, <4>2, <5>1, <5>2, <5>3
        <5> QED BY <5>4, <5>5 DEF Fits, Expected, About
      <4> QED BY <4>1, <4>2
    <3> QED BY <1>0, <1>5, <2>4, <3>6
  <2>5. \E k \in 1 .. Len(Waited(l)) : Waited(l)[k] = r /\ Fits(l, r, handlers[l][k])
    <3>2. PICK a \in Seq(Frames \cup Requests) : a = Selected(fromDongle, Answers(l))
      BY WaitedParts
    <3>3. PICK b \in Seq(Frames \cup Requests) : b = Selected(toDongle, Asks(l))
      BY WaitedParts
    <3>4. Len(b) \in Nat /\ Len(b) >= 1 /\ b[1] = r
      <4>1. r \in Asks(l) /\ toDongle \in Seq(Requests)
        BY <2>1 DEF Asks, TypeOK
      <4>2. /\ Len(Selected(toDongle, Asks(l))) = Len(Selected(Tail(toDongle), Asks(l))) + 1
            /\ Selected(toDongle, Asks(l))[1] = Head(toDongle)
            /\ Len(Selected(Tail(toDongle), Asks(l))) \in Nat
        BY <1>5, <2>1, <4>1, SelectedTail
      <4> QED BY <2>1, <3>3, <4>2
    <3>5. /\ Len(a) \in Nat /\ Len(a \o b) = Len(a) + Len(b)
          /\ \A k \in 1 .. Len(b) : (a \o b)[Len(a) + k] = b[k]
      BY <3>2, <3>3, Joined
    <3>6. Len(a) + 1 \in 1 .. Len(a \o b) /\ (a \o b)[Len(a) + 1] = r
      <4>1. 1 \in 1 .. Len(b)
        BY <3>4
      <4> QED BY <3>4, <3>5, <4>1
    <3>7. Waited(l) = a \o b
      BY <3>2, <3>3 DEF Waited
    <3> QED BY <1>0, <3>6, <3>7
  <2>6. /\ [op |-> l, ok |-> FALSE] \in Frames
        /\ [op |-> l, ok |-> TRUE, value |-> Found(r)] \in Frames
    BY <1>0, <2>1, <2>5, FoundFits
  <2>7. ASSUME NEW f \in Frames, f.op = l, fromDongle' = Append(fromDongle, f),
               f.ok => f.value = Found(r)
        PROVE  /\ Len(Waited(l)') = Len(handlers'[l])
               /\ \A k \in 1 .. Len(handlers'[l]) : Fits(l, Waited(l)[k], handlers[l][k])'
    <3>1. /\ Len(Waited(l)') = Len(Waited(l))
          /\ \E n \in 1 .. Len(Waited(l)) :
               /\ Waited(l)[n] = r /\ Waited(l)'[n] = f
               /\ \A k \in 1 .. Len(Waited(l)) : k # n => Waited(l)'[k] = Waited(l)[k]
      <4>1. /\ Len(Waited(l)') = Len(Waited(l))
            /\ \E n \in 1 .. Len(Waited(l)) :
                 /\ Waited(l)[n] = Head(toDongle) /\ Waited(l)'[n] = f
                 /\ \A k \in 1 .. Len(Waited(l)) : k # n => Waited(l)'[k] = Waited(l)[k]
        BY <1>5, <2>7, WaitedAnswer
      <4> QED BY <2>1, <4>1
    <3> QED BY <2>4, <2>7, <3>1
  <2>8. CASE fromDongle' = Append(fromDongle, [op |-> l, ok |-> FALSE])
    <3>1. PICK f \in Frames : f = [op |-> l, ok |-> FALSE]
      BY <2>6
    <3> QED BY <2>7, <2>8, <3>1
  <2>9. CASE fromDongle' = Append(fromDongle, [op |-> l, ok |-> TRUE, value |-> Found(r)])
    <3>1. PICK f \in Frames : f = [op |-> l, ok |-> TRUE, value |-> Found(r)]
      BY <2>6
    <3> QED BY <2>7, <2>9, <3>1
  <2> QED BY <1>5, <2>1, <2>8, <2>9
<1>6. CASE OnFrame /\ Head(fromDongle).op = "incoming"
  <2>1. PICK asked \in Seq(Handlers), asks \in Seq(Asks("nwk")) : Heard(asked, asks)
    BY <1>6, Hearing
  <2>2. /\ handlers' = [handlers EXCEPT !["nwk"] = @ \o asked]
        /\ toDongle' = toDongle \o asks /\ Len(asked) = Len(asks)
        /\ \A k \in 1 .. Len(asked) :
             asked[k].id \in 1 .. Len(sent) /\ asks[k].key = sent[asked[k].id].src
    BY <2>1 DEF Heard
  <2>3. fromDongle # <<>> /\ Head(fromDongle).op # l /\ fromDongle' = Tail(fromDongle)
    BY <1>6, FrameKinds DEF Lookups
  <2>4. CASE l = "nwk"
    <3>1. handlers'[l] = handlers[l] \o asked
      BY <2>2, <2>4 DEF TypeOK, Lookups
    <3>2. Waited(l)' = Waited(l) \o asks
      BY <2>2, <2>3, <2>4, WaitedMore
    <3>3. ASSUME NEW k \in 1 .. Len(asked)
          PROVE  Fits(l, asks[k], asked[k])'
      <4>1. asks[k] \in Requests
        BY <2>2, ElementOfSeq DEF Asks
      <4>2. asks[k] \notin Frames
        BY <4>1, Sorts
      <4>3. sent' = sent
        BY <1>6, FrameKinds
      <4> QED BY <2>2, <2>4, <4>2, <4>3 DEF Fits, About
    <3> QED BY <1>3, <2>2, <2>4, <3>1, <3>2, <3>3
  <2>5. CASE l = "ext"
    <3>1. handlers'[l] = handlers[l]
      BY <2>2, <2>5 DEF TypeOK, Lookups
    <3>2. asks \in Seq(Requests \ Asks(l))
      <4>1. Asks("nwk") \subseteq Requests \ Asks(l)
        BY <2>5 DEF Asks
      <4> QED BY <4>1, WiderSeq
    <3>3. Waited(l)' = Waited(l)
      BY <2>2, <2>3, <3>2, WaitedSame
    <3> QED BY <1>2, <3>1, <3>3
  <2> QED BY <2>4, <2>5 DEF Lookups
<1>7. CASE OnFrame /\ Head(fromDongle).op = "nwk"
  <2>1. Taken("nwk") /\ toDongle' = toDongle
    BY <1>7, NwkAnswered
  <2>2. fromDongle # <<>> /\ fromDongle' = Tail(fromDongle)
    BY <1>7, FrameKinds
  <2>3. CASE l = "nwk"
    <3>1. handlers[l] # <<>> /\ handlers'[l] = Tail(handlers[l])
      BY <2>1, <2>3 DEF Taken, TypeOK, Lookups
    <3> QED BY <1>4, <1>7, <2>1, <2>2, <2>3, <3>1
  <2>4. CASE l = "ext"
    <3>1. handlers'[l] = handlers[l]
      BY <2>1, <2>4 DEF Taken, TypeOK, Lookups
    <3>2. Waited(l)' = Waited(l)
      BY <1>7, <2>1, <2>2, <2>4, WaitedSame
    <3> QED BY <1>2, <3>1, <3>2
  <2> QED BY <2>3, <2>4 DEF Lookups
<1>8. CASE OnFrame /\ Head(fromDongle).op = "ext"
  <2>1. Taken("ext") /\ (\/ toDongle' = toDongle
                         \/ \E r \in Requests : r.op # l /\ toDongle' = Append(toDongle, r))
    <3>1. PICK c : c = [op |-> "data", key |-> Head(fromDongle).value,
                        tsn |-> send_trans_seq_nums_[Head(fromDongle).value],
                        id |-> handlers["ext"][1].id]
      OBVIOUS
    <3>2. /\ Taken("ext")
          /\ \/ toDongle' = toDongle
             \/ c \in Commands /\ toDongle' = Append(toDongle, c)
      BY <1>8, <3>1, ExtAnswered
    <3>3. c \in Commands => c \in Requests /\ c.op # l
      BY DEF Requests, Commands, Lookups
    <3> QED BY <3>2, <3>3
  <2>2. fromDongle # <<>> /\ fromDongle' = Tail(fromDongle)
    BY <1>8, FrameKinds
  <2>3. CASE l = "ext"
    <3>1. handlers[l] # <<>> /\ handlers'[l] = Tail(handlers[l])
      BY <2>1, <2>3 DEF Taken, TypeOK, Lookups
    <3> QED BY <1>4, <1>8, <2>1, <2>2, <2>3, <3>1
  <2>4. CASE l = "nwk"
    <3>1. handlers'[l] = handlers[l]
      BY <2>1, <2>4 DEF Taken, TypeOK, Lookups
    <3>2. Waited(l)' = Waited(l)
      BY <1>8, <2>1, <2>2, <2>4, WaitedSame
    <3> QED BY <1>2, <3>1, <3>2
  <2> QED BY <2>3, <2>4 DEF Lookups
<1>9. ASSUME NEW d \in Devices, OnPublish(d)
      PROVE  /\ Len(Waited(l)') = Len(handlers'[l])
             /\ \A k \in 1 .. Len(handlers'[l]) : Fits(l, Waited(l)[k], handlers[l][k])'
  <2>1. PICK r \in Requests : r = [op |-> "ext", key |-> d]
    BY DEF Requests
  <2>2. PICK i \in Nat : i = Len(commands) + 1
    BY LenProperties DEF TypeOK
  <2>3. PICK h \in Handlers : h = [for |-> "command", id |-> i]
    BY DEF Handlers
  <2>4. /\ toDongle' = Append(toDongle, r) /\ fromDongle' = fromDongle
        /\ handlers' = [handlers EXCEPT !["ext"] = Append(@, h)]
        /\ commands' = Append(commands, d)
    BY <1>9, <2>1, <2>2, <2>3 DEF OnPublish
  <2>5. CASE l = "nwk"
    <3>1. handlers'[l] = handlers[l]
      BY <2>4, <2>5 DEF TypeOK, Lookups
    <3>2. r.op # l
      BY <2>1, <2>5
    <3>3. Waited(l)' = Waited(l)
      BY <2>4, <3>2, WaitedSame
    <3> QED BY <1>2, <3>1, <3>3
  <2>6. CASE l = "ext"
    <3>1. r \in Asks(l)
      BY <2>1, <2>6 DEF Asks
    <3>2. PICK asked \in Seq(Handlers) : asked = <<h>>
      <4>1. <<h>> \in Seq(Handlers)
        OBVIOUS
      <4> QED BY <4>1
    <3>3. PICK asks \in Seq(Asks(l)) : asks = <<r>>
      <4>1. <<r>> \in Seq(Asks(l))
        BY <3>1
      <4> QED BY <4>1
    <3>4. handlers'[l] = handlers[l] \o asked
      <4>1. handlers'[l] = Append(handlers[l], h)
        BY <2>4, <2>6 DEF TypeOK, Lookups
      <4>2. Append(handlers[l], h) = handlers[l] \o <<h>>
        BY <1>0
      <4> QED BY <3>2, <4>1, <4>2
    <3>5. toDongle' = toDongle \o asks
      <4>1. Append(toDongle, r) = toDongle \o <<r>>
        BY DEF TypeOK
      <4> QED BY <2>4, <3>3, <4>1
    <3>6. Waited(l)' = Waited(l) \o asks
      BY <2>4, <3>5, WaitedMore
    <3>7. commands'[i] = d
      <4>1. Append(commands, d)[Len(commands) + 1] = d
        BY Back DEF TypeOK
      <4> QED BY <2>2, <2>4, <4>1
    <3>8. Fits(l, r, h)'
      <4>1. r \notin Frames
        BY Sorts
      <4> QED BY <2>1, <2>3, <2>6, <3>7, <4>1 DEF Fits, About
    <3>9. /\ Len(asked) = 1 /\ Len(asks) = 1 /\ asked[1] = h /\ asks[1] = r
      BY <3>2, <3>3
    <3>10. ASSUME NEW k \in 1 .. Len(asked)
           PROVE  Fits(l, asks[k], asked[k])'
      <4>1. k = 1
        BY <3>9
      <4> QED BY <3>8, <3>9, <4>1 DEF Fits, About, Expected
    <3> QED BY <1>3, <3>4, <3>6, <3>9, <3>10
  <2> QED BY <2>5, <2>6 DEF Lookups
<1>10. ASSUME NEW d \in Devices, Report(d) \/ Resend(d)
       PROVE  /\ Len(Waited(l)') = Len(handlers'[l])
              /\ \A k \in 1 .. Len(handlers'[l]) : Fits(l, Waited(l)[k], handlers[l][k])'
  <2>1. UNCHANGED <<handlers, toDongle>>
    BY <1>10 DEF Report, Resend, hubVars
  <2>2. \E i \in Nat : fromDongle' = Append(fromDongle, [op |-> "incoming", id |-> i])
    <3>1. CASE Report(d)
      <4>1. PICK i : i = Len(sent) + 1
        OBVIOUS
      <4>2. i \in Nat /\ fromDongle' = Append(fromDongle, [op |-> "incoming", id |-> i])
        BY <3>1, <4>1, Reporting
      <4> QED BY <4>2
    <3>2. CASE Resend(d)
      <4>1. DOMAIN sent \subseteq Nat
        BY LenProperties DEF TypeOK
      <4> QED BY <3>2, <4>1 DEF Resend
    <3> QED BY <1>10, <3>1, <3>2
  <2>3. PICK f \in Frames : f.op = "incoming" /\ fromDongle' = Append(fromDongle, f)
    <3>1. PICK i \in Nat : fromDongle' = Append(fromDongle, [op |-> "incoming", id |-> i])
      BY <2>2
    <3>2. [op |-> "incoming", id |-> i] \in Frames
      BY DEF Frames
    <3> QED BY <3>1, <3>2
  <2>4. f.op # l
    BY <2>3 DEF Lookups
  <2> QED BY <1>2, <2>1, <2>3, <2>4, WaitedSame
<1>11. ASSUME NEW d \in Devices, DeviceRestarts(d) \/ Rejoin(d)
       PROVE  /\ Len(Waited(l)') = Len(handlers'[l])
              /\ \A k \in 1 .. Len(handlers'[l]) : Fits(l, Waited(l)[k], handlers[l][k])'
  <2>1. UNCHANGED <<handlers, toDongle, fromDongle>>
    BY <1>11 DEF DeviceRestarts, Rejoin, hubVars
  <2> QED BY <1>2, <2>1, WaitedSame
<1>12. CASE DongleServe
  <2>1. /\ toDongle # <<>> /\ toDongle' = Tail(toDongle) /\ UNCHANGED handlers
        /\ toDongle \in Seq(Requests)
    BY <1>12 DEF DongleServe, hubVars, TypeOK
  <2>2. PICK r \in Requests : r = Head(toDongle)
    BY <2>1, Front
  <2>3. CASE r.op = "data"
    <3>1. fromDongle' = fromDongle /\ r.op # l
      BY <1>12, <2>2, <2>3 DEF DongleServe, Lookups
    <3> QED BY <1>2, <2>1, <2>2, <3>1, WaitedSame
  <2>4. CASE r.op # "data"
    <3>1. \/ fromDongle' = Append(fromDongle, [op |-> r.op, ok |-> FALSE])
          \/ fromDongle' = Append(fromDongle, [op |-> r.op, ok |-> TRUE, value |-> Found(r)])
      BY <1>12, <2>2, <2>4 DEF DongleServe, Answer
    <3>2. CASE r.op = l
      BY <1>5, <2>1, <2>2, <3>1, <3>2
    <3>3. CASE r.op # l
      <4>1. r.op \in Lookups /\ (r.op = "nwk" => Found(r) \in Devices \cup {NoDevice})
                             /\ (r.op = "ext" => Found(r) \in Addrs)
        BY <2>4 DEF Requests, Commands, Found, TypeOK, Lookups
      <4>2. /\ [op |-> r.op, ok |-> FALSE] \in Frames
            /\ [op |-> r.op, ok |-> TRUE, value |-> Found(r)] \in Frames
        BY <4>1 DEF Frames, Lookups
      <4>3. \E f \in Frames : f.op # l /\ fromDongle' = Append(fromDongle, f)
        BY <3>1, <3>3, <4>2
      <4> QED BY <1>2, <2>1, <2>2, <3>3, <4>3, WaitedSame
    <3> QED BY <3>2, <3>3
  <2> QED BY <2>3, <2>4
<1>13. ~LoseFrame
  BY FaultCounts DEF LoseFrame, Kinds
<1> QED BY <1>6, <1>7, <1>8, <1>9, <1>10, <1>11, <1>12, <1>13, FrameKinds DEF Next

\* What is published is published for the device the handler was about.
Rightly(topic, m, left) == topic = m.dev \/ m.src \in left[m.dev]
LEMMA RightDeviceStep ==
  ASSUME TypeOK, Ids, Refused, Match("nwk"), RightDevice, Next
  PROVE  RightDevice'
<1>0. /\ published \in Seq(Publications) /\ DOMAIN published = 1 .. Len(published)
      /\ Len(published) \in Nat
  BY LenProperties DEF TypeOK
<1> SUFFICES ASSUME faults'["drop"] = 0
             PROVE  \A i \in DOMAIN published' :
                      Rightly(published'[i].topic, sent'[published'[i].id], former')
  BY DEF RightDevice, Rightly
<1>1. faults["drop"] = 0
  <2>1. faults["drop"] \in Nat /\ faults["drop"] <= faults'["drop"]
    BY Grows DEF Kinds
  <2> QED BY <2>1
<1>2. ASSUME NEW i \in 1 .. Len(published)
      PROVE  Rightly(published[i].topic, sent'[published[i].id], former')
  <2>1. published[i].id \in 1 .. Len(sent)
    BY DEF Ids
  <2>2. /\ sent'[published[i].id] = sent[published[i].id]
        /\ sent[published[i].id].dev \in Devices
    BY <2>1, Grows, SentMessage
  <2>3. Rightly(published[i].topic, sent[published[i].id], former)
    BY <1>0, <1>1 DEF RightDevice, Rightly
  <2> QED BY <2>2, <2>3, HomesLeft DEF Rightly
<1>3. CASE OnFrame /\ Head(fromDongle).op = "nwk"
  <2>1. PICK h \in Handlers :
           /\ handlers["nwk"] # <<>> /\ handlers["nwk"][1] = h
           /\ \/ published' = published
              \/ \E p \in Publications : /\ published' = Append(published, p)
                                         /\ p.id = h.id
                                         /\ p.topic = Head(fromDongle).value
                                         /\ Head(fromDongle).ok
           /\ sent' = sent /\ toDongle' = toDongle
    BY <1>3, NwkTaken
  <2>2. PICK f \in Frames : f = Head(fromDongle)
    BY <1>3, Front, FrameKinds
  <2>3. Waited("nwk")[1] = f
    <3>1. "nwk" \in Lookups
      BY DEF Lookups
    <3>2. fromDongle # <<>> /\ fromDongle' = Tail(fromDongle)
      BY <1>3, FrameKinds
    <3> QED BY <1>3, <2>1, <2>2, <3>1, <3>2, WaitedFirst
  <2>4. Fits("nwk", f, h)
    <3>1. 1 \in 1 .. Len(handlers["nwk"])
      BY <2>1, Front DEF TypeOK, Lookups
    <3> QED BY <1>1, <2>1, <2>3, <3>1 DEF Match
  <2>5. f.ok => Rightly(f.value, sent'[h.id], former')
    <3>1. former' = former
      BY <1>3 DEF OnFrame, netVars
    <3> QED BY <2>1, <2>4, <3>1 DEF Fits, Expected, Possible, Rightly
  <2>6. ASSUME NEW p \in Publications, published' = Append(published, p),
               p.id = h.id, p.topic = f.value, f.ok
        PROVE  \A i \in DOMAIN published' :
                 Rightly(published'[i].topic, sent'[published'[i].id], former')
    <3>1. /\ DOMAIN published' = 1 .. Len(published) + 1
          /\ \A i \in 1 .. Len(published) : published'[i] = published[i]
          /\ published'[Len(published) + 1] = p
      <4>1. published' \in Seq(Publications) /\ Len(published') = Len(published) + 1
        BY <1>0, <2>6, Back
      <4>2. DOMAIN published' = 1 .. Len(published')
        BY <4>1, LenProperties
      <4> QED BY <1>0, <2>6, <4>1, <4>2, Back
    <3>2. ASSUME NEW i \in 1 .. Len(published) + 1
          PROVE  Rightly(published'[i].topic, sent'[published'[i].id], former')
      <4>1. CASE i \in 1 .. Len(published)
        BY <1>2, <3>1, <4>1
      <4>2. CASE i = Len(published) + 1
        BY <2>5, <2>6, <3>1, <4>2
      <4> QED BY <1>0, <4>1, <4>2
    <3> QED BY <3>1, <3>2
  <2> QED BY <1>0, <1>2, <2>1, <2>2, <2>6
<1>4. CASE published' = published
  BY <1>0, <1>2, <1>4
<1>5. CASE OnFrame /\ Head(fromDongle).op = "incoming"
  <2>1. published' = published
    BY <1>5, Hearing DEF Heard
  <2> QED BY <1>4, <2>1
<1> QED BY <1>3, <1>4, <1>5, NwkQueue

-----------------------------------------------------------------------------
(* The commands.                                                            *)

\* What is on the air, with the lines that hold no command.
LEMMA AirSame ==
  ASSUME TypeOK, radio' = radio,
         \/ toDongle' = toDongle
         \/ toDongle # <<>> /\ Head(toDongle).op # "data" /\ toDongle' = Tail(toDongle)
         \/ \E asks \in Seq(Requests \ Commands) : toDongle' = toDongle \o asks
  PROVE  Air' = Air
<1>0. toDongle \in Seq(Requests)
  BY DEF TypeOK
<1>1. CASE toDongle # <<>> /\ Head(toDongle).op # "data" /\ toDongle' = Tail(toDongle)
  <2>1. Head(toDongle) \notin Commands
    BY <1>1 DEF Commands
  <2>2. Selected(Tail(toDongle), Commands) = Selected(toDongle, Commands)
    BY <1>0, <1>1, <2>1, SelectedPast
  <2> QED BY <1>1, <2>2 DEF Air, Commands
<1>2. ASSUME NEW asks \in Seq(Requests \ Commands), toDongle' = toDongle \o asks
      PROVE  Air' = Air
  <2>1. asks \in Seq(Requests) /\ Range(asks) \cap Commands = {}
    <3>1. Requests \ Commands \subseteq Requests
      OBVIOUS
    <3>2. Range(asks) \subseteq Requests \ Commands
      BY RangeElement
    <3> QED BY <3>1, <3>2, WiderSeq
  <2>2. Selected(toDongle \o asks, Commands) = Selected(toDongle, Commands) \o Selected(asks, Commands)
    <3>1. PICK s \in Seq(Requests) : s = toDongle
      BY <1>0
    <3>2. \A t \in Seq(Requests) :
            Selected(s \o t, Commands) = Selected(s, Commands) \o Selected(t, Commands)
      BY SelectedConcat
    <3> QED BY <2>1, <3>1, <3>2
  <2>3. Selected(asks, Commands) = <<>>
    BY <2>1, SelectedNone
  <2>4. Selected(toDongle, Commands) \in Seq(Requests \cap Commands)
    BY <1>0, SelectedType
  <2>5. Selected(toDongle', Commands) = Selected(toDongle, Commands)
    BY <1>2, <2>2, <2>3, <2>4, ConcatEmptySeq
  <2> QED BY <2>5 DEF Air, Commands
<1>3. CASE toDongle' = toDongle
  BY <1>3 DEF Air, Commands
<1> QED BY <1>1, <1>2, <1>3

\* What happens to the commands: one is asked for, one is sent, or nothing.
LEMMA AirMoves ==
  ASSUME TypeOK, Ids, Next
  PROVE  /\ Air \in Seq(Commands) /\ handlers["ext"] \in Seq(Handlers)
         /\ \/ /\ Air' = Air /\ UNCHANGED send_trans_seq_nums_
               /\ \/ handlers'["ext"] = handlers["ext"]
                  \/ handlers["ext"] # <<>> /\ handlers'["ext"] = Tail(handlers["ext"])
                  \/ \E h \in Handlers : \E d \in Devices :
                       /\ h.id = Len(commands) + 1 /\ commands' = Append(commands, d)
                       /\ handlers'["ext"] = Append(handlers["ext"], h)
            \/ \E c \in Commands :
                 /\ OnFrame /\ Head(fromDongle).op = "ext" /\ Head(fromDongle).ok
                 /\ c.key = Head(fromDongle).value /\ c.tsn = send_trans_seq_nums_[c.key]
                 /\ handlers["ext"] # <<>> /\ c.id = handlers["ext"][1].id
                 /\ handlers'["ext"] = Tail(handlers["ext"])
                 /\ Air' = Append(Air, c)
                 /\ send_trans_seq_nums_' =
                      [send_trans_seq_nums_ EXCEPT ![c.key] = (@ + 1) % TsnMod]
<1>1. /\ toDongle \in Seq(Requests) /\ radio \in Seq(Commands)
      /\ handlers["ext"] \in Seq(Handlers) /\ "ext" \in Lookups
  BY DEF TypeOK, Lookups
<1>2. /\ Selected(toDongle, Commands) \in Seq(Commands)
      /\ Air \in Seq(Commands)
  <2>1. Selected(toDongle, Commands) \in Seq(Requests \cap Commands)
    BY <1>1, SelectedType
  <2>2. Requests \cap Commands \subseteq Commands
    OBVIOUS
  <2>3. Selected(toDongle, Commands) \in Seq(Commands)
    BY <2>1, <2>2, WiderSeq
  <2> QED BY <1>1, <2>3, ConcatProperties DEF Air
<1>3. CASE OnFrame /\ Head(fromDongle).op = "incoming"
  <2>1. PICK asked \in Seq(Handlers), asks \in Seq(Asks("nwk")) : Heard(asked, asks)
    BY <1>3, Hearing
  <2>2. /\ handlers'["ext"] = handlers["ext"] /\ toDongle' = toDongle \o asks
        /\ UNCHANGED send_trans_seq_nums_
    BY <2>1 DEF Heard, TypeOK, Lookups
  <2>3. asks \in Seq(Requests \ Commands)
    <3>1. Asks("nwk") \subseteq Requests \ Commands
      BY DEF Asks, Commands
    <3> QED BY <3>1, WiderSeq
  <2>4. radio' = radio
    BY <1>3, FrameKinds
  <2>5. Air' = Air
    BY <2>2, <2>3, <2>4, AirSame
  <2> QED BY <1>1, <1>2, <2>2, <2>5
<1>4. CASE OnFrame /\ Head(fromDongle).op = "nwk"
  <2>1. /\ handlers'["ext"] = handlers["ext"] /\ toDongle' = toDongle
        /\ UNCHANGED send_trans_seq_nums_
    BY <1>4, NwkAnswered DEF Taken, TypeOK, Lookups
  <2>2. radio' = radio
    BY <1>4, FrameKinds
  <2> QED BY <1>1, <1>2, <2>1, <2>2, AirSame
<1>5. CASE OnFrame /\ Head(fromDongle).op = "ext"
  <2>1. PICK f \in Frames : f = Head(fromDongle)
    BY <1>5, Front, FrameKinds
  <2>2. PICK c : c = [op |-> "data", key |-> f.value,
                      tsn |-> send_trans_seq_nums_[f.value], id |-> handlers["ext"][1].id]
    OBVIOUS
  <2>3. /\ Taken("ext")
        /\ IF f.ok THEN /\ c \in Commands /\ toDongle' = Append(toDongle, c)
                        /\ send_trans_seq_nums_' =
                             [send_trans_seq_nums_ EXCEPT ![f.value] = (@ + 1) % TsnMod]
           ELSE UNCHANGED <<toDongle, send_trans_seq_nums_>>
    BY <1>5, <2>1, <2>2, ExtAnswered
  <2>4. handlers["ext"] # <<>> /\ handlers'["ext"] = Tail(handlers["ext"])
    BY <2>3 DEF Taken, TypeOK, Lookups
  <2>5. radio' = radio
    BY <1>5, FrameKinds
  <2>6. CASE ~f.ok
    BY <1>1, <1>2, <2>3, <2>4, <2>5, <2>6, AirSame
  <2>7. CASE f.ok
    <3>1. c \in Requests
      BY <2>3, <2>7 DEF Requests
    <3>2. Selected(toDongle', Commands) = Append(Selected(toDongle, Commands), c)
      <4>1. toDongle' = Append(toDongle, c) /\ c \in Commands
        BY <2>3, <2>7
      <4>2. Selected(Append(toDongle, c), Commands) =
              IF c \in Commands THEN Append(Selected(toDongle, Commands), c)
              ELSE Selected(toDongle, Commands)
        BY <1>1, <3>1, SelectedAppend
      <4> QED BY <4>1, <4>2
    <3>3. radio \o Append(Selected(toDongle, Commands), c) =
            Append(radio \o Selected(toDongle, Commands), c)
      BY <1>1, <1>2, <2>3, <2>7
    <3>4. Air' = Append(Air, c)
      BY <2>5, <3>2, <3>3 DEF Air, Commands
    <3>5. c.key = f.value /\ c.tsn = send_trans_seq_nums_[c.key] /\ c.id = handlers["ext"][1].id
      BY <2>2
    <3> QED BY <1>1, <1>2, <1>5, <2>1, <2>3, <2>4, <2>7, <3>4, <3>5
  <2> QED BY <2>6, <2>7
<1>6. ASSUME NEW d \in Devices, OnPublish(d)
      PROVE  /\ Air' = Air /\ UNCHANGED send_trans_seq_nums_
             /\ \E h \in Handlers :
                  /\ h.id = Len(commands) + 1 /\ commands' = Append(commands, d)
                  /\ handlers'["ext"] = Append(handlers["ext"], h)
  <2>1. PICK r \in Requests : r = [op |-> "ext", key |-> d]
    BY DEF Requests
  <2>2. PICK asks : asks = <<r>>
    OBVIOUS
  <2>3. asks \in Seq(Requests \ Commands)
    <3>1. r \notin Commands
      BY <2>1 DEF Commands
    <3> QED BY <2>2, <3>1
  <2>4. toDongle' = toDongle \o asks
    <3>1. Append(toDongle, r) = toDongle \o <<r>>
      BY <1>1
    <3> QED BY <1>6, <2>1, <2>2, <3>1 DEF OnPublish
  <2>5. Air' = Air /\ UNCHANGED send_trans_seq_nums_
    BY <1>6, <2>3, <2>4, AirSame DEF OnPublish
  <2>6. PICK i \in Nat : i = Len(commands) + 1
    BY LenProperties DEF TypeOK
  <2>7. PICK h \in Handlers : h = [for |-> "command", id |-> i]
    BY DEF Handlers
  <2>8. handlers'["ext"] = Append(handlers["ext"], h) /\ commands' = Append(commands, d)
    BY <1>1, <1>6, <2>6, <2>7 DEF OnPublish, TypeOK
  <2> QED BY <2>5, <2>6, <2>7, <2>8
<1>7. CASE \/ \E d \in Devices : Report(d) \/ Resend(d) \/ DeviceRestarts(d) \/ Rejoin(d)
           \/ LoseFrame
  <2>1. UNCHANGED <<handlers, toDongle, send_trans_seq_nums_, radio>>
    BY <1>7 DEF Report, Resend, DeviceRestarts, Rejoin, LoseFrame, hubVars
  <2> QED BY <1>1, <1>2, <2>1, AirSame
<1>8. CASE DongleServe
  <2>1. /\ toDongle # <<>> /\ toDongle' = Tail(toDongle)
        /\ UNCHANGED <<handlers, send_trans_seq_nums_>>
    BY <1>8 DEF DongleServe, hubVars
  <2>2. PICK r \in Requests : r = Head(toDongle)
    BY <1>1, <2>1, Front
  <2>3. CASE r.op # "data"
    <3>1. radio' = radio
      BY <1>8, <2>2, <2>3 DEF DongleServe
    <3> QED BY <1>1, <1>2, <2>1, <2>2, <2>3, <3>1, AirSame
  <2>4. CASE r.op = "data"
    <3>1. radio' = Append(radio, r) /\ r \in Commands
      BY <1>8, <2>2, <2>4, Sorts DEF DongleServe
    <3>2. PICK v \in Seq(Commands) : v = Selected(Tail(toDongle), Commands)
      <4>1. Selected(Tail(toDongle), Commands) \in Seq(Requests \cap Commands)
        BY <1>1, <2>1, SelectedTail
      <4>2. Requests \cap Commands \subseteq Commands
        OBVIOUS
      <4> QED BY <4>1, <4>2, WiderSeq
    <3>3. Selected(toDongle, Commands) = <<r>> \o v
      BY <1>1, <2>1, <2>2, <3>1, <3>2, SelectedHead
    <3>4. Append(radio, r) \o v = radio \o (<<r>> \o v)
      <4>1. Append(radio, r) = radio \o <<r>> /\ <<r>> \in Seq(Commands)
        BY <1>1, <3>1
      <4> QED BY <1>1, <3>2, <4>1, ConcatAssociative
    <3>5. Air' = Air
      BY <2>1, <3>1, <3>2, <3>3, <3>4 DEF Air, Commands
    <3> QED BY <1>1, <1>2, <2>1, <3>5
  <2> QED BY <2>3, <2>4
<1> QED BY <1>1, <1>2, <1>3, <1>4, <1>5, <1>6, <1>7, <1>8, FrameKinds DEF Next

\* Commands stay in order, from MQTT to the air.
LEMMA AirOrderStep ==
  ASSUME TypeOK, Ids, AirOrder, Next
  PROVE  AirOrder'
<1>0. /\ Air \in Seq(Commands) /\ handlers["ext"] \in Seq(Handlers)
      /\ Len(Air) \in Nat /\ Len(handlers["ext"]) \in Nat
  BY AirMoves, LenProperties
<1>1. /\ Len(commands) \in Nat /\ Len(commands') \in Nat /\ Len(commands) <= Len(commands')
      /\ 1 .. Len(commands) \subseteq 1 .. Len(commands')
  <2>1. Len(commands) \in Nat /\ Len(commands') \in Nat /\ Len(commands) <= Len(commands')
    BY Grows
  <2> QED BY <2>1
<1>2. PICK s \in Seq(Commands) : s = Air
  BY <1>0
<1>3. PICK q \in Seq(Handlers) : q = handlers["ext"]
  BY <1>0
<1>4. /\ Len(s) \in Nat /\ Len(q) \in Nat
      /\ \A i \in 1 .. Len(s) : s[i].id \in 1 .. Len(commands)
      /\ \A k \in 1 .. Len(q) : q[k].id \in 1 .. Len(commands)
      /\ \A i \in 1 .. Len(s) : \A j \in 1 .. Len(s) : i < j => s[i].id < s[j].id
      /\ \A i \in 1 .. Len(s) : \A k \in 1 .. Len(q) : s[i].id < q[k].id
      /\ \A i \in 1 .. Len(q) : \A j \in 1 .. Len(q) : i < j => q[i].id < q[j].id
  BY <1>0, <1>2, <1>3 DEF AirOrder
<1>5. PICK s1 : s1 = Air'
  OBVIOUS
<1>6. PICK q1 : q1 = handlers'["ext"]
  OBVIOUS
<1> SUFFICES /\ \A i \in 1 .. Len(s1) : s1[i].id \in 1 .. Len(commands')
             /\ \A k \in 1 .. Len(q1) : q1[k].id \in 1 .. Len(commands')
             /\ \A i \in 1 .. Len(s1) : \A j \in 1 .. Len(s1) : i < j => s1[i].id < s1[j].id
             /\ \A i \in 1 .. Len(s1) : \A k \in 1 .. Len(q1) : s1[i].id < q1[k].id
             /\ \A i \in 1 .. Len(q1) : \A j \in 1 .. Len(q1) : i < j => q1[i].id < q1[j].id
  BY <1>5, <1>6 DEF AirOrder
<1>7. CASE s1 = s /\ q1 = q
  BY <1>1, <1>4, <1>7
<1>8. CASE q # <<>> /\ q1 = Tail(q)
  <2>1. /\ 1 \in 1 .. Len(q)
        /\ \A k \in 1 .. Len(q1) : k + 1 \in 1 .. Len(q) /\ q1[k] = q[k + 1] /\ k \in Nat
    BY <1>8, Front
  <2>2. /\ \A k \in 1 .. Len(q1) : q1[k].id \in 1 .. Len(commands')
        /\ \A i \in 1 .. Len(q1) : \A j \in 1 .. Len(q1) : i < j => q1[i].id < q1[j].id
    <3>1. ASSUME NEW k \in 1 .. Len(q1)
          PROVE  q1[k].id \in 1 .. Len(commands')
      BY <1>1, <1>4, <2>1
    <3>2. ASSUME NEW i \in 1 .. Len(q1), NEW j \in 1 .. Len(q1), i < j
          PROVE  q1[i].id < q1[j].id
      <4>1. i + 1 < j + 1
        BY <2>1, <3>2
      <4> QED BY <1>4, <2>1, <4>1
    <3> QED BY <3>1, <3>2
  <2>3. CASE s1 = s
    BY <1>1, <1>4, <2>1, <2>2, <2>3
  <2>4. ASSUME NEW c \in Commands, s1 = Append(s, c), c.id = q[1].id
        PROVE  /\ \A i \in 1 .. Len(s1) : s1[i].id \in 1 .. Len(commands')
               /\ \A i \in 1 .. Len(s1) : \A j \in 1 .. Len(s1) : i < j => s1[i].id < s1[j].id
               /\ \A i \in 1 .. Len(s1) : \A k \in 1 .. Len(q1) : s1[i].id < q1[k].id
    <3>1. /\ Len(s1) = Len(s) + 1 /\ \A i \in 1 .. Len(s) : s1[i] = s[i]
          /\ s1[Len(s) + 1] = c
      BY <2>4, Back
    <3>2. /\ c.id \in 1 .. Len(commands)
          /\ \A i \in 1 .. Len(s) : s[i].id < c.id
          /\ \A k \in 1 .. Len(q1) : c.id < q1[k].id
      <4>1. ASSUME NEW k \in 1 .. Len(q1)
            PROVE  c.id < q1[k].id
        <5>1. 1 < k + 1
          BY <2>1
        <5> QED BY <1>4, <2>1, <2>4, <5>1
      <4> QED BY <1>4, <2>1, <2>4, <4>1
    <3>3. \A i \in 1 .. Len(s1) : i \in 1 .. Len(s) \/ i = Len(s) + 1
      BY <1>4, <3>1
    <3>4. ASSUME NEW i \in 1 .. Len(s1)
          PROVE  s1[i].id \in 1 .. Len(commands')
      BY <1>1, <1>4, <3>1, <3>2, <3>3
    <3>5. ASSUME NEW i \in 1 .. Len(s1), NEW j \in 1 .. Len(s1), i < j
          PROVE  s1[i].id < s1[j].id
      <4>1. i \in 1 .. Len(s)
        BY <1>4, <3>1, <3>5
      <4> QED BY <1>4, <3>1, <3>2, <3>3, <3>5, <4>1
    <3>6. ASSUME NEW i \in 1 .. Len(s1), NEW k \in 1 .. Len(q1)
          PROVE  s1[i].id < q1[k].id
      BY <1>4, <2>1, <3>1, <3>2, <3>3
    <3> QED BY <3>4, <3>5, <3>6
  <2>5. s1 = s \/ \E c \in Commands : s1 = Append(s, c) /\ c.id = q[1].id
    <3>1. CASE Air' = Air
      BY <1>2, <1>5, <3>1
    <3>2. CASE ~(Air' = Air)
      <4>1. PICK c \in Commands : c.id = handlers["ext"][1].id /\ Air' = Append(Air, c)
        BY <3>2, AirMoves
      <4> QED BY <1>2, <1>3, <1>5, <4>1
    <3> QED BY <3>1, <3>2
  <2> QED BY <2>2, <2>3, <2>4, <2>5
<1>9. ASSUME s1 = s, NEW h \in Handlers, h.id = Len(commands) + 1, NEW d \in Devices,
             commands' = Append(commands, d), q1 = Append(q, h)
      PROVE  /\ \A i \in 1 .. Len(s1) : s1[i].id \in 1 .. Len(commands')
             /\ \A k \in 1 .. Len(q1) : q1[k].id \in 1 .. Len(commands')
             /\ \A i \in 1 .. Len(s1) : \A j \in 1 .. Len(s1) : i < j => s1[i].id < s1[j].id
             /\ \A i \in 1 .. Len(s1) : \A k \in 1 .. Len(q1) : s1[i].id < q1[k].id
             /\ \A i \in 1 .. Len(q1) : \A j \in 1 .. Len(q1) : i < j => q1[i].id < q1[j].id
  <2>1. /\ Len(q1) = Len(q) + 1 /\ \A i \in 1 .. Len(q) : q1[i] = q[i]
        /\ q1[Len(q) + 1] = h
    BY <1>9, Back
  <2>2. Len(commands') = Len(commands) + 1
    BY <1>9, Back DEF TypeOK
  <2>3. \A i \in 1 .. Len(q1) : i \in 1 .. Len(q) \/ i = Len(q) + 1
    BY <1>4, <2>1
  <2>4. h.id \in 1 .. Len(commands') /\ \A n \in 1 .. Len(commands) : n < h.id
    BY <1>1, <1>9, <2>2
  <2>5. ASSUME NEW k \in 1 .. Len(q1)
        PROVE  q1[k].id \in 1 .. Len(commands')
    BY <1>1, <1>4, <2>1, <2>3, <2>4
  <2>6. ASSUME NEW i \in 1 .. Len(q1), NEW j \in 1 .. Len(q1), i < j
        PROVE  q1[i].id < q1[j].id
    <3>1. i \in 1 .. Len(q)
      BY <1>4, <2>1, <2>6
    <3> QED BY <1>4, <2>1, <2>3, <2>4, <2>6, <3>1
  <2>7. ASSUME NEW i \in 1 .. Len(s), NEW k \in 1 .. Len(q1)
        PROVE  s[i].id < q1[k].id
    BY <1>4, <2>1, <2>3, <2>4
  <2> QED BY <1>1, <1>4, <1>9, <2>5, <2>6, <2>7
<1> QED BY <1>2, <1>3, <1>5, <1>6, <1>7, <1>8, <1>9, AirMoves

\* The next number of a device is another than that of the command before.
LEMMA AirNumbersStep ==
  ASSUME TypeOK, Ids, AirNumbers, Next
  PROVE  AirNumbers'
<1>0. PICK s \in Seq(Commands) : s = Air
  BY AirMoves
<1>1. PICK s1 : s1 = Air'
  OBVIOUS
<1>2. PICK g \in [Addrs -> 0 .. TsnMod - 1] : g = send_trans_seq_nums_
  BY DEF TypeOK
<1>3. PICK g1 : g1 = send_trans_seq_nums_'
  OBVIOUS
<1>4. Len(s) \in Nat /\ Apart(s) /\ Counted(s, g)
  BY <1>0, <1>2, LenProperties DEF AirNumbers
<1> SUFFICES Apart(s1) /\ Counted(s1, g1)
  BY <1>1, <1>3 DEF AirNumbers
<1>5. CASE s1 = s /\ g1 = g
  BY <1>4, <1>5
<1>6. ASSUME NEW c \in Commands, c.tsn = g[c.key], s1 = Append(s, c),
             g1 = [g EXCEPT ![c.key] = (@ + 1) % TsnMod]
      PROVE  Apart(s1) /\ Counted(s1, g1)
  <2>1. /\ Len(s1) = Len(s) + 1 /\ \A i \in 1 .. Len(s) : s1[i] = s[i]
        /\ s1[Len(s) + 1] = c
    BY <1>6, Back
  <2>2. PICK n \in Nat : n = Len(s)
    BY <1>4
  <2>3. c.key \in Addrs
    BY DEF Commands
  <2>4. \A i \in 1 .. n : s[i].tsn \in 0 .. TsnMod - 1 /\ s[i].key \in Addrs
    <3>1. \A i \in 1 .. n : s[i] \in Commands
      BY <2>2, ElementOfSeq
    <3> QED BY <3>1 DEF Commands
  <2>5. ASSUME NEW i \in 1 .. n, NEW j \in 1 .. n + 1, i < j, s1[i].key = s1[j].key,
               \A k \in i + 1 .. j - 1 : s1[k].key # s1[i].key
        PROVE  s1[i].tsn # s1[j].tsn
    <3>1. \A k \in i + 1 .. j - 1 : k \in 1 .. n /\ s1[k] = s[k]
      BY <2>1, <2>2
    <3>2. s1[i] = s[i]
      BY <2>1, <2>2
    <3>3. CASE j \in 1 .. n
      <4>1. s1[j] = s[j]
        BY <2>1, <2>2, <3>3
      <4>2. \A k \in i + 1 .. j - 1 : s[k].key # s[i].key
        BY <2>5, <3>1, <3>2
      <4> QED BY <1>4, <2>2, <2>5, <3>2, <3>3, <4>1, <4>2 DEF Apart
    <3>4. CASE j = n + 1
      <4>1. s1[j] = c /\ j - 1 = n
        BY <2>1, <2>2, <3>4
      <4>2. \A k \in i + 1 .. n : s[k].key # s[i].key
        BY <2>5, <3>1, <3>2, <4>1
      <4>3. g[s[i].key] = (s[i].tsn + 1) % TsnMod
        BY <1>4, <2>2, <4>2 DEF Counted
      <4>4. (s[i].tsn + 1) % TsnMod # s[i].tsn
        BY <2>4, Modulo
      <4>5. c.tsn = g[s[i].key]
        BY <1>6, <2>5, <3>2, <4>1
      <4> QED BY <3>2, <4>1, <4>3, <4>4, <4>5
    <3> QED BY <3>3, <3>4
  <2>6. ASSUME NEW i \in 1 .. n + 1, \A j \in i + 1 .. n + 1 : s1[j].key # s1[i].key
        PROVE  g1[s1[i].key] = (s1[i].tsn + 1) % TsnMod
    <3>1. CASE i = n + 1
      <4>1. s1[i] = c
        BY <2>1, <2>2, <3>1
      <4> QED BY <1>6, <2>3, <4>1
    <3>2. CASE i \in 1 .. n
      <4>1. s1[i] = s[i] /\ c.key # s[i].key
        <5>1. n + 1 \in i + 1 .. n + 1
          BY <3>2
        <5> QED BY <2>1, <2>2, <2>6, <3>2, <5>1
      <4>2. \A j \in i + 1 .. n : j \in i + 1 .. n + 1 /\ s1[j] = s[j]
        BY <2>1, <2>2, <3>2
      <4>3. \A j \in i + 1 .. n : s[j].key # s[i].key
        BY <2>6, <4>1, <4>2
      <4>4. g[s[i].key] = (s[i].tsn + 1) % TsnMod
        BY <1>4, <2>2, <3>2, <4>3 DEF Counted
      <4>5. g1[s[i].key] = g[s[i].key]
        BY <1>6, <2>3, <2>4, <3>2, <4>1
      <4> QED BY <4>1, <4>4, <4>5
    <3> QED BY <3>1, <3>2
  <2>7. ASSUME NEW i \in 1 .. n + 1, NEW j \in 1 .. n + 1, i < j
        PROVE  i \in 1 .. n
    BY <2>7
  <2>8. Apart(s1)
    BY <2>1, <2>2, <2>5, <2>7 DEF Apart
  <2>9. Counted(s1, g1)
    BY <2>1, <2>2, <2>6 DEF Counted
  <2> QED BY <2>8, <2>9
<1> QED BY <1>0, <1>1, <1>2, <1>3, <1>5, <1>6, AirMoves

\* Without a lost answer commands go to an address of the device named.
LEMMA AirPlacesStep ==
  ASSUME TypeOK, Ids, AirOrder, AirPlaces, Match("ext"), Next
  PROVE  AirPlaces'
<1> SUFFICES ASSUME faults'["drop"] = 0
             PROVE  \A i \in 1 .. Len(Air') : Air'[i].key \in Had(commands[Air[i].id])'
  BY DEF AirPlaces
<1>0. PICK had : had = [d \in Devices |-> Had(d)']
  OBVIOUS
<1>1. faults["drop"] = 0
  <2>1. /\ faults["drop"] \in Nat /\ faults'["drop"] \in Nat /\ faults["drop"] <= faults'["drop"]
    BY Grows DEF Kinds
  <2> QED BY <2>1
<1>2. PICK s \in Seq(Commands) : s = Air
  BY AirMoves
<1>3. PICK s1 : s1 = Air'
  OBVIOUS
<1>4. \A i \in 1 .. Len(s) :
        s[i].id \in 1 .. Len(commands) /\ s[i].key \in Had(commands[s[i].id])
  BY <1>1, <1>2 DEF AirPlaces, AirOrder
<1>5. ASSUME NEW n \in 1 .. Len(commands)
      PROVE  commands'[n] \in Devices /\ Had(commands[n]) \subseteq had[commands'[n]]
  <2>1. commands'[n] = commands[n] /\ commands[n] \in Devices
    BY Grows, ElementOfSeq DEF TypeOK
  <2>2. had[commands[n]] = Had(commands[n])'
    BY <1>0, <2>1 DEF Had
  <2> QED BY <2>1, <2>2, HomesLeft DEF Had
<1>6. \A i \in 1 .. Len(s) : s[i].key \in had[commands'[s[i].id]]
  BY <1>4, <1>5
<1>7. ASSUME NEW c \in Commands, OnFrame, Head(fromDongle).op = "ext", Head(fromDongle).ok,
             c.key = Head(fromDongle).value, handlers["ext"] # <<>>,
             c.id = handlers["ext"][1].id, s1 = Append(s, c)
      PROVE  \A i \in 1 .. Len(s1) : s1[i].key \in had[commands'[s1[i].id]]
  <2>1. /\ Len(s) \in Nat /\ Len(s1) = Len(s) + 1 /\ \A i \in 1 .. Len(s) : s1[i] = s[i]
        /\ s1[Len(s) + 1] = c
    BY <1>7, Back
  <2>2. PICK f \in Frames : f = Head(fromDongle)
    BY <1>7, Front, FrameKinds
  <2>3. PICK h : h = handlers["ext"][1]
    OBVIOUS
  <2>4. 1 \in 1 .. Len(handlers["ext"]) /\ "ext" \in Lookups
    BY <1>7, Front DEF TypeOK, Lookups
  <2>5. Waited("ext")[1] = f
    <3>1. PICK w \in Seq(Frames \cup Requests) : w = Selected(fromDongle, Answers("ext"))
      BY <2>4, WaitedParts
    <3>2. PICK v \in Seq(Frames \cup Requests) : v = Selected(toDongle, Asks("ext"))
      BY <2>4, WaitedParts
    <3>3. /\ Len(w) = Len(Selected(Tail(fromDongle), Answers("ext"))) + 1 /\ w[1] = f
          /\ Len(Selected(Tail(fromDongle), Answers("ext"))) \in Nat
      <4>1. fromDongle \in Seq(Frames) /\ fromDongle # <<>>
        BY <1>7, FrameKinds
      <4>2. Head(fromDongle) \in Answers("ext")
        BY <1>7, <2>2 DEF Answers
      <4>3. Leads(Head(fromDongle), Selected(fromDongle, Answers("ext")),
                  Selected(Tail(fromDongle), Answers("ext")))
        BY <4>1, <4>2, SelectedTaken
      <4> QED BY <2>2, <3>1, <4>3 DEF Leads
    <3>4. 1 \in 1 .. Len(w)
      BY <3>3
    <3>5. (w \o v)[1] = w[1]
      BY <3>4, Joined
    <3> QED BY <3>1, <3>2, <3>3, <3>5 DEF Waited
  <2>6. Fits("ext", f, h)
    BY <1>1, <2>3, <2>4, <2>5 DEF Match
  <2>7. c.key \in Had(commands[h.id])
    BY <1>1, <1>7, <2>2, <2>6 DEF Fits, Expected
  <2>8. h.id \in 1 .. Len(commands)
    BY <2>3, <2>4 DEF AirOrder
  <2>9. c.key \in had[commands'[c.id]]
    BY <1>5, <1>7, <2>3, <2>7, <2>8
  <2> QED BY <1>6, <2>1, <2>9
<1>8. ASSUME s1 = s
      PROVE  \A i \in 1 .. Len(s1) : s1[i].key \in had[commands'[s1[i].id]]
  BY <1>6, <1>8
<1>9. s1 = s \/ \E c \in Commands :
        /\ OnFrame /\ Head(fromDongle).op = "ext" /\ Head(fromDongle).ok
        /\ c.key = Head(fromDongle).value /\ handlers["ext"] # <<>>
        /\ c.id = handlers["ext"][1].id /\ s1 = Append(s, c)
  BY <1>2, <1>3, AirMoves
<1>10. \A i \in 1 .. Len(s1) : s1[i].key \in had[commands'[s1[i].id]]
  BY <1>7, <1>8, <1>9
<1>11. ASSUME NEW i \in 1 .. Len(s1)
       PROVE  commands'[s1[i].id] \in Devices
  <2>1. s1[i].id \in 1 .. Len(commands')
    BY <1>3, AirOrderStep DEF AirOrder
  <2>2. commands' \in Seq(Devices)
    BY TypeStep DEF TypeOK
  <2> QED BY <2>1, <2>2, ElementOfSeq
<1> QED BY <1>0, <1>3, <1>10, <1>11

-----------------------------------------------------------------------------
(* The theorems.                                                            *)

\* Nothing has happened.
LEMMA AtFirst ==
  ASSUME Init
  PROVE  Inv
<1>1. /\ TsnMod \in Nat /\ TsnMod > 1 /\ 0 \in 0 .. TsnMod - 1 /\ Home \in [Devices -> Addrs]
      /\ \A d, e \in Devices : Home[d] = Home[e] => d = e
  <2>1. TsnMod \in Nat /\ TsnMod > 1
    BY Constants
  <2> QED BY <2>1, Constants
<1>2. Len(<<>>) = 0 /\ \A S : <<>> \in Seq(S)
  BY EmptySeq
<1>3. /\ fromDongle = <<>> /\ toDongle = <<>> /\ sent = <<>> /\ commands = <<>>
      /\ published = <<>> /\ radio = <<>> /\ home = Home
      /\ former = [d \in Devices |-> {}]
      /\ handlers = [l \in Lookups |-> <<>>] /\ faults = [k \in Kinds |-> 0]
      /\ handlers["nwk"] = <<>> /\ handlers["ext"] = <<>>
  BY DEF Init, Lookups
<1>4. TypeOK
  <2>1. last_msg_ \in [Addrs -> {<<>>} \cup Data]
    BY DEF Init
  <2>2. send_trans_seq_nums_ \in [Addrs -> 0 .. TsnMod - 1] /\ devtsn \in [Devices -> 0 .. TsnMod - 1]
    BY <1>1 DEF Init
  <2>3. handlers \in [Lookups -> Seq(Handlers)] /\ faults \in [Kinds -> Nat]
    BY <1>2, <1>3
  <2> QED BY <1>1, <1>2, <1>3, <2>1, <2>2, <2>3 DEF TypeOK
<1>5. Ids /\ Refused
  BY <1>2, <1>3 DEF Ids, Refused
<1>6. Places
  BY <1>1, <1>2, <1>3 DEF Places
<1>7. \A T : Selected(<<>>, T) = <<>>
  BY SelectedEmpty
<1>8. <<>> \o <<>> = <<>>
  BY <1>2, ConcatEmptySeq
<1>9. /\ Waited("nwk") = <<>> /\ Waited("ext") = <<>> /\ Air = <<>>
  BY <1>3, <1>7, <1>8 DEF Waited, Air
<1>10. Match("nwk") /\ Match("ext")
  BY <1>2, <1>3, <1>9 DEF Match
<1>11. AirOrder /\ AirPlaces
  BY <1>2, <1>3, <1>9 DEF AirOrder, AirPlaces
<1>12. AirNumbers
  BY <1>2, <1>9 DEF AirNumbers, Apart, Counted
<1>13. Numbers
  BY <1>2, <1>3 DEF Numbers
<1>14. DOMAIN <<>> = {}
  OBVIOUS
<1>15. Ordered /\ RightDevice
  BY <1>2, <1>3, <1>14 DEF Ordered, OnceInOrder, RightDevice
<1>16. Filter
  <2>1. ASSUME NEW a \in Addrs
        PROVE  Last(a, 0) /\ Coming(a, 0) /\ Treated(a, 0)
    BY <1>2, <1>3 DEF Last, Coming, Treated, Init
  <2>2. 0 \in 0 .. Len(sent)
    BY <1>2, <1>3
  <2> QED BY <2>1, <2>2 DEF Filter
<1> QED BY <1>4, <1>5, <1>6, <1>10, <1>11, <1>12, <1>13, <1>15, <1>16 DEF Inv

\* Every step keeps the invariant.
LEMMA EachStep ==
  ASSUME Inv, Next
  PROVE  Inv'
<1> USE DEF Inv
<1>1. TypeOK' /\ Ids'
  BY TypeStep, IdsStep
<1>2. Refused' /\ Places' /\ Numbers'
  BY RefusedStep, PlacesStep, NumbersStep
<1>3. Match("nwk")' /\ Match("ext")'
  <2>1. "nwk" \in Lookups /\ "ext" \in Lookups
    BY DEF Lookups
  <2>2. Match("nwk")'
    BY <2>1, MatchStep
  <2>3. Match("ext")'
    BY <2>1, MatchStep
  <2> QED BY <2>2, <2>3
<1>4. AirOrder' /\ AirNumbers' /\ AirPlaces'
  BY AirOrderStep, AirNumbersStep, AirPlacesStep
<1>5. Ordered'
  BY OrderedStep
<1>6. Filter'
  BY FilterKept, FilterHeard
<1>7. RightDevice'
  BY RightDeviceStep
<1> QED BY <1>1, <1>2, <1>3, <1>4, <1>5, <1>6, <1>7

\* A step that changes nothing keeps it too.
LEMMA NoStep ==
  ASSUME Inv, UNCHANGED vars
  PROVE  Inv'
<1> USE DEF vars
<1>1. /\ TypeOK' /\ Ids' /\ Places' /\ Refused' /\ Numbers'
  BY DEF Inv, TypeOK, Ids, Places, Refused, Numbers
<1>6. RightDevice'
  BY DEF Inv, RightDevice
<1>2. Match("nwk")' /\ Match("ext")'
  BY DEF Inv, Match, Waited, Answers, Asks, Fits, Expected, Possible, Had, About
<1>3. AirOrder' /\ AirNumbers' /\ AirPlaces'
  BY DEF Inv, AirOrder, AirNumbers, AirPlaces, Air, Commands, Had
<1>4. Ordered'
  BY DEF Inv, Ordered, OnceInOrder, Listed, Told
<1>5. Filter'
  <2>1. \A k : (Listed(k)' <=> Listed(k)) /\ (Told(k)' <=> Told(k)) /\ (Ours(k)' <=> Ours(k))
    BY DEF Listed, Told, Ours
  <2>2. \A i : Repeats(i)' <=> Repeats(i)
    BY DEF Repeats
  <2>3. \A i : Done(i)' <=> Done(i)
    BY <2>1, <2>2 DEF Done, Listed, Told, Repeats
  <2>4. \A i : Behind(i)' <=> Behind(i)
    BY <2>1 DEF Behind, Listed, Told
  <2>5. \A k : (FirstCopy(k)' <=> FirstCopy(k)) /\ (Again(k)' <=> Again(k))
    BY DEF FirstCopy, Again, Ours, Behind, Listed, Told
  <2>6. \A k, a : From(k, a)' <=> From(k, a)
    BY DEF From, Ours
  <2>7. \A k, a, p : InTurn(k, a, p)' <=> InTurn(k, a, p)
    BY <2>5, <2>6 DEF InTurn, From, Ours, FirstCopy, Again, Behind, Listed, Told
  <2>8. \A a, p : Coming(a, p)' <=> Coming(a, p)
    BY <2>7 DEF Coming, InTurn, From, Ours, FirstCopy, Again, Behind, Listed, Told
  <2>9. \A a, p : (Last(a, p)' <=> Last(a, p)) /\ (Treated(a, p)' <=> Treated(a, p))
    BY <2>3 DEF Last, Treated, Done, Ours, Listed, Told, Repeats
  <2>10. Filter
    BY DEF Inv
  <2>11. ASSUME NEW a \in Addrs
         PROVE  \E p \in 0 .. Len(sent') : Last(a, p)' /\ Coming(a, p)' /\ Treated(a, p)'
    <3>1. PICK p \in 0 .. Len(sent) : Last(a, p) /\ Coming(a, p) /\ Treated(a, p)
      BY <2>10 DEF Filter
    <3>2. Last(a, p)' /\ Coming(a, p)' /\ Treated(a, p)'
      BY <2>8, <2>9, <3>1
    <3>3. Len(sent') = Len(sent)
      OBVIOUS
    <3> QED BY <3>2, <3>3
  <2> QED BY <2>11 DEF Filter
<1> QED BY <1>1, <1>2, <1>3, <1>4, <1>5, <1>6 DEF Inv

\* The invariant holds throughout.
THEOREM Invariant == Spec => []Inv
<1>1. Init => Inv
  BY AtFirst
<1>2. Inv /\ [Next]_vars => Inv'
  BY EachStep, NoStep
<1> QED BY <1>1, <1>2, PTL DEF Spec

\* Counters stay within their width, lines and tables hold what they are for.
THEOREM TypeCorrect == Spec => []TypeOK
<1>1. Inv => TypeOK
  BY DEF Inv
<1> QED BY <1>1, Invariant, PTL

\* What a device sent is published under its own IEEE address, however lookups,
\* messages and refusals follow one another (OnIncomingMsg, OnLookup), unless an
\* answer is lost or it has left the short address it sent from.
THEOREM RightDeviceHolds == Spec => []RightDevice
<1>1. Inv => RightDevice
  BY DEF Inv
<1> QED BY <1>1, Invariant, PTL

\* A message a device repeats is published once, and messages are published in the
\* order of their reception (IsDuplicate, and the FIFO of the lookups).
THEOREM OnceInOrderHolds == Spec => []OnceInOrder
<1>1. Inv => OnceInOrder
  BY DEF Inv, Ordered
<1> QED BY <1>1, Invariant, PTL

\* The filter ignores nothing but a message that equals the one before it.
THEOREM OnlyDuplicatesAreIgnored == Spec => []OnlyDuplicatesIgnored
<1>1. ASSUME Inv
      PROVE  OnlyDuplicatesIgnored
  <2>0. TypeOK /\ Match("nwk") /\ Filter
    BY <1>1 DEF Inv
  <2>1. sent \in Seq(Messages) /\ DOMAIN sent = 1 .. Len(sent) /\ DOMAIN published = 1 .. Len(published)
    BY <2>0, LenProperties DEF TypeOK
  <2> SUFFICES ASSUME Quiet, faults["refusal"] + faults["drop"] = 0,
                      NEW i \in 1 .. Len(sent), sent[i].dst = endpoint_,
                      sent[i].data.body \in Known, ~Repeats(i)
               PROVE  \E k \in 1 .. Len(published) : Told(k) /\ published[k].id = i
    BY <2>1 DEF OnlyDuplicatesIgnored
  <2>2. faults["drop"] = 0
    <3>1. faults["refusal"] \in Nat /\ faults["drop"] \in Nat
      BY <2>0 DEF TypeOK, Kinds
    <3> QED BY <3>1
  <2>3. Waited("nwk") = <<>>
    <3>1. \A T : Selected(<<>>, T) = <<>>
      BY SelectedEmpty
    <3>2. <<>> \o <<>> = <<>>
      BY EmptySeq, ConcatEmptySeq
    <3> QED BY <3>1, <3>2 DEF Waited, Quiet
  <2>4. Len(handlers["nwk"]) = 0
    BY <2>0, <2>2, <2>3, EmptySeq DEF Match
  <2>5. sent[i].src \in Addrs
    BY <2>0, SentMessage
  <2>6. PICK p \in 0 .. Len(sent) : Treated(sent[i].src, p)
    BY <2>0, <2>5 DEF Filter
  <2>7. Len(fromDongle) = 0
    BY EmptySeq DEF Quiet
  <2>8. Done(i)
    BY <2>6, <2>7 DEF Treated
  <2> QED BY <2>4, <2>8 DEF Done
<1> QED BY <1>1, Invariant, PTL

\* Commands leave in the order they came over MQTT, for the device in their topic,
\* and none looks like a copy of the one before (OnPublish, SendCommand,
\* NextTransSeqNumFor).
THEOREM CommandsArriveInOrder == Spec => []CommandsArrive
<1>1. ASSUME Inv
      PROVE  CommandsArrive
  <2>0. TypeOK /\ AirOrder /\ AirNumbers /\ AirPlaces
    BY <1>1 DEF Inv
  <2>1. PICK r \in Seq(Commands) : r = radio
    BY <2>0 DEF TypeOK
  <2>2. PICK v \in Seq(Commands) : v = Selected(toDongle, Commands)
    <3>1. Selected(toDongle, Commands) \in Seq(Requests \cap Commands)
      BY <2>0, SelectedType DEF TypeOK
    <3>2. Requests \cap Commands \subseteq Commands
      OBVIOUS
    <3> QED BY <3>1, <3>2, WiderSeq
  <2>3. PICK s : s = r \o v
    OBVIOUS
  <2>4. Air = s
    BY <2>1, <2>2, <2>3 DEF Air
  <2>5. PICK n \in Nat : n = Len(r)
    BY LenProperties
  <2>6. /\ DOMAIN radio = 1 .. n
        /\ \A i \in 1 .. n : i \in 1 .. Len(s) /\ s[i] = radio[i]
    <3>1. Len(v) \in Nat /\ Len(s) = n + Len(v) /\ \A i \in 1 .. n : s[i] = r[i]
      BY <2>3, <2>5, Joined
    <3>2. DOMAIN r = 1 .. n
      BY <2>5, LenProperties
    <3> QED BY <2>1, <3>1, <3>2
  <2>7. ASSUME NEW i \in 1 .. n, NEW j \in 1 .. n, i < j
        PROVE  radio[i].id < radio[j].id
    <3>1. s[i].id < s[j].id
      BY <2>0, <2>4, <2>6, <2>7 DEF AirOrder
    <3> QED BY <2>6, <3>1
  <2>8. ASSUME NEW i \in 1 .. n
        PROVE  radio[i].key \in Had(commands[radio[i].id]) \/ faults["drop"] > 0
    <3>1. faults["drop"] \in Nat
      BY <2>0 DEF TypeOK, Kinds
    <3>2. CASE faults["drop"] = 0
      <4>1. s[i].key \in Had(commands[s[i].id])
        BY <2>0, <2>4, <2>6, <3>2 DEF AirPlaces
      <4> QED BY <2>6, <4>1
    <3> QED BY <3>1, <3>2
  <2>9. ASSUME NEW i \in 1 .. n, NEW j \in 1 .. n, i < j, radio[i].key = radio[j].key,
               \A k \in i + 1 .. j - 1 : radio[k].key # radio[i].key
        PROVE  radio[i].tsn # radio[j].tsn
    <3>1. \A k \in i + 1 .. j - 1 : k \in 1 .. n
      OBVIOUS
    <3>2. \A k \in i + 1 .. j - 1 : s[k].key # s[i].key
      BY <2>6, <2>9, <3>1
    <3>3. Apart(s)
      BY <2>0, <2>4 DEF AirNumbers
    <3>4. i \in 1 .. Len(s) /\ j \in 1 .. Len(s) /\ s[i].key = s[j].key
      BY <2>6, <2>9
    <3>5. s[i].tsn # s[j].tsn
      BY <2>9, <3>2, <3>3, <3>4 DEF Apart
    <3> QED BY <2>6, <3>5
  <2> QED BY <2>6, <2>7, <2>8, <2>9 DEF CommandsArrive, Had
<1> QED BY <1>1, Invariant, PTL
=============================================================================
