-------------------------------- MODULE Hub ---------------------------------
(***************************************************************************)
(* The two ways through the hub (main.cpp, zcl/zcl_endpoint.cpp).  Inbound:  *)
(* AF_INCOMING_MSG, ZclEndpoint::OnIncomingMsg with its duplicate filter, the *)
(* lookup of the sender's IEEE address, the publish under that address.      *)
(* Outbound: a command published over MQTT, the lookup of the short address, *)
(* AF_DATA_REQUEST.  The lookups are ZnpApi calls: a FIFO of handlers per     *)
(* command, the answer k to the oldest (ZnpApi.tla); the messages published  *)
(* then take the way of MqttWrapper.tla.                                    *)
(*                                                                         *)
(* A message is known by its place in sent, a command by its place in        *)
(* commands.  Topics, JSON and ZCL payloads are abstracted: what matters is    *)
(* the device in the topic, and which payloads compare equal.               *)
(***************************************************************************)
EXTENDS Naturals, Sequences, Functions

CONSTANTS
  Devices, Addrs,
  Home,          \* Home[d]: the short address of d at first
  Bodies,        \* what a message says, apart from its sequence number
  Known,         \* the bodies of a cluster and command the database has
  TsnMod,        \* 256: transaction sequence numbers are 8 bits wide
  MaxTraffic,    \* bound on the messages and the commands sent
  Budgets        \* bounds on the faults: how many of each kind may come together

NoDevice == "nobody"
endpoint_ == 1

ASSUME HomeAssumption ==
  /\ Home \in [Devices -> Addrs]
  /\ \A d, e \in Devices : Home[d] = Home[e] => d = e
ASSUME KnownAssumption == Known \subseteq Bodies /\ NoDevice \notin Devices
ASSUME TsnAssumption == TsnMod \in Nat /\ TsnMod > 1

VARIABLES
  last_msg_,             \* by short address: the data last received
  send_trans_seq_nums_,  \* by short address
  handlers,              \* RawSReq handlers listed, by lookup: "nwk" and "ext"
  toDongle, fromDongle,
  home, former,          \* short address now, and those left, by device (external)
  devtsn,                \* sequence number of each device's next message
  sent,                  \* messages sent by devices
  commands,              \* commands received over MQTT
  published,             \* what the hub published
  radio,                 \* what the dongle transmitted
  faults                 \* how many of each kind have happened

vars == <<last_msg_, send_trans_seq_nums_, handlers, toDongle, fromDongle, home,
          former, devtsn, sent, commands, published, radio, faults>>
hubVars == <<last_msg_, send_trans_seq_nums_, handlers, published, commands>>
netVars == <<home, former, devtsn, sent>>

Kinds == {"copy", "restart", "rejoin", "refusal", "drop"}
Fault(kind) ==
  /\ faults' = [faults EXCEPT ![kind] = @ + 1]
  /\ \E b \in Budgets : \A k \in Kinds : faults'[k] <= b[k]

Data == [tsn : 0 .. TsnMod - 1, body : Bodies]
Messages == [dev : Devices, src : Addrs, dst : {endpoint_, 2}, data : Data]
Publications == [what : {"zcl", "link"}, topic : Devices \cup {NoDevice}, id : Nat]
Lookups == {"nwk", "ext"}
Handlers == [for : {"zcl", "link", "command"}, id : Nat]
Commands == [op : {"data"}, key : Addrs, tsn : 0 .. TsnMod - 1, id : Nat]
Requests ==
  [op : {"nwk"}, key : Addrs] \cup [op : {"ext"}, key : Devices] \cup Commands
Frames ==
  [op : {"incoming"}, id : Nat] \cup [op : Lookups, ok : {FALSE}]
    \cup [op : {"nwk"}, ok : {TRUE}, value : Devices \cup {NoDevice}]
    \cup [op : {"ext"}, ok : {TRUE}, value : Addrs]

TypeOK ==
  /\ last_msg_ \in [Addrs -> {<<>>} \cup Data]
  /\ send_trans_seq_nums_ \in [Addrs -> 0 .. TsnMod - 1]
  /\ handlers \in [Lookups -> Seq(Handlers)]
  /\ toDongle \in Seq(Requests) /\ fromDongle \in Seq(Frames)
  /\ home \in [Devices -> Addrs] /\ former \in [Devices -> SUBSET Addrs]
  /\ devtsn \in [Devices -> 0 .. TsnMod - 1]
  /\ sent \in Seq(Messages)
  /\ commands \in Seq(Devices)
  /\ published \in Seq(Publications)
  /\ radio \in Seq(Commands)
  /\ faults \in [Kinds -> Nat]

Init ==
  /\ last_msg_ = [a \in Addrs |-> <<>>]
  /\ send_trans_seq_nums_ = [a \in Addrs |-> 0]
  /\ handlers = [l \in Lookups |-> <<>>]
  /\ toDongle = <<>> /\ fromDongle = <<>>
  /\ home = Home /\ former = [d \in Devices |-> {}]
  /\ devtsn = [d \in Devices |-> 0]
  /\ sent = <<>> /\ commands = <<>> /\ published = <<>> /\ radio = <<>>
  /\ faults = [k \in Kinds |-> 0]

-----------------------------------------------------------------------------
(* The hub.                                                                 *)

\* Mutants: the filter compares the message without its sequence number; it
\* lets everything pass.
IsDuplicateBody(m) == last_msg_[m.src] # <<>> /\ last_msg_[m.src].body = m.data.body
IsDuplicateNever(m) == FALSE

IsDuplicate(m) == last_msg_[m.src] = m.data

Asked(m, id) ==
  LET link == [for |-> "link", id |-> id]
  IN IF m.dst = endpoint_ /\ ~IsDuplicate(m) /\ m.data.body \in Known
     THEN <<[for |-> "zcl", id |-> id], link>> ELSE <<link>>

\* af_on_incoming_msg_: the slot of the endpoint, up to its call of OnZclCommand,
\* then the slot of main, which asks for the link quality of every message.
OnIncomingMsg(f) ==
  LET m == sent[f.id]
      ask == [op |-> "nwk", key |-> m.src]
  IN /\ last_msg_' = IF m.dst = endpoint_ /\ ~IsDuplicate(m)
                     THEN [last_msg_ EXCEPT ![m.src] = m.data] ELSE last_msg_
     /\ handlers' = [handlers EXCEPT !["nwk"] = @ \o Asked(m, f.id)]
     /\ toDongle' = toDongle \o [k \in DOMAIN Asked(m, f.id) |-> ask]
     /\ UNCHANGED <<send_trans_seq_nums_, published, commands>>

\* Mutants: the number is not advanced; it is wider than a byte.
NextTransSeqNumForSame(a) == send_trans_seq_nums_' = send_trans_seq_nums_
NextTransSeqNumForWide(a) ==
  send_trans_seq_nums_' = [send_trans_seq_nums_ EXCEPT ![a] = @ + 1]

NextTransSeqNumFor(a) ==
  send_trans_seq_nums_' = [send_trans_seq_nums_ EXCEPT ![a] = (@ + 1) % TsnMod]

\* ZclEndpoint::SendCommand with AfDataRequest, whose answer has no further effect.
SendCommand(addr, id) ==
  /\ toDongle' = Append(toDongle,
       [op |-> "data", key |-> addr, tsn |-> send_trans_seq_nums_[addr], id |-> id])
  /\ NextTransSeqNumFor(addr)
  /\ UNCHANGED published

Publish(what, device, id) ==
  /\ published' = Append(published, [what |-> what, topic |-> device, id |-> id])
  /\ UNCHANGED <<send_trans_seq_nums_, toDongle>>

\* Mutant: the newest handler takes the answer.
ServedNewest(l) == [handler |-> handlers[l][Len(handlers[l])],
                    left |-> SubSeq(handlers[l], 1, Len(handlers[l]) - 1)]

\* OnFrame: the oldest handler for the command takes the answer.
Served(l) == [handler |-> Head(handlers[l]), left |-> Tail(handlers[l])]

\* The continuation of a lookup: publish under the address found, or send the
\* command to it; after an error recover only logs.
OnLookup(f) ==
  LET h == Served(f.op).handler
  IN /\ handlers[f.op] # <<>>
     /\ handlers' = [handlers EXCEPT ![f.op] = Served(f.op).left]
     /\ IF ~f.ok THEN UNCHANGED <<send_trans_seq_nums_, toDongle, published>>
        ELSE IF f.op = "nwk" THEN Publish(h.for, f.value, h.id)
        ELSE SendCommand(f.value, h.id)
     /\ UNCHANGED <<last_msg_, commands>>

OnFrame ==
  /\ fromDongle # <<>>
  /\ fromDongle' = Tail(fromDongle)
  /\ LET f == Head(fromDongle)
     IN (f.op = "incoming" /\ OnIncomingMsg(f)) \/ (f.op # "incoming" /\ OnLookup(f))
  /\ UNCHANGED <<netVars, radio, faults>>

\* OnPublish, short or long form, of a command that parses and encodes.
OnPublish(d) ==
  /\ Len(sent) + Len(commands) < MaxTraffic
  /\ commands' = Append(commands, d)
  /\ handlers' = [handlers EXCEPT !["ext"] =
       Append(@, [for |-> "command", id |-> Len(commands) + 1])]
  /\ toDongle' = Append(toDongle, [op |-> "ext", key |-> d])
  /\ UNCHANGED <<last_msg_, send_trans_seq_nums_, published, fromDongle, netVars,
                 radio, faults>>

-----------------------------------------------------------------------------
(* The dongle and the devices (external).                                   *)

\* A message to the hub.  The order of reception is the order of sending.
Report(d) ==
  /\ Len(sent) + Len(commands) < MaxTraffic
  /\ \E body \in Bodies, dst \in {endpoint_, 2} :
       sent' = Append(sent, [dev |-> d, src |-> home[d], dst |-> dst,
                             data |-> [tsn |-> devtsn[d], body |-> body]])
  /\ devtsn' = [devtsn EXCEPT ![d] = (@ + 1) % TsnMod]
  /\ fromDongle' = Append(fromDongle, [op |-> "incoming", id |-> Len(sent')])
  /\ UNCHANGED <<hubVars, toDongle, home, former, radio, faults>>

\* An acknowledgement was lost: a device sends its latest message again.
Resend(d) ==
  /\ Fault("copy")
  /\ \E i \in DOMAIN sent :
       /\ sent[i].dev = d /\ sent[i].src = home[d]
       /\ \A j \in DOMAIN sent : sent[j].dev = d => j <= i
       /\ fromDongle' = Append(fromDongle, [op |-> "incoming", id |-> i])
  /\ UNCHANGED <<hubVars, toDongle, netVars, radio>>

\* A device starts anew and counts from zero.
DeviceRestarts(d) ==
  /\ Fault("restart")
  /\ devtsn' = [devtsn EXCEPT ![d] = 0]
  /\ UNCHANGED <<hubVars, toDongle, fromDongle, home, former, sent, radio>>

\* A device rejoins under a free address it has not had, perhaps one another left.
Rejoin(d) ==
  /\ Fault("rejoin")
  /\ former' = [former EXCEPT ![d] = @ \cup {home[d]}]
  /\ \E a \in Addrs \ (former[d] \cup {home[e] : e \in Devices}) :
       home' = [home EXCEPT ![d] = a]
  /\ UNCHANGED <<hubVars, toDongle, fromDongle, devtsn, sent, radio>>

Found(r) ==
  IF r.op = "ext" THEN home[r.key]
  ELSE IF \E d \in Devices : home[d] = r.key THEN CHOOSE d \in Devices : home[d] = r.key
  ELSE NoDevice

Answer(answer) == fromDongle' = Append(fromDongle, answer)

\* Requests are served in order; a lookup is answered from the table of the moment.
DongleServe ==
  /\ toDongle # <<>>
  /\ toDongle' = Tail(toDongle)
  /\ LET r == Head(toDongle)
     IN \/ /\ r.op = "data"
           /\ radio' = Append(radio, r)
           /\ UNCHANGED <<fromDongle, faults>>
        \/ /\ r.op # "data"
           /\ Answer([op |-> r.op, ok |-> TRUE, value |-> Found(r)])
           /\ UNCHANGED <<radio, faults>>
        \/ /\ r.op # "data"
           /\ Fault("refusal")
           /\ Answer([op |-> r.op, ok |-> FALSE])
           /\ UNCHANGED radio
  /\ UNCHANGED <<hubVars, netVars>>

\* An answer is dropped by ZnpPort::FrameHandler for its checksum.
LoseFrame ==
  /\ fromDongle # <<>> /\ Head(fromDongle).op # "incoming"
  /\ Fault("drop")
  /\ fromDongle' = Tail(fromDongle)
  /\ UNCHANGED <<hubVars, toDongle, netVars, radio>>

Next ==
  \/ OnFrame
  \/ \E d \in Devices : OnPublish(d) \/ Report(d) \/ Resend(d)
                          \/ DeviceRestarts(d) \/ Rejoin(d)
  \/ DongleServe \/ LoseFrame

Spec == Init /\ [][Next]_vars

-----------------------------------------------------------------------------
(* Properties.                                                              *)

Quiet == fromDongle = <<>> /\ toDongle = <<>>
Told(k) == published[k].what = "zcl"

\* "AqaraHub/[device-id]/[endpoint-id]/in/...": what a device sent is published
\* under its own IEEE address, although the address is asked for after the
\* message was received and the answer does not say whom it is about.  The
\* exceptions: a lost answer shifts those after it from message to message, and
\* the lookup finds nobody, or the next holder, once the sender has left the short
\* address it sent from.
RightDevice ==
  faults["drop"] = 0 =>
    \A i \in DOMAIN published :
      LET m == sent[published[i].id]
      IN published[i].topic = m.dev \/ m.src \in former[m.dev]

\* A message a device repeats is published once, and messages are published in
\* the order of their reception, whatever is refused or lost.
OnceInOrder ==
  \A i, j \in DOMAIN published :
    i < j /\ Told(i) /\ Told(j) => published[i].id < published[j].id

\* Message i equals the one sent to the endpoint from its short address before it:
\* the device began to count anew, or has sent TsnMod messages since, the others
\* elsewhere, or took the address over.
Repeats(i) ==
  \E j \in 1 .. i - 1 :
    /\ sent[j].src = sent[i].src /\ sent[j].dst = endpoint_
    /\ sent[j].data = sent[i].data
    /\ \A k \in j + 1 .. i - 1 : sent[k].src = sent[i].src => sent[k].dst # endpoint_
    /\ faults["restart"] = 0 /\ sent[j].dev = sent[i].dev => i - j >= TsnMod

\* "Ignoring duplicate message": only duplicates are ignored.  Every other message
\* to the endpoint that the database knows is published, unless a lookup failed.
OnlyDuplicatesIgnored ==
  Quiet /\ faults["refusal"] + faults["drop"] = 0 =>
    \A i \in DOMAIN sent :
      sent[i].dst = endpoint_ /\ sent[i].data.body \in Known /\ ~Repeats(i) =>
        \E k \in DOMAIN published : Told(k) /\ published[k].id = i

\* Commands leave in the order they came over MQTT, each for the device named in
\* its topic, at an address it has or has left since the lookup, and no two in a
\* row to an address look like copies of one another.
CommandsArrive ==
  /\ \A i, j \in DOMAIN radio : i < j => radio[i].id < radio[j].id
  /\ \A i \in DOMAIN radio :
       LET d == commands[radio[i].id]
       IN radio[i].key \in {home[d]} \cup former[d] \/ faults["drop"] > 0
  /\ \A i, j \in DOMAIN radio :
       /\ i < j /\ radio[i].key = radio[j].key
       /\ \A k \in i + 1 .. j - 1 : radio[k].key # radio[i].key
       => radio[i].tsn # radio[j].tsn
=============================================================================
