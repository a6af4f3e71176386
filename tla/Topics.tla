-------------------------------- MODULE Topics ------------------------------
(***************************************************************************)
(* The MQTT topics of main.cpp: what a hub publishes for a frame of a device *)
(* or a report of its dongle, and what it does for a message it receives.     *)
(* Several hubs may share a broker, a prefix too; they are then told apart by *)
(* the instance.  The handlers keep no state, so an event is followed to its   *)
(* end on its own: its messages wait in wire, and Deliver gives one to every  *)
(* hub that subscribes to it, the publisher included.                        *)
(*                                                                         *)
(* The texts and the database are those of ClusterDb.tla.  The payload of a   *)
(* command is abstracted to the JSON value it stands for (DynamicEncoding).   *)
(***************************************************************************)
EXTENDS ClusterDb

CONSTANTS
  Files,                   \* trees that clusters.info may be
  Hubs, Prefix, Instance,  \* the options of each hub, as texts
  Joined,                  \* Joined[h]: the devices in the network of h
  Endpoints,               \* the endpoints of a device
  Recursive,               \* --recursive-publish
  AsHex, AsDecimal,        \* numeral -> number, as read in base 16 and 10
  Hex16, Decimal, Hex4,    \* number -> numeral, as printed by %016X, %d, 0x%04X
  EndpointMod,             \* 256: an endpoint has 8 bits
  Seconds,                 \* the times of permitjoin asked for or reported
  Values,                  \* JSON values, with all of their parts
  Nesting,                 \* how deep in one of them a part may be
  Decoded(_, _)            \* what Decode may return for a cluster and a type
                           \* (Decodings of ClusterTypes.tla)

Devices == UNION {Joined[h] : h \in Hubs}

ASSUME HubAssumption ==
  \A h, g \in Hubs : h # g => /\ Joined[h] \cap Joined[g] = {}
                             /\ <<Prefix[h], Instance[h]>> # <<Prefix[g], Instance[g]>>
\* What is printed is read back; a numeral is a token and is none of the words of a topic.
ASSUME NumeralAssumption ==
  /\ DOMAIN AsHex \cup DOMAIN AsDecimal \subseteq STRING \ {"/"}
  /\ DOMAIN AsHex \cap {"control", "report", "permitjoin"} = {}
  /\ \A d \in Devices : Hex16[d] \in DOMAIN AsHex /\ AsHex[Hex16[d]] = d
  /\ \A n \in Endpoints \cup Seconds :
       /\ Decimal[n] \in DOMAIN AsDecimal /\ AsDecimal[Decimal[n]] = n
       /\ Decimal[n] \in DOMAIN AsAny /\ AsAny[Decimal[n]] = n
  /\ \A n \in DOMAIN Hex4 : Hex4[n] \in STRING
  /\ EndpointMod \in Nat \ {0} /\ Endpoints \subseteq 0 .. EndpointMod - 1 /\ Seconds \subseteq Nat

\* By what STRING is; the provers do not know it of any word.
ASSUME WordAssumption ==
  {"/", "+", "#", "in", "out", "linkquality", "control", "report", "permitjoin", "directjoin",
   "trustcenter_device", "end_device_announce", "null"} \subseteq STRING

VARIABLES
  file, db,      \* clusters.info, and what was made of it
  wire,          \* messages on their way, the next one first
  asked,         \* what the user asked for with the message, or Nothing
  frame,         \* what device sent a frame and which, or Nothing
  acts           \* what each hub asked its dongle for, by the last delivery

vars == <<file, db, wire, asked, frame, acts>>

Idle == [h \in Hubs |-> Nothing]
NotLoaded == [loaded |-> FALSE]

Init ==
  /\ file \in Files /\ db = NotLoaded
  /\ wire = <<>> /\ asked = Nothing /\ frame = Nothing /\ acts = Idle

\* One request or one frame, and before it any number of reports of the dongles.
Running ==
  /\ db \notin {NotLoaded, Refused}
  /\ wire = <<>> /\ asked = Nothing /\ frame = Nothing

\* main, before anything else: a file that can not be parsed ends the program.
LoadClusters ==
  /\ db = NotLoaded
  /\ db' = ParseFromPTree(file)
  /\ UNCHANGED <<file, wire, asked, frame, acts>>

-----------------------------------------------------------------------------
(* Texts.                                                                   *)

WithSlash(text) == IF text # <<>> /\ text[Len(text)] # "/" THEN Append(text, "/") ELSE text
Rest(text, start) == SubSeq(text, Len(start) + 1, Len(text))
Under(topic, name) == topic \o <<"/">> \o name

\* MakePrefixEndWithSlash was called for the prefix.
ASSUME TextAssumption ==
  \A h \in Hubs : /\ Prefix[h] \in Seq(STRING) /\ Prefix[h] = WithSlash(Prefix[h])
                  /\ Instance[h] \in Seq(STRING)

\* The parts of a topic between the slashes.
WithToken(levels, c) ==
  IF c = "/" THEN Append(levels, <<>>)
  ELSE [levels EXCEPT ![Len(levels)] = Append(@, c)]
Levels(topic) ==
  LET levels[i \in 0 .. Len(topic)] ==
        IF i = 0 THEN <<<<>>>> ELSE WithToken(levels[i - 1], topic[i])
  IN levels[Len(topic)]

-----------------------------------------------------------------------------
(* Publishing.                                                              *)

Text(t) == [text |-> t]
Json(v) == [json |-> v]
Message(topic, payload) == [topic |-> topic, payload |-> payload]

Leaf(text)  == [leaf |-> text]
Num(n)      == [num |-> n]
Array(s)    == [arr |-> s]
Object(s)   == [obj |-> s]      \* pairs <<name, value>>

ASSUME ValueAssumption ==
  /\ Nesting \in Nat /\ [null |-> TRUE] \in Values
  /\ \A v \in Values :
       /\ "obj" \in DOMAIN v => v.obj \in Seq(Seq(STRING) \X Values)
       /\ "arr" \in DOMAIN v => v.arr \in Seq(Values) /\ \A i \in DOMAIN v.arr : Decimal[i - 1] \in STRING
       /\ "leaf" \in DOMAIN v => v.leaf \in Seq(STRING)
       /\ "num" \in DOMAIN v => v.num \in DOMAIN Hex4

\* The messages of the members of an object, and of the elements of an array.
Parts(message) ==
  LET value == message.payload.json
  IN IF "obj" \in DOMAIN value
     THEN [i \in DOMAIN value.obj |->
             Message(Under(message.topic, value.obj[i][1]), Json(value.obj[i][2]))]
     ELSE IF "arr" \in DOMAIN value
     THEN [i \in DOMAIN value.arr |->
             Message(Under(message.topic, <<Decimal[i - 1]>>), Json(value.arr[i]))]
     ELSE <<>>

\* The topics of a value, and with Recursive of its parts, each before its own parts:
\* those of a depth are put in behind what they are parts of.
At(depth, messages) == [i \in DOMAIN messages |-> [depth |-> depth, message |-> messages[i]]]
WithParts(n, all) ==
  FlattenSeq([i \in DOMAIN all |->
    <<all[i]>> \o IF all[i].depth = n - 1 THEN At(n, Parts(all[i].message)) ELSE <<>>])

PublishValue(topic, value) ==
  LET to[n \in 0 .. Nesting] ==
        IF n = 0 THEN At(0, <<Message(topic, Json(value))>>) ELSE WithParts(n, to[n - 1])
      all == to[IF Recursive THEN Nesting ELSE 0]
  IN [i \in DOMAIN all |-> all[i].message]

Member(object, name) ==
  IF \E i \in DOMAIN object : object[i][1] = name
  THEN object[CHOOSE i \in DOMAIN object : object[i][1] = name][2] ELSE Nothing

\* JsonGetProperty, JsonAsArray: null and an empty array for what is not there.
Property(value, name) ==
  IF "obj" \in DOMAIN value /\ \E i \in DOMAIN value.obj : value.obj[i][1] = name
  THEN Member(value.obj, name) ELSE [null |-> TRUE]
AsArray(value) == IF "arr" \in DOMAIN value THEN value.arr ELSE <<>>

\* A list of objects that begin with an attribute's identifier, and its value.
PerAttribute(type) ==
  /\ type.properties # <<>>
  /\ LET list == type.properties[1].type
     IN /\ list.t = "repeated" /\ list.element_type.t = "object"
        /\ Len(list.element_type.properties) >= 2
        /\ list.element_type.properties[1].type = [t |-> "attribId"]

Subtopic(id) ==
  CASE "leaf" \in DOMAIN id -> id.leaf
    [] "leaf" \notin DOMAIN id /\ "num" \in DOMAIN id -> <<Hex4[id.num]>>
    [] OTHER -> <<"null">>       \* and no other: the type is attribId

\* The second OnZclCommand: the command, and each attribute of a report.
CommandTopic(h, dev, ep, cluster, command) ==
  Prefix[h] \o <<Hex16[dev], "/", Decimal[ep], "/", "in", "/">>
            \o Under(cluster.name, command.name)

CommandMessages(h, dev, ep, cluster, command, value) ==
  LET topic   == CommandTopic(h, dev, ep, cluster, command)
      list    == command.data.properties[1]
      fields  == list.type.element_type.properties
      reports == IF PerAttribute(command.data) THEN AsArray(Property(value, list.name)) ELSE <<>>
  IN PublishValue(topic, value)
     \o FlattenSeq([i \in DOMAIN reports |->
          PublishValue(Under(topic, Subtopic(Property(reports[i], fields[1].name))),
                       Property(reports[i], fields[2].name))])

LinkQuality(h, dev) ==
  <<Message(Prefix[h] \o <<Hex16[dev], "/", "linkquality">>, Text(<<"1">>))>>

\* A frame of a device, its sender looked up (Hub.tla): OnIncomingMsg, and the first
\* OnZclCommand.  Decode throws on some payloads.
DeviceSends(h) ==
  /\ Running
  /\ \E dev \in Joined[h], ep \in Endpoints, cluster_id, command_id \in Range(AsAny),
        is_global \in BOOLEAN, direction \in {"serverToClient", "clientToServer"} :
       LET cluster == ClusterById(db, cluster_id)
           command == CommandById(db, cluster_id, command_id, is_global, direction)
       IN /\ \/ /\ cluster # Nothing /\ command # Nothing
                /\ \E value \in Decoded(cluster, command.data) \cap Values :
                     wire' = LinkQuality(h, dev)
                             \o CommandMessages(h, dev, ep, cluster, command, value)
             \/ wire' = LinkQuality(h, dev)
          /\ frame' = [hub |-> h, device |-> dev, endpoint |-> ep, cluster |-> cluster_id,
                       command |-> command_id, is_global |-> is_global]
  /\ UNCHANGED <<file, db, asked, acts>>

\* Mutant: the report goes to the topic the hub listens to.
PermitJoinTopicOfControl(h, instance_id) ==
  Prefix[h] \o <<"control", "/">> \o WithSlash(instance_id) \o <<"permitjoin">>
PermitJoinTopic(h, instance_id) ==
  Prefix[h] \o <<"report", "/">> \o WithSlash(instance_id) \o <<"permitjoin">>

\* zdo_on_permit_join_: for all, and for the instance.
OnPermitJoin(h) ==
  /\ Running
  /\ \E duration \in Seconds :
       wire' = [i \in 1 .. (IF Instance[h] = <<>> THEN 1 ELSE 2) |->
                  Message(PermitJoinTopic(h, IF i = 1 THEN <<>> ELSE Instance[h]),
                          Text(<<Decimal[duration]>>))]
  /\ UNCHANGED <<file, db, asked, frame, acts>>

OnJoin(h) ==
  /\ Running
  /\ \E what \in {"trustcenter_device", "end_device_announce"} :
       wire' = <<Message(Prefix[h] \o <<"report", "/", what>>, Json(Object(<<>>)))>>
  /\ UNCHANGED <<file, db, asked, frame, acts>>

-----------------------------------------------------------------------------
(* Receiving.                                                               *)

IsNumeral(level, read) == Len(level) = 1 /\ level[1] \in DOMAIN read

Null == Json([null |-> TRUE])
Arguments == Json(Object(<<>>))    \* an object with a value for every argument

\* Encode: null is enough for a command without arguments.
IsEncoded(data, json) == json = Arguments \/ (json = Null /\ data.properties = <<>>)

\* A device that is not in the network has no short address.
SendCommand(h, dev, ep, cluster, command, json) ==
  IF IsEncoded(command.data, json) /\ dev \in Joined[h]
  THEN [act |-> "command", device |-> dev, endpoint |-> ep, cluster |-> cluster.id,
        command |-> command.id, is_global |-> command.is_global]
  ELSE Nothing

OnPublishCommand(h, dev, ep, cluster_name, command_name, json) ==
  LET cluster == ClusterByName(db, cluster_name)
      command == CommandByName(db, cluster.id, "clientToServer", command_name)
  IN IF cluster = Nothing THEN Nothing
     ELSE IF command = Nothing THEN Nothing
     ELSE SendCommand(h, dev, ep, cluster, command, json)

\* An empty message is null.
OnPublishCommandLong(h, dev, ep, cluster_name, command_name, payload) ==
  IF payload = Text(<<>>) THEN OnPublishCommand(h, dev, ep, cluster_name, command_name, Null)
  ELSE IF "json" \in DOMAIN payload
  THEN OnPublishCommand(h, dev, ep, cluster_name, command_name, payload)
  ELSE Nothing

OnPublishCommandShort(h, dev, ep, cluster_name, payload) ==
  IF "json" \notin DOMAIN payload \/ "obj" \notin DOMAIN payload.json THEN Nothing
  ELSE LET command   == Member(payload.json.obj, <<"command">>)
           arguments == Member(payload.json.obj, <<"arguments">>)
       IN IF command = Nothing THEN Nothing
          ELSE OnPublishCommand(h, dev, ep, cluster_name, command.leaf,
                                IF arguments = Nothing THEN Null ELSE Json(arguments))

OnPublishPermitJoin(payload) ==
  IF "text" \in DOMAIN payload /\ IsNumeral(payload.text, AsAny)
  THEN LET seconds == AsAny[payload.text[1]]
       IN [act |-> "permitjoin", seconds |-> IF seconds >= 255 THEN 254 ELSE seconds]
  ELSE Nothing

Control(h, topic, payload) ==
  LET own == WithSlash(Instance[h])
      device == Rest(topic, own \o <<"directjoin", "/">>)
  IN IF topic \in {<<"permitjoin">>, own \o <<"permitjoin">>} THEN OnPublishPermitJoin(payload)
     ELSE IF IsPrefix(own \o <<"directjoin", "/">>, topic) /\ IsNumeral(device, AsHex)
     THEN [act |-> "directjoin", device |-> AsHex[device[1]]]
     ELSE Nothing

EndpointOf(level) == AsDecimal[level[1]] % EndpointMod

OnPublish(h, m) ==
  LET topic  == Rest(m.topic, Prefix[h])
      levels == Levels(topic)
  IN IF ~IsPrefix(Prefix[h], m.topic) THEN Nothing
     ELSE IF IsPrefix(<<"control", "/">>, topic)
     THEN Control(h, Rest(topic, <<"control", "/">>), m.payload)
     ELSE IF \/ Len(levels) \notin {4, 5} \/ levels[3] # <<"out">> \/ <<>> \in Range(levels)
             \/ ~IsNumeral(levels[1], AsHex) \/ ~IsNumeral(levels[2], AsDecimal)
     THEN Nothing
     ELSE LET dev == AsHex[levels[1][1]]
              ep  == EndpointOf(levels[2])
          IN IF Len(levels) = 4 THEN OnPublishCommandShort(h, dev, ep, levels[4], m.payload)
             ELSE OnPublishCommandLong(h, dev, ep, levels[4], levels[5], m.payload)

Subscriptions(h) == {Prefix[h] \o <<"control", "/", "#">>,
                     Prefix[h] \o <<"+", "/", "+", "/", "out", "/", "#">>}

\* The broker: "+" is any level, "#" any number of levels.
Matches(filter, topic) ==
  LET f == Levels(filter)
      t == Levels(topic)
  IN /\ Len(t) >= Len(f) - 1
     /\ \A i \in 1 .. Len(f) - 1 : f[i] \in {<<"+">>, t[i]}

Deliver ==
  /\ wire # <<>>
  /\ wire' = Tail(wire)
  /\ acts' = [h \in Hubs |->
       IF \E filter \in Subscriptions(h) : Matches(filter, Head(wire).topic)
       THEN OnPublish(h, Head(wire)) ELSE Nothing]
  /\ UNCHANGED <<file, db, asked, frame>>

-----------------------------------------------------------------------------
(* The user (external), who knows documentation/mqtt-topics.md and the file.  *)

\* "this character will be removed from cluster, command, and attribute names"
Documented(name) == Selected(name, Range(name) \ {"/"})

Clusters(tree) == {e \in Range(tree) : e.key # <<"global">>}
Globals(tree)  == UNION {Range(e.sub) : e \in Range(tree) \ Clusters(tree)}
CommandsOf(cluster, direction) ==
  UNION {Range(s.sub) : s \in {x \in Range(cluster.sub) :
                                 x.key = <<"commands">> /\ x.data = <<direction>>}}

\* Three levels of a file: clusters; parts of them; commands and attributes.
IsTree(tree) == /\ tree \in Seq(Range(tree))
                /\ \A e \in Range(tree) : e.key \in Seq(STRING) /\ e.data \in Seq(STRING)
ASSUME FileAssumption ==
  \A tree \in Files : /\ IsTree(tree)
                     /\ \A e \in Range(tree) :
                          IsTree(e.sub) /\ \A s \in Range(e.sub) : IsTree(s.sub)
ASSUME ObjectTypeAssumption ==
  \A tree \in Files : \A c \in Range(tree) :
    \A k \in Range(c.sub) \cup UNION {Range(s.sub) : s \in Range(c.sub)} :
      ObjectType(k.sub) # Refused => (ObjectType(k.sub).properties = <<>> <=> k.sub = <<>>)

\* The device in any number of hexadecimals.
UserTopic(h, dev, ep, cluster) ==
  Prefix[h] \o <<dev, "/", Decimal[ep], "/", "out", "/">> \o Documented(cluster.data)

LongForm(h, dev, ep, cluster, command, args) ==
  Message(Under(UserTopic(h, dev, ep, cluster), Documented(command.data)),
          IF args = Null THEN Text(<<>>) ELSE args)
ShortForm(h, dev, ep, cluster, command, args) ==
  Message(UserTopic(h, dev, ep, cluster),
          Json(Object(<<<<<<"command">>, Leaf(Documented(command.data))>>>>
                      \o IF args = Null THEN <<>> ELSE <<<<<<"arguments">>, args.json>>>>)))

UserCommand ==
  /\ Running
  /\ \E h \in Hubs, dev \in {t \in DOMAIN AsHex : AsHex[t] \in Devices}, ep \in Endpoints,
        c \in Clusters(file), is_global \in BOOLEAN, args \in {Null, Arguments} :
       \E k \in IF is_global THEN Globals(file) ELSE CommandsOf(c, "clientToServer") :
         /\ asked' = [what |-> "command", prefix |-> Prefix[h], device |-> AsHex[dev],
                      endpoint |-> ep, cluster |-> c, command |-> k,
                      is_global |-> is_global, args |-> args]
         /\ \/ wire' = <<LongForm(h, dev, ep, c, k, args)>>
            \/ wire' = <<ShortForm(h, dev, ep, c, k, args)>>
  /\ UNCHANGED <<file, db, frame, acts>>

\* permitjoin of all hubs with a prefix, permitjoin and directjoin of one of them.
UserControl ==
  /\ Running
  /\ \E h \in Hubs, instance \in {<<>>} \cup {Instance[h] : h \in Hubs} :
       LET topic == Prefix[h] \o <<"control", "/">> \o WithSlash(instance)
       IN \/ \E seconds \in Seconds :
               /\ wire' = <<Message(Append(topic, "permitjoin"), Text(<<Decimal[seconds]>>))>>
               /\ asked' = [what |-> "permitjoin", prefix |-> Prefix[h], instance |-> instance,
                            seconds |-> seconds]
          \/ \E dev \in DOMAIN AsHex :
               /\ wire' = <<Message(topic \o <<"directjoin", "/", dev>>, Text(<<>>))>>
               /\ asked' = [what |-> "directjoin", prefix |-> Prefix[h], instance |-> instance,
                            device |-> AsHex[dev]]
  /\ UNCHANGED <<file, db, frame, acts>>

Next ==
  \/ LoadClusters
  \/ Deliver
  \/ UserCommand \/ UserControl
  \/ \E h \in Hubs : DeviceSends(h) \/ OnPermitJoin(h) \/ OnJoin(h)

Spec == Init /\ [][Next]_vars

-----------------------------------------------------------------------------
(* Properties.                                                              *)

\* What a hub is to do: the command the file has under these names, if it is the hub with
\* this device; joining as long as asked, but never for ever, which is 255.
Wanted(h) ==
  IF asked = Nothing \/ Prefix[h] # asked.prefix THEN Nothing
  ELSE CASE asked.what = "command" ->
              IF asked.device \in Joined[h] /\ (asked.args = Null => asked.command.sub = <<>>)
              THEN [act |-> "command", device |-> asked.device, endpoint |-> asked.endpoint,
                    cluster |-> Id(asked.cluster.key), command |-> Id(asked.command.key),
                    is_global |-> asked.is_global]
              ELSE Nothing
         [] asked.what = "permitjoin" ->
              IF asked.instance \in {<<>>, Instance[h]}
              THEN [act |-> "permitjoin", seconds |-> Min({asked.seconds, 254})] ELSE Nothing
         [] asked.what = "directjoin" ->
              IF asked.instance = Instance[h]
              THEN [act |-> "directjoin", device |-> asked.device] ELSE Nothing

\* No topic belongs to two prefixes, or to two instances of one: of different prefixes none
\* begins another, and none looks like the topics of a hub without a prefix.
Apart ==
  /\ \A h, g \in Hubs : Prefix[h] # <<>> /\ Prefix[g] # Prefix[h] =>
       /\ Prefix[h][1] \notin DOMAIN AsHex \cup {"control", "report"}
       /\ Prefix[g] # <<>> => ~IsPrefix(Prefix[h], Prefix[g])
  /\ \A h, g \in Hubs : WithSlash(Instance[h]) = WithSlash(Instance[g]) =>
       Instance[h] = Instance[g]

\* The names of a cluster's commands differ from those of the global commands, which
\* are looked up first, and from those of the other direction.
Names(entries) == {Documented(e.data) : e \in entries}
DistinctNames ==
  \A c \in Clusters(file) :
    LET to == Names(CommandsOf(c, "clientToServer"))
        from == Names(CommandsOf(c, "serverToClient"))
    IN to \cap from = {} /\ (to \cup from) \cap Names(Globals(file)) = {}

\* Something is left of every name without its slashes: no level of a topic may be empty.
NamesLeft ==
  \A c \in Clusters(file) :
    <<>> \notin Names({c} \cup Globals(file) \cup CommandsOf(c, "clientToServer"))

\* A message of a user makes the hubs that are meant, and no others, do what is asked,
\* in the long form and in the short form ("is the same as publishing to", documentation/
\* mqtt-topics.md); no message of a hub makes this or another hub do anything, so a report
\* of permitjoin does not lead to another permitjoin.
ActsAsAsked ==
  DistinctNames /\ NamesLeft /\ (asked # Nothing => wire = <<>>) =>
    \A h \in Hubs : acts[h] = Wanted(h)

\* What two levels of a topic stand for, by the file.
Readings(cluster_name, command_name) ==
  UNION {{<<Id(c.key), Id(k.key), k \in Globals(file)>> :
            k \in {x \in Globals(file) \cup CommandsOf(c, "serverToClient")
                                    \cup CommandsOf(c, "clientToServer") :
                    Documented(x.data) = command_name}} :
         c \in {x \in Clusters(file) : Documented(x.data) = cluster_name}}

\* Who reads the topic of a command learns which device sent it, from which endpoint, and
\* which command of which cluster, and no two commands share a topic.
TopicsNameTheFrame ==
  LET levels(m) == Levels(Rest(m.topic, Prefix[frame.hub]))
  IN frame # Nothing /\ DistinctNames =>
       \A m \in Range(wire) : levels(m)[2] # <<"linkquality">> =>
         /\ AsHex[levels(m)[1][1]] = frame.device
         /\ AsDecimal[levels(m)[2][1]] = frame.endpoint
         /\ Readings(levels(m)[4], levels(m)[5])
              = {<<frame.cluster, frame.command, frame.is_global>>}
=============================================================================
