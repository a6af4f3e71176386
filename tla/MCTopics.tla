------------------------------ MODULE MCTopics ------------------------------
(* Files, hubs and numerals for the run of Topics.                          *)
EXTENDS ClusterTypes, TLC

E(key, data, sub) == [key |-> key, data |-> data, sub |-> sub]
Leafs(pairs) == [i \in DOMAIN pairs |-> E(pairs[i][1], <<pairs[i][2]>>, <<>>)]

GlobalPart == E(<<"global">>, <<"commands">>,
  <<E(<<"0x00">>, <<"Read Attributes">>, Leafs(<<<<<<"repeated:", "attribId">>, "attributes">>>>)),
    E(<<"0x01">>, <<"Read Attributes Response">>,
      <<E(<<"repeated:", "object">>, <<"records">>,
          Leafs(<<<<<<"attribId">>, "Attribute identifier">>,
                  <<<<"error_or:", "variant">>, "Attribute value">>>>))>>),
    E(<<"0x0a">>, <<"Report Attributes">>,
      <<E(<<"repeated:", "object">>, <<"reports">>,
          Leafs(<<<<<<"attribId">>, "Attribute identifier">>,
                  <<<<"variant">>, "Attribute data">>>>))>>)>>)

Commands(direction, list) == E(<<"commands">>, <<direction>>, list)
Attribute(name) == E(<<"0x00">>, name, <<E(<<"type">>, <<"uint8">>, <<>>)>>)

Groups == E(<<"0x0004">>, <<"Groups">>,
  <<Commands("clientToServer",
      <<E(<<"0x00">>, <<"Add group">>, Leafs(<<<<<<"uint8">>, "Group ID">>>>)),
        E(<<"0x01">>, <<"Enroll", "/", "Join">>,
          Leafs(<<<<<<"arr8:", "uint8">>, "Group list">>>>))>>),
    Commands("serverToClient",
      <<E(<<"0x00">>, <<"Add group response">>,
          <<E(<<"uint8">>, <<"Status", "/", "code">>, <<>>)>>)>>)>>)

Switch(name, commands) == E(<<"0x0006">>, name,
  <<E(<<"attributes">>, <<>>, <<Attribute(<<"On", "Off">>)>>),
    Commands("clientToServer", commands)>>)
Off == E(<<"0x00">>, <<"Off">>, <<>>)
OnOff == Switch(<<"On", "/", "Off">>, <<Off, E(<<"0x01">>, <<"On">>, <<>>)>>)

Good == <<GlobalPart, Groups, OnOff>>
\* The same name twice, once the slash is gone; nothing left of a name; the same id; names
\* of the global commands.
MCFiles == {Good,
  <<OnOff, E(<<"0x0004">>, <<"On", "Off">>,
             <<Commands("clientToServer", <<E(<<"0x01">>, <<"Off">>, <<>>)>>)>>)>>,
  <<Switch(<<"OnOff">>, <<Off, E(<<"0x04">>, <<"/", "Off">>, <<>>)>>)>>,
  <<Switch(<<"OnOff">>, <<Off, E(<<"0x04">>, <<"/">>, <<>>)>>)>>,
  <<Switch(<<"OnOff">>, <<Off, E(<<"0">>, <<"On">>, <<>>)>>)>>,
  <<GlobalPart, Switch(<<"OnOff">>, <<E(<<"0x04">>, <<"Read Attributes">>, <<>>)>>)>>,
  <<Switch(<<"OnOff">>, <<E(<<"0x100">>, <<"On">>, <<>>)>>)>>,
  <<E(<<"0x10000">>, <<"Groups">>, <<>>)>>,
  <<Switch(<<"OnOff">>, <<E(<<"0x00">>, <<"On">>, Leafs(<<<<<<"uint7">>, "Time">>>>))>>)>>,
  <<E(<<"0x0006">>, <<"OnOff">>, <<Commands("both", <<Off>>)>>)>>}

MCHubs == {"house", "garden", "bare"}
MCPrefix == [h \in MCHubs |-> IF h = "bare" THEN <<>> ELSE <<"AqaraHub", "/">>]
MCInstance == [h \in MCHubs |-> IF h = "bare" THEN <<>> ELSE <<h>>]
MCJoined == [h \in MCHubs |-> CASE h = "house" -> {1, 16} [] h = "garden" -> {10}
                               [] h = "bare" -> {2}]

MCEndpoints == {1, 16}
MCSeconds == {0, 60, 254, 255}
MCDecimal == 0 :> "0" @@ 1 :> "1" @@ 16 :> "16" @@ 60 :> "60" @@ 254 :> "254" @@ 255 :> "255"
MCHex16 == 1 :> "0000000000000001" @@ 2 :> "0000000000000002" @@ 10 :> "000000000000000A"
           @@ 16 :> "0000000000000010"
MCHex4 == 0 :> "0x0000" @@ 5 :> "0x0005"
MCAsDecimal == [t \in Range(MCDecimal) |-> CHOOSE n \in DOMAIN MCDecimal : MCDecimal[n] = t]
MCAsHex == [t \in Range(MCHex16) |-> CHOOSE n \in DOMAIN MCHex16 : MCHex16[n] = t]
           @@ "1" :> 1 @@ "10" :> 16 @@ "16" :> 22 @@ "a" :> 10
MCAsAny == MCAsDecimal @@ "0x00" :> 0 @@ "0x01" :> 1 @@ "0x04" :> 4 @@ "0x0a" :> 10
           @@ "0x0004" :> 4 @@ "0x0006" :> 6 @@ "0x100" :> 256 @@ "0x10000" :> 65536

ASSUME ApartAssumption == Apart

\* What frames may decode to, with all of its parts, and null.
Databases == {ParseFromPTree(tree) : tree \in MCFiles} \ {Refused}
Decodable ==
  UNION {UNION {Decodings(c, k.data) :
                  k \in d.global_commands.items
                         \cup UNION {c.commands[x].items : x \in Directions}} :
           <<d, c>> \in {<<x, y>> \in Databases \X UNION {d.clusters.items : d \in Databases} :
                          y \in x.clusters.items}}
AndParts(values) ==
  values \cup UNION {{v.obj[i][2] : i \in DOMAIN v.obj} : v \in {w \in values : "obj" \in DOMAIN w}}
         \cup UNION {Range(v.arr) : v \in {w \in values : "arr" \in DOMAIN w}}
MCValues == {[null |-> TRUE]} \cup AndParts(AndParts(AndParts(AndParts(Decodable))))
=============================================================================
