---------------------------- MODULE ClusterTypes ----------------------------
(***************************************************************************)
(* The types of arguments in clusters.info, as cluster_db.cpp reads them, and *)
(* which JSON values Decode may return for one: the recursive definitions    *)
(* that the constants ObjectType of ClusterDb.tla and Decoded of Topics.tla   *)
(* stand for.                                                               *)
(***************************************************************************)
EXTENDS Topics

\* One entry after the other, until one is refused.
ParseEach(parse(_, _), start, tree) ==
  FoldLeft(LAMBDA acc, entry : IF acc = Refused THEN Refused ELSE parse(acc, entry),
           start, tree)

LengthSize == [word \in {"repeated:", "arr8:", "arr16:"} |->
                 CASE word = "repeated:" -> 0 [] word = "arr8:" -> 1 [] word = "arr16:" -> 2]

RECURSIVE ParseType(_, _)
ParseObjectType(tree) ==
  LET property(acc, entry) ==
        LET type == ParseType(entry.key, entry.sub)
            name == MakeNameSafeForMqtt(entry.data)
        IN IF type = Refused THEN Refused
           ELSE [acc EXCEPT !.properties = Append(@, [name |-> name, type |-> type])]
  IN ParseEach(property, [t |-> "object", properties |-> <<>>], tree)

ParseType(type_name, tree) ==
  LET word == Head(type_name)
      rest == ParseType(Tail(type_name), tree)
  IN CASE type_name = <<>> -> Refused
       [] type_name # <<>> /\ word \in DOMAIN LengthSize ->
            IF rest = Refused THEN Refused
            ELSE [t |-> "repeated", length_size |-> LengthSize[word], element_type |-> rest]
       [] type_name # <<>> /\ word = "error_or:" ->
            IF rest = Refused THEN Refused ELSE [t |-> "error_or", success_type |-> rest]
       [] type_name = <<"object">> -> ParseObjectType(tree)
       [] type_name = <<"variant">> -> [t |-> "variant"]
       [] type_name # <<>> /\ word \in Datatypes /\ Len(type_name) = 1 -> [t |-> word]
       [] OTHER -> Refused

-----------------------------------------------------------------------------

\* A number, whichever.
SomeNumber == Num(CHOOSE n \in DOMAIN Hex4 : TRUE)

\* What Decode may return for a type, an unknown attribute and an empty or a longer
\* list among it (the values themselves are those of DynamicEncoding).
RECURSIVE Decodings(_, _)
Decodings(cluster, type) ==
  LET known == cluster.attributes.items
      put(objects, p) ==
        {Append(o, <<p.name, v>>) : o \in objects, v \in Decodings(cluster, p.type)}
  IN CASE type.t = "object" ->
            {Object(o) : o \in FoldLeft(put, {<<>>}, type.properties)}
       [] type.t = "repeated" ->
            LET e == Decodings(cluster, type.element_type)
            IN {Array(<<>>)} \cup {Array(<<v, CHOOSE w \in e : TRUE>>) : v \in e}
       [] type.t = "error_or" ->
            {Object(<<<<<<"error">>, SomeNumber>>>>)}
              \cup {Object(<<<<<<"success">>, v>>>>) :
                      v \in Decodings(cluster, type.success_type)}
       [] type.t = "variant" ->
            {Object(<<<<<<"type">>, Leaf(<<"uint8">>)>>, <<<<"value">>, SomeNumber>>>>)}
       [] type.t = "attribId" ->
            {Leaf(a.name) : a \in known} \cup {Num(n) : n \in DOMAIN Hex4 \ {a.id : a \in known}}
       [] OTHER -> {SomeNumber}
=============================================================================
