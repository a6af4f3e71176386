------------------------------ MODULE ClusterDb -----------------------------
(***************************************************************************)
(* The database of clusters (clusterdb/): what is made of clusters.info, and *)
(* the lookups of main.                                                     *)
(*                                                                         *)
(* A text is a sequence of tokens: words, numerals, "/", and the prefixes     *)
(* "repeated:" etc. of a type.  A property tree is a sequence of entries      *)
(* [key, data, sub] of two texts and the tree below.  A list is read one      *)
(* entry after the other; what is refused ends the program, so it does not    *)
(* matter which of the entries is refused first.                            *)
(***************************************************************************)
EXTENDS Naturals, Sequences, SequencesExt, FiniteSets, Functions, Lists

CONSTANTS
  Datatypes,       \* the names of zcl::DataType
  AsAny,           \* numeral -> number, as read in base 0 (a leading 0x counts)
  MaxId8, MaxId16,
  ObjectType(_)    \* what is made of the arguments of a command, or Refused
                   \* (ParseObjectType of ClusterTypes.tla)

ASSUME IdAssumption == MaxId8 \in Nat /\ MaxId16 \in Nat /\ MaxId8 <= MaxId16

Refused == [refused |-> TRUE]   \* false was returned, or an exception thrown
Nothing == [nothing |-> TRUE]   \* boost::none

MakeNameSafeForMqtt(name) == Selected(name, Range(name) \ {"/"})

-----------------------------------------------------------------------------
(* SearchableList: its items, no two of them with the same id or name.       *)

\* Mutant: a name may be given twice.
AddableById(items, item) == \A x \in items : x.id # item.id

Addable(items, item) == \A x \in items : x.id # item.id /\ x.name # item.name

AddAll(items) ==
  IF /\ Refused \notin Range(items)
     /\ \A i \in DOMAIN items : Addable({items[j] : j \in 1 .. i - 1}, items[i])
  THEN [items |-> Range(items)] ELSE Refused

FindByName(list, name) ==
  IF \E x \in list.items : x.name = name
  THEN CHOOSE x \in list.items : x.name = name ELSE Nothing
FindById(list, id) ==
  IF \E x \in list.items : x.id = id
  THEN CHOOSE x \in list.items : x.id = id ELSE Nothing

-----------------------------------------------------------------------------
(* Parsing.                                                                 *)

Directions == {"serverToClient", "clientToServer"}

\* Whole text a number, within the width of the id.
IsId(text, max) == Len(text) = 1 /\ text[1] \in DOMAIN AsAny /\ AsAny[text[1]] <= max
Id(text) == AsAny[text[1]]

\* What is below those entries of a tree, which go to the same list.
Below(tree, entries) ==
  FlattenSeq([i \in DOMAIN tree |-> IF tree[i] \in entries THEN tree[i].sub ELSE <<>>])

ParseCommand(is_global, entry) ==
  IF ~IsId(entry.key, MaxId8) \/ ObjectType(entry.sub) = Refused THEN Refused
  ELSE [id |-> Id(entry.key), name |-> MakeNameSafeForMqtt(entry.data),
        is_global |-> is_global, data |-> ObjectType(entry.sub)]

ParseCommandList(is_global, tree) ==
  AddAll([i \in DOMAIN tree |-> ParseCommand(is_global, tree[i])])

\* The type of an attribute may be left out, and is only checked; the first one counts.
HasDatatype(entry) ==
  LET types == {i \in DOMAIN entry.sub : entry.sub[i].key = <<"type">>}
  IN \A i \in types : (\A j \in types : i <= j) => entry.sub[i].data \in {<<d>> : d \in Datatypes}

ParseAttribute(entry) ==
  IF ~IsId(entry.key, MaxId16) \/ ~HasDatatype(entry) THEN Refused
  ELSE [id |-> Id(entry.key), name |-> MakeNameSafeForMqtt(entry.data)]

ParseAttributeList(tree) == AddAll([i \in DOMAIN tree |-> ParseAttribute(tree[i])])

AttributeParts(tree) == {s \in Range(tree) : s.key = <<"attributes">>}
CommandParts(tree, direction) ==
  {s \in Range(tree) : s.key = <<"commands">> /\ s.data = <<direction>>}

ParseClusterInfo(entry) ==
  LET tree       == entry.sub
      attributes == ParseAttributeList(Below(tree, AttributeParts(tree)))
      commands   == [d \in Directions |-> ParseCommandList(FALSE, Below(tree, CommandParts(tree, d)))]
      parts      == AttributeParts(tree) \cup UNION {CommandParts(tree, d) : d \in Directions}
  IN IF \/ ~IsId(entry.key, MaxId16) \/ Range(tree) \ parts # {}
        \/ attributes = Refused \/ \E d \in Directions : commands[d] = Refused
     THEN Refused
     ELSE [id |-> Id(entry.key), name |-> MakeNameSafeForMqtt(entry.data),
           attributes |-> attributes, commands |-> commands]

GlobalParts(tree) == {e \in Range(tree) : e.key = <<"global">>}

ParseFromPTree(tree) ==
  LET global_commands == ParseCommandList(TRUE, Below(tree, GlobalParts(tree)))
      others   == Selected(tree, Range(tree) \ GlobalParts(tree))
      clusters == AddAll([i \in DOMAIN others |-> ParseClusterInfo(others[i])])
  IN IF Refused \in {global_commands, clusters} THEN Refused
     ELSE [clusters |-> clusters, global_commands |-> global_commands]

-----------------------------------------------------------------------------
(* Lookups.                                                                 *)

ClusterByName(db, name) == FindByName(db.clusters, name)
ClusterById(db, id)     == FindById(db.clusters, id)

\* The global commands first.
CommandByName(db, cluster_id, direction, name) ==
  LET global  == FindByName(db.global_commands, name)
      cluster == ClusterById(db, cluster_id)
  IN IF global # Nothing THEN global
     ELSE IF cluster = Nothing THEN Nothing ELSE FindByName(cluster.commands[direction], name)

CommandById(db, cluster_id, id, is_global, direction) ==
  LET cluster == ClusterById(db, cluster_id)
  IN IF is_global THEN FindById(db.global_commands, id)
     ELSE IF cluster = Nothing THEN Nothing ELSE FindById(cluster.commands[direction], id)
=============================================================================
