------------------------- MODULE MqttWrapperProofs --------------------------
(***************************************************************************)
(* Theorems about MqttWrapper.tla, for any messages, topics, packet ids and  *)
(* number of sessions that end.                                            *)
(***************************************************************************)
EXTENDS MqttWrapper, ListLemmas

-----------------------------------------------------------------------------
(* The inductive invariant.                                                 *)

Wakes       == [kind : {"timer"}, aborted : {FALSE}]
Downs       == [kind : {"error", "finish"}]
Finishes    == [kind : {"finish"}]
ConnAcks    == [kind : {"connack"}, accepted : BOOLEAN]
Acceptances == [kind : {"connack"}, accepted : {TRUE}]
Acks        == [kind : {"puback", "pubcomp"}, id : PacketIds]

Pending(T) == Range(tasks) \cap T # {}

\* The reconnect timer runs, or its task or one of the end of the session waits,
\* only while there is no session; it wakes the wrapper once, and nothing of the
\* session that ended is still to be handled then.
TimerInv ==
  /\ reconnect_timer_ = "armed" \/ Pending(Wakes) \/ Pending(Downs) => session = "none"
  /\ Pending(Wakes) =>
       /\ reconnect_timer_ = "off" /\ state_ = "Disconnected"
       /\ ~Pending(Downs) /\ ~Pending(ConnAcks) /\ ~Pending(Acks)
  /\ NoneAfter(tasks, Wakes, Wakes)

\* What state_ says of the session is wrong only while the task that corrects it
\* waits, and the CONNACK of a session comes before its end.
StateInv ==
  /\ NoneAfter(tasks, Downs, ConnAcks)
  /\ session = "none" => \/ Pending(Finishes)
                         \/ /\ state_ = "Disconnected" /\ ~Pending(ConnAcks)
                            /\ reconnect_timer_ = "armed" \/ Pending(Wakes)
  /\ session = "connecting" => ~Pending(ConnAcks)
  /\ session = "open" => /\ Range(tasks) \cap ConnAcks \subseteq Acceptances
                         /\ Pending(Acceptances) \/ state_ = "Connected"
  /\ state_ = "Connected" => publish_queue_ = <<>>
  /\ wire # <<>> => session = "open"

\* A packet id that is on the wire, or whose acknowledgement waits, belongs to the
\* present session, and publish_inprogress_ has the message of that packet for it.
IdInv ==
  /\ \A p \in Range(wire) \cap PublishPackets :
       IF Qos[p.item] = 0 THEN p.id = 0
       ELSE /\ p.id \in acquired
            /\ p.id \in DOMAIN publish_inprogress_ =>
                 publish_inprogress_[p.id] = p.item
  /\ \A t \in Range(tasks) \cap Acks :
       /\ t.id \in acquired
       /\ t.id \in DOMAIN publish_inprogress_ =>
            publish_inprogress_[t.id] \in received

IInv == TypeOK /\ TimerInv /\ StateInv /\ IdInv

-----------------------------------------------------------------------------
(* Operators of the model.                                                  *)

\* The messages of two lists of tasks or packets, one behind the other.
LEMMA ItemsOfConcat ==
  ASSUME NEW S, NEW s \in Seq(S), NEW t \in Seq(S)
  PROVE  ItemsOf(s \o t) = ItemsOf(s) \o ItemsOf(t)
<1> DEFINE I == {x.item : x \in S}
           a == ItemsOf(s)
           b == ItemsOf(t)
           u == s \o t
           m == Len(s)
           n == Len(t)
<1>1. /\ m \in Nat /\ DOMAIN s = 1 .. m
      /\ n \in Nat /\ DOMAIN t = 1 .. n
      /\ u \in Seq(S) /\ Len(u) = m + n /\ DOMAIN u = 1 .. m + n
  BY ConcatProperties, LenProperties
<1>2. \A i \in 1 .. m + n : u[i] = IF i <= m THEN s[i] ELSE t[i - m]
  BY ConcatProperties
<1>3. /\ \A i \in 1 .. m : s[i] \in S
      /\ \A i \in 1 .. n : t[i] \in S
  BY ElementOfSeq
<1>4. /\ ItemsOf(u) = [i \in 1 .. m + n |-> u[i].item]
      /\ a = [i \in 1 .. m |-> s[i].item]
      /\ b = [i \in 1 .. n |-> t[i].item]
  BY <1>1 DEF ItemsOf
<1> HIDE DEF I, a, b, u, m, n
<1>5. a \in [1 .. m -> I] /\ b \in [1 .. n -> I]
  BY <1>3, <1>4 DEF I
<1>6. a \in Seq(I) /\ b \in Seq(I)
  BY <1>1, <1>5, SeqDef
<1>7. Len(a) = m /\ Len(b) = n
  BY <1>1, <1>5, <1>6, LenProperties
<1>8. /\ a \o b \in Seq(I) /\ Len(a \o b) = m + n
      /\ \A i \in 1 .. m + n : (a \o b)[i] = IF i <= m THEN a[i] ELSE b[i - m]
  BY <1>6, <1>7, ConcatProperties
<1>9. a \o b = [i \in 1 .. m + n |-> (a \o b)[i]]
  BY <1>8, LenProperties
<1>10. ASSUME NEW i \in 1 .. m + n
       PROVE  u[i].item = (a \o b)[i]
  <2>1. CASE i <= m
    BY <2>1, <1>1, <1>2, <1>4, <1>8
  <2>2. CASE ~(i <= m)
    <3>1. i - m \in 1 .. n
      BY <2>2, <1>1
    <3> QED BY <2>2, <3>1, <1>2, <1>4, <1>8
  <2> QED BY <2>1, <2>2
<1> QED BY <1>4, <1>9, <1>10 DEF a, b, u

\* What is published in a list of tasks or packets is a list of messages.
LEMMA PublishedType ==
  ASSUME NEW S, NEW s \in Seq(S)
  PROVE  /\ PublishedIn(s) \in Seq(Items)
         /\ Range(PublishedIn(s)) \subseteq Items
<1> DEFINE T == PublishTasks \cup PublishPackets
           u == Selected(s, T)
<1>1. u \in Seq(S \cap T)
  BY SelectedType
<1>2. \A i \in 1 .. Len(u) : u[i] \in T
  BY <1>1, ElementOfSeq
<1>3. DOMAIN u = 1 .. Len(u) /\ Len(u) \in Nat
  BY <1>1, LenProperties
<1>4. \A x \in T : x.item \in Items
  BY DEF PublishTasks, PublishPackets
<1> HIDE DEF T, u
<1>5. ItemsOf(u) \in [1 .. Len(u) -> Items]
  BY <1>2, <1>3, <1>4 DEF ItemsOf
<1>6. ItemsOf(u) \in Seq(Items)
  BY <1>3, <1>5, SeqDef
<1>7. Range(ItemsOf(u)) \subseteq Items
  BY <1>6, RangeElement
<1> QED BY <1>6, <1>7 DEF PublishedIn, u, T

\* The messages of the tasks grow and shrink as the tasks do.
LEMMA PublishedConcat ==
  ASSUME NEW S, NEW s \in Seq(S), NEW t \in Seq(S)
  PROVE  PublishedIn(s \o t) = PublishedIn(s) \o PublishedIn(t)
<1> DEFINE T == PublishTasks \cup PublishPackets
<1>1. Selected(s \o t, T) = Selected(s, T) \o Selected(t, T)
  BY SelectedConcat
<1>2. Selected(s, T) \in Seq(S \cap T) /\ Selected(t, T) \in Seq(S \cap T)
  BY SelectedType
<1> HIDE DEF T
<1>3. ItemsOf(Selected(s \o t, T)) = ItemsOf(Selected(s, T)) \o ItemsOf(Selected(t, T))
  BY <1>1, <1>2, ItemsOfConcat
<1> QED BY <1>3 DEF PublishedIn, T

\* Where nothing is published there is no message.
LEMMA PublishedNone ==
  ASSUME NEW S, NEW s \in Seq(S),
         \A x \in Range(s) : x.kind # "publish"
  PROVE  PublishedIn(s) = <<>>
<1> DEFINE T == PublishTasks \cup PublishPackets
<1>1. Range(s) \cap T = {}
  BY DEF PublishTasks, PublishPackets
<1>2. Selected(s, T) = <<>>
  BY <1>1, SelectedNone
<1>3. ItemsOf(<<>>) = <<>>
  BY DEF ItemsOf
<1> QED BY <1>2, <1>3 DEF PublishedIn

\* The task at the front is the first of the published messages, or none of them.
LEMMA PublishedHead ==
  ASSUME NEW s \in Seq(Tasks), s # <<>>
  PROVE  PublishedIn(s) =
           (IF Head(s).kind = "publish" THEN <<Head(s).item>> ELSE <<>>)
             \o PublishedIn(Tail(s))
<1> DEFINE T == PublishTasks \cup PublishPackets
           h == Head(s)
           front == IF h \in T THEN <<h>> ELSE <<>>
<1>1. h \in Tasks /\ Tail(s) \in Seq(Tasks)
  BY HeadTail
<1>2. h \in T <=> h.kind = "publish"
  BY <1>1 DEF Tasks, PublishTasks, PublishPackets
<1>3. Selected(s, T) = front \o Selected(Tail(s), T)
  BY SelectedHead
<1>4. Selected(Tail(s), T) \in Seq(Tasks \cap T)
  BY <1>1, SelectedType
<1>5. front \in Seq(Tasks \cap T)
  <2> HIDE DEF T, h
  <2>1. h \in T => <<h>> \in Seq(Tasks \cap T)
    BY <1>1
  <2> QED BY <2>1, EmptySeq
<1>6. ItemsOf(front) = IF h \in T THEN <<h.item>> ELSE <<>>
  BY DEF ItemsOf
<1> HIDE DEF T, h, front
<1>7. ItemsOf(Selected(s, T)) = ItemsOf(front) \o ItemsOf(Selected(Tail(s), T))
  BY <1>3, <1>4, <1>5, ItemsOfConcat
<1> QED BY <1>2, <1>6, <1>7 DEF PublishedIn, T, h

-----------------------------------------------------------------------------
(* What the handlers do to the tasks, to the wire and to the callbacks.      *)

SendErrors == [kind : {"senterror"}, id : PacketIds]

\* The tasks the handlers themselves post: failed writes and aborted waits.
OwnTasks == SendErrors \cup [kind : {"timer"}, aborted : {TRUE}]

\* Packets that fail leave a task for each of their ids.
LEMMA ErrorsType ==
  ASSUME NEW packets \in Seq(Packets)
  PROVE  Errors(packets) \in Seq(SendErrors)
<1> DEFINE T == [kind : {"publish"}, item : Items, id : PacketIds]
           failing == Selected(packets, T)
<1>1. failing \in Seq(Packets \cap T)
  BY SelectedType
<1>2. DOMAIN failing = 1 .. Len(failing) /\ Len(failing) \in Nat
  BY <1>1, LenProperties
<1>3. \A k \in 1 .. Len(failing) : failing[k].id \in PacketIds
  <2>1. \A k \in 1 .. Len(failing) : failing[k] \in T
    BY <1>1, ElementOfSeq
  <2> HIDE DEF failing
  <2> QED BY <2>1
<1> HIDE DEF failing, T
<1>4. [k \in DOMAIN failing |-> [kind |-> "senterror", id |-> failing[k].id]]
        \in [1 .. Len(failing) -> SendErrors]
  BY <1>2, <1>3 DEF SendErrors
<1>5. [k \in DOMAIN failing |-> [kind |-> "senterror", id |-> failing[k].id]]
        \in Seq(SendErrors)
  BY <1>2, <1>4, SeqDef
<1> QED BY <1>5 DEF Errors, failing, T

\* Packets that fail never make a callback report success.
LEMMA FailType ==
  ASSUME TypeOK, NEW packets
  PROVE  /\ Fail(packets) \in [Items -> {"nothing", "ok", "failed"}]
         /\ \A i \in Items : Fail(packets)[i] = "ok" => told[i] = "ok"
BY DEF Fail, TypeOK

\* Packets given to the client are on the wire behind the others, or fail: a callback
\* is told of a failure at once, or a task that will tell it is posted.
LEMMA ToClientEffect ==
  ASSUME TypeOK, tasks # <<>>, NEW packets \in Seq(Packets), ToClient(packets)
  PROVE  /\ wire' \in Seq(Packets) /\ written \in 0 .. Len(wire')
         /\ session # "open" => wire' = wire
         /\ session = "open" => wire' = wire \o packets
         /\ told' \in [Items -> {"nothing", "ok", "failed"}]
         /\ \A i \in Items : told'[i] = "ok" => told[i] = "ok"
         /\ \E new \in Seq(OwnTasks) : tasks' = Tail(tasks) \o new
<1>1. Tail(tasks) \in Seq(Tasks)
  BY HeadTail DEF TypeOK
<1>2. CASE session = "open"
  <2>1. wire \o packets \in Seq(Packets) /\ written \in 0 .. Len(wire \o packets)
    <3>1. wire \in Seq(Packets) /\ written \in 0 .. Len(wire)
      BY DEF TypeOK
    <3>2. Len(wire) \in Nat /\ Len(packets) \in Nat
      BY <3>1, LenProperties
    <3> QED BY <3>1, <3>2, ConcatProperties
  <2>2. tasks' = Tail(tasks) \o <<>> /\ <<>> \in Seq(OwnTasks)
    BY <1>1, <1>2, EmptySeq, ConcatEmptySeq DEF ToClient
  <2> QED BY <1>2, <2>1, <2>2 DEF ToClient, TypeOK
<1>3. CASE session # "open"
  <2>1. Errors(packets) \in Seq(OwnTasks)
    <3>1. Errors(packets) \in Seq(SendErrors) /\ SendErrors \subseteq OwnTasks
      BY ErrorsType DEF OwnTasks
    <3> HIDE DEF SendErrors, OwnTasks, Errors
    <3> QED BY <3>1
  <2>2. tasks' = Tail(tasks) \o Errors(packets) /\ told' = Fail(packets) /\ wire' = wire
    BY <1>3 DEF ToClient
  <2> QED BY <1>3, <2>1, <2>2, FailType DEF TypeOK
<1> QED BY <1>2, <1>3

\* The packets of one message each, with the ids the client gave them.
LEMMA PacketsType ==
  ASSUME NEW items \in Seq(Items), NEW ids \in [Confirmed(Range(items)) -> PacketIds]
  PROVE  LET more == [k \in DOMAIN items |-> PublishPacket(items[k], ids)]
         IN /\ more \in Seq(PublishPackets)
            /\ \A p \in Range(more) :
                 \/ p.item \in Items \ Confirmed(Range(items)) /\ p.id = 0 /\ Qos[p.item] = 0
                 \/ p.item \in Confirmed(Range(items)) /\ p.id = ids[p.item]
<1> DEFINE more == [k \in DOMAIN items |-> PublishPacket(items[k], ids)]
           C == Confirmed(Range(items))
<1>1. DOMAIN items = 1 .. Len(items) /\ Len(items) \in Nat
  BY LenProperties
<1>2. ASSUME NEW k \in 1 .. Len(items)
      PROVE  /\ PublishPacket(items[k], ids) \in PublishPackets
             /\ PublishPacket(items[k], ids).item = items[k]
             /\ items[k] \in Items
             /\ \/ items[k] \in C /\ PublishPacket(items[k], ids).id = ids[items[k]]
                \/ /\ items[k] \notin C /\ PublishPacket(items[k], ids).id = 0
                   /\ Qos[items[k]] = 0
  <2>1. items[k] \in Items /\ items[k] \in Range(items)
    BY RangeElement, ElementOfSeq
  <2>2. items[k] \notin C => Qos[items[k]] = 0
    BY <2>1, QosAssumption DEF Confirmed
  <2> HIDE DEF C
  <2>3. DOMAIN ids = C
    BY DEF C
  <2>4. items[k] \in C => ids[items[k]] \in PacketIds
    BY DEF C
  <2> QED BY <2>1, <2>2, <2>3, <2>4 DEF PublishPacket, PublishPackets
<1>3. more \in [1 .. Len(items) -> PublishPackets]
  BY <1>1, <1>2
<1>4. more \in Seq(PublishPackets)
  BY <1>1, <1>3, SeqDef
<1>5. ASSUME NEW p \in Range(more)
      PROVE  \/ p.item \in Items \ C /\ p.id = 0 /\ Qos[p.item] = 0
             \/ p.item \in C /\ p.id = ids[p.item]
  <2>1. PICK k \in 1 .. Len(items) : p = PublishPacket(items[k], ids)
    BY <1>1, <1>3 DEF Range
  <2> HIDE DEF C, more
  <2> QED BY <1>2, <2>1
<1> QED BY <1>4, <1>5

\* SafePublish and ConnAckHandler: the messages go to the client in their order,
\* each acknowledged one under an id that nothing of the session has yet.
LEMMA HandOverEffect ==
  ASSUME TypeOK, tasks # <<>>, NEW packets \in Seq(Packets), NEW items \in Seq(Items),
         HandOver(packets, items)
  PROVE  /\ handed' = handed \o items
         /\ acquired \subseteq acquired' /\ acquired' \subseteq PacketIds
         /\ DOMAIN publish_inprogress_' \subseteq PacketIds
         /\ Range(publish_inprogress_') \subseteq Items
         /\ \A id \in acquired :
              id \in DOMAIN publish_inprogress_' =>
                /\ id \in DOMAIN publish_inprogress_
                /\ publish_inprogress_'[id] = publish_inprogress_[id]
         /\ told' \in [Items -> {"nothing", "ok", "failed"}]
         /\ \A i \in Items : told'[i] = "ok" => told[i] = "ok"
         /\ \E new \in Seq(OwnTasks) : tasks' = Tail(tasks) \o new
         /\ session # "open" => wire' = wire
         /\ wire' \in Seq(Packets) /\ written \in 0 .. Len(wire')
         /\ \E more \in Seq(PublishPackets) :
              /\ session = "open" => wire' = wire \o (packets \o more)
              /\ \A p \in Range(more) :
                   IF Qos[p.item] = 0 THEN p.id = 0
                   ELSE p.id \in acquired' /\ publish_inprogress_'[p.id] = p.item
<1> DEFINE C == Confirmed(Range(items))
<1>1. PICK ids \in Acquisitions(C) :
        /\ handed' = handed \o items
        /\ acquired' = acquired \cup Range(ids)
        /\ publish_inprogress_' = KeptInProgress(publish_inprogress_, AntiFunction(ids))
        /\ ToClient(packets \o [k \in DOMAIN items |-> PublishPacket(items[k], ids)])
  BY DEF HandOver
<1> DEFINE more == [k \in DOMAIN items |-> PublishPacket(items[k], ids)]
           anti == AntiFunction(ids)
<1>2. ids \in [C -> PacketIds] /\ Range(ids) \cap acquired = {} /\ IsInjective(ids)
      /\ Range(ids) \subseteq PacketIds
  BY DEF Acquisitions, Range
<1>3. C \subseteq Items /\ \A i \in C : Qos[i] # 0
  BY RangeElement, QosAssumption DEF Confirmed
<1>4. /\ more \in Seq(PublishPackets)
      /\ \A p \in Range(more) :
           \/ p.item \in Items \ C /\ p.id = 0 /\ Qos[p.item] = 0
           \/ p.item \in C /\ p.id = ids[p.item]
  BY <1>2, PacketsType
<1> HIDE DEF more
<1>5. PublishPackets \subseteq Packets
  BY DEF Packets
<1> HIDE DEF C
<1>6. packets \o more \in Seq(Packets)
  <2>1. more \in Seq(Packets)
    BY <1>4, <1>5
  <2> QED BY <2>1, ConcatProperties
<1>7. ToClient(packets \o more)
  BY <1>1 DEF more
<1>8. DOMAIN anti = Range(ids) /\ \A i \in C : ids[i] \in Range(ids) /\ anti[ids[i]] = i
  BY <1>2 DEF AntiFunction, Inverse, IsInjective, Range
<1>9. Range(anti) \subseteq C
  BY <1>2, <1>8 DEF Range
<1> HIDE DEF anti
<1>10. /\ DOMAIN publish_inprogress_' = DOMAIN publish_inprogress_ \cup Range(ids)
       /\ \A id \in DOMAIN publish_inprogress_' :
            publish_inprogress_'[id] = IF id \in Range(ids) THEN anti[id]
                                       ELSE publish_inprogress_[id]
  BY <1>1, <1>8 DEF KeptInProgress, anti
<1>11. DOMAIN publish_inprogress_' \subseteq PacketIds
  BY <1>2, <1>10 DEF TypeOK
<1>12. Range(publish_inprogress_') \subseteq Items
  <2> SUFFICES ASSUME NEW id \in DOMAIN publish_inprogress_'
               PROVE  publish_inprogress_'[id] \in Items
    BY DEF Range
  <2>1. id \in Range(ids) => anti[id] \in Range(anti)
    BY <1>8 DEF Range
  <2>2. id \notin Range(ids) => publish_inprogress_[id] \in Range(publish_inprogress_)
    BY <1>10 DEF Range
  <2>3. Range(publish_inprogress_) \subseteq Items
    BY DEF TypeOK
  <2> QED BY <1>3, <1>9, <1>10, <2>1, <2>2, <2>3
<1>13. \A id \in acquired :
         id \in DOMAIN publish_inprogress_' =>
           /\ id \in DOMAIN publish_inprogress_
           /\ publish_inprogress_'[id] = publish_inprogress_[id]
  BY <1>2, <1>10
<1>14. \A p \in Range(more) :
         IF Qos[p.item] = 0 THEN p.id = 0
         ELSE p.id \in acquired' /\ publish_inprogress_'[p.id] = p.item
  BY <1>1, <1>3, <1>4, <1>8, <1>10
<1>15. /\ wire' \in Seq(Packets) /\ written \in 0 .. Len(wire')
       /\ session # "open" => wire' = wire
       /\ session = "open" => wire' = wire \o (packets \o more)
       /\ told' \in [Items -> {"nothing", "ok", "failed"}]
       /\ \A i \in Items : told'[i] = "ok" => told[i] = "ok"
       /\ \E new \in Seq(OwnTasks) : tasks' = Tail(tasks) \o new
  BY <1>6, <1>7, ToClientEffect
<1>16. acquired \subseteq acquired' /\ acquired' \subseteq PacketIds
  BY <1>1, <1>2 DEF TypeOK
<1> QED BY <1>1, <1>4, <1>11, <1>12, <1>13, <1>14, <1>15, <1>16

\* Each task in turn: it leaves the queue, the handler posts only tasks of its own,
\* and the types are kept.
LEMMA RunTaskEffect ==
  ASSUME TypeOK, RunTask
  PROVE  /\ \E new \in Seq(OwnTasks) : tasks' = Tail(tasks) \o new
         /\ TypeOK'
<1> DEFINE t == Head(tasks)
           Shape == \E new \in Seq(OwnTasks) : tasks' = Tail(tasks) \o new
<1> SUFFICES Shape /\ TypeOK'
  OBVIOUS
<1>1. tasks # <<>> /\ t \in Tasks /\ Tail(tasks) \in Seq(Tasks)
  BY HeadTail DEF RunTask, TypeOK
<1> HIDE DEF t
<1>2. tasks' = Tail(tasks) => Shape
  BY <1>1, EmptySeq, ConcatEmptySeq
<1>3. Shape => tasks' \in Seq(Tasks)
  <2>1. OwnTasks \subseteq Tasks
    BY DEF OwnTasks, SendErrors, Tasks
  <2> SUFFICES ASSUME NEW new \in Seq(OwnTasks), tasks' = Tail(tasks) \o new
               PROVE  tasks' \in Seq(Tasks)
    OBVIOUS
  <2>2. new \in Seq(Tasks)
    BY <2>1
  <2> QED BY <1>1, <2>2, ConcatProperties
<1>4. ASSUME tasks' = Append(Tail(tasks), [kind |-> "timer", aborted |-> TRUE])
      PROVE  Shape
  <2> DEFINE own == [kind |-> "timer", aborted |-> TRUE]
  <2>1. own \in OwnTasks /\ own \in Tasks
    BY DEF OwnTasks, Tasks
  <2> HIDE DEF own
  <2>2. <<own>> \in Seq(OwnTasks)
    BY <2>1
  <2>3. tasks' = Tail(tasks) \o <<own>>
    BY <1>1, <1>4, <2>1, AppendIsConcat DEF own
  <2> QED BY <2>2, <2>3
<1> HIDE DEF Shape
<1>5. CASE t.kind = "publish" /\ SafePublish(t.item)
  <2>1. t.item \in Items
    BY <1>1, <1>5 DEF Tasks
  <2>2. CASE state_ # "Connected"
    <3>1. publish_queue_' \in Seq(Items)
      <4>1. publish_queue_ \in Seq(Items)
        BY DEF TypeOK
      <4>2. Append(publish_queue_, t.item) \in Seq(Items)
        BY <2>1, <4>1, AppendProperties
      <4> QED BY <1>5, <2>2, <4>2 DEF SafePublish
    <3> QED BY <1>2, <1>3, <1>5, <2>2, <3>1 DEF SafePublish, TypeOK
  <2>3. CASE state_ = "Connected"
    <3>1. <<t.item>> \in Seq(Items) /\ <<>> \in Seq(Packets)
      BY <2>1, EmptySeq
    <3>2. HandOver(<<>>, <<t.item>>)
      BY <1>5, <2>3 DEF SafePublish
    <3>3. /\ handed' = handed \o <<t.item>>
          /\ acquired' \subseteq PacketIds
          /\ DOMAIN publish_inprogress_' \subseteq PacketIds
          /\ Range(publish_inprogress_') \subseteq Items
          /\ told' \in [Items -> {"nothing", "ok", "failed"}]
          /\ Shape
          /\ wire' \in Seq(Packets) /\ written \in 0 .. Len(wire')
      BY <1>1, <3>1, <3>2, HandOverEffect DEF Shape
    <3>4. handed' \in Seq(Items)
      BY <3>1, <3>3, ConcatProperties DEF TypeOK
    <3> QED BY <1>3, <1>5, <2>3, <3>3, <3>4 DEF SafePublish, TypeOK
  <2> QED BY <2>2, <2>3
<1>6. CASE t.kind = "subscribe" /\ SafeSubscribe(t.topics)
  <2>1. t.topics \subseteq Topics
    BY <1>1, <1>6 DEF Tasks
  <2>2. CASE state_ # "Connected"
    BY <1>2, <1>3, <1>6, <2>1, <2>2 DEF SafeSubscribe, TypeOK
  <2>3. CASE state_ = "Connected"
    <3>1. <<SubscribeTask(t.topics)>> \in Seq(Packets)
      <4>1. SubscribeTask(t.topics) \in Packets
        BY <2>1 DEF SubscribeTask, Packets
      <4> QED BY <4>1
    <3>2. /\ wire' \in Seq(Packets) /\ written \in 0 .. Len(wire')
          /\ told' \in [Items -> {"nothing", "ok", "failed"}]
          /\ Shape
      BY <1>1, <1>6, <2>3, <3>1, ToClientEffect DEF SafeSubscribe, Shape
    <3> QED BY <1>3, <1>6, <2>1, <3>2 DEF SafeSubscribe, TypeOK
  <2> QED BY <2>2, <2>3
<1>7. CASE t.kind = "connack" /\ ConnAckHandler(t.accepted)
  <2>1. CASE ~t.accepted
    BY <1>2, <1>3, <1>7, <2>1 DEF ConnAckHandler, TypeOK
  <2>2. CASE t.accepted
    <3>1. Resubscribe \in Seq(Packets)
      <4>1. SubscribeTask(subscriptions_) \in Packets
        BY DEF SubscribeTask, Packets, TypeOK
      <4>2. <<SubscribeTask(subscriptions_)>> \in Seq(Packets) /\ <<>> \in Seq(Packets)
        BY <4>1, EmptySeq
      <4> QED BY <4>2 DEF Resubscribe
    <3>2. /\ handed' = handed \o publish_queue_
          /\ acquired' \subseteq PacketIds
          /\ DOMAIN publish_inprogress_' \subseteq PacketIds
          /\ Range(publish_inprogress_') \subseteq Items
          /\ told' \in [Items -> {"nothing", "ok", "failed"}]
          /\ Shape
          /\ wire' \in Seq(Packets) /\ written \in 0 .. Len(wire')
      BY <1>1, <1>7, <2>2, <3>1, HandOverEffect DEF ConnAckHandler, Shape, TypeOK
    <3>3. handed' \in Seq(Items) /\ publish_queue_' \in Seq(Items)
      BY <1>7, <2>2, <3>2, ConcatProperties, EmptySeq DEF TypeOK, ConnAckHandler
    <3> QED BY <1>3, <1>7, <2>2, <3>2, <3>3 DEF ConnAckHandler, TypeOK, States
  <2> QED BY <2>1, <2>2
<1>8. CASE t.kind \in {"error", "finish"} /\ EndHandler
  <2>1. Shape
    BY <1>2, <1>4, <1>8 DEF EndHandler
  <2> QED BY <1>3, <1>8, <2>1 DEF EndHandler, TypeOK, States, client
<1>9. CASE t.kind = "timer" /\ OnReconnectTimer(t.aborted)
  <2>1. /\ wire' \in Seq(Packets) /\ written' \in 0 .. Len(wire')
        /\ connects' \in Nat /\ session' \in Sessions
    <3>1. \/ UNCHANGED <<wire, written, connects, session>>
          \/ /\ wire' = <<>> /\ written' = 0
             /\ connects' = connects + 1 /\ session' = "connecting"
      BY <1>9 DEF OnReconnectTimer
    <3>2. /\ wire \in Seq(Packets) /\ written \in 0 .. Len(wire)
          /\ <<>> \in Seq(Packets) /\ 0 \in 0 .. Len(<<>>)
      BY EmptySeq DEF TypeOK
    <3>3. connects \in Nat /\ session \in Sessions /\ "connecting" \in Sessions
      BY DEF TypeOK, Sessions
    <3>4. wire' \in Seq(Packets) /\ written' \in 0 .. Len(wire')
      BY <3>1, <3>2
    <3> QED BY <3>1, <3>3, <3>4
  <2> QED BY <1>2, <1>3, <1>9, <2>1 DEF OnReconnectTimer, TypeOK
<1>10. ASSUME NEW id, NEW how \in {"ok", "failed"}, id \in DOMAIN publish_inprogress_,
              Tell(id, how)
       PROVE  Shape /\ TypeOK'
  <2>1. /\ DOMAIN publish_inprogress_' \subseteq PacketIds
        /\ Range(publish_inprogress_') \subseteq Items
    <3>1. publish_inprogress_' =
            Restrict(publish_inprogress_, DOMAIN publish_inprogress_ \ {id})
      BY <1>10 DEF Tell
    <3>2. /\ DOMAIN publish_inprogress_' \subseteq DOMAIN publish_inprogress_
          /\ Range(publish_inprogress_') \subseteq Range(publish_inprogress_)
      BY <3>1 DEF Restrict, Range
    <3> QED BY <3>2 DEF TypeOK
  <2>2. told' \in [Items -> {"nothing", "ok", "failed"}]
    BY <1>10 DEF Tell, TypeOK, Range
  <2> QED BY <1>2, <1>3, <1>10, <2>1, <2>2 DEF Tell, TypeOK, client
<1>11. NotFound => Shape /\ TypeOK'
  BY <1>2, <1>3 DEF NotFound, TypeOK, client
<1>12. CASE t.kind = "puback" /\ PublishAcknowledgedHandler(t.id)
  BY <1>10, <1>11, <1>12 DEF PublishAcknowledgedHandler, InProgress
<1>13. CASE t.kind = "pubcomp" /\ PublishCompletedHandler(t.id)
  BY <1>10, <1>11, <1>13 DEF PublishCompletedHandler, InProgress
<1>14. CASE t.kind = "senterror" /\ AsyncPublishCallback(t.id)
  BY <1>10, <1>11, <1>14 DEF AsyncPublishCallback, InProgress
<1> QED BY <1>5, <1>6, <1>7, <1>8, <1>9, <1>12, <1>13, <1>14 DEF RunTask, t

\* What is left of a session when it ends: the tasks of the packets that failed and
\* of the end itself, the finish last.
LEMMA SessionEndsEffect ==
  ASSUME TypeOK, SessionEnds
  PROVE  /\ \E new \in Seq(SendErrors \cup Downs) :
              /\ tasks' = tasks \o new
              /\ [kind |-> "finish"] \in Range(new)
         /\ told' \in [Items -> {"nothing", "ok", "failed"}]
         /\ \A i \in Items : told'[i] = "ok" => told[i] = "ok"
         /\ received \subseteq received' /\ received' \subseteq Items
<1> DEFINE D == SendErrors \cup Downs
           fin == [kind |-> "finish"]
           err == [kind |-> "error"]
<1>1. err \in D /\ fin \in D
  BY DEF Downs
<1>2. \A errs \in Seq(SendErrors) : errs \in Seq(D)
  OBVIOUS
<1> HIDE DEF D, fin, err
<1>3. \A last \in {<<fin>>, <<err, fin>>} : last \in Seq(D) /\ fin \in Range(last)
  <2>1. <<fin>> \in Seq(D) /\ <<err, fin>> \in Seq(D)
    BY <1>1
  <2>2. fin \in Range(<<fin>>) /\ fin \in Range(<<err, fin>>)
    BY DEF Range
  <2> QED BY <2>1, <2>2
<1>4. wire \in Seq(Packets) /\ Len(wire) \in Nat /\ written \in 0 .. Len(wire)
  BY LenProperties DEF TypeOK
<1>5. PICK m \in 0 .. written, last \in {<<fin>>, <<err, fin>>} :
        /\ received' = received \cup Range(PublishedIn(SubSeq(wire, 1, m)))
        /\ told' = Fail(SubSeq(wire, written + 1, Len(wire)))
        /\ tasks' = tasks \o (Errors(SubSeq(wire, written + 1, Len(wire))) \o last)
  BY DEF SessionEnds, fin, err
<1> DEFINE failed == SubSeq(wire, written + 1, Len(wire))
           reached == SubSeq(wire, 1, m)
<1>6. failed \in Seq(Packets) /\ reached \in Seq(Packets)
  <2>1. /\ \A i \in written + 1 .. Len(wire) : i \in 1 .. Len(wire)
        /\ \A i \in 1 .. m : i \in 1 .. Len(wire)
    BY <1>4
  <2>2. \A i \in 1 .. Len(wire) : wire[i] \in Packets
    BY <1>4, ElementOfSeq
  <2> QED BY <1>4, <2>1, <2>2, SubSeqProperties
<1> HIDE DEF failed, reached
<1> DEFINE errors == Errors(failed)
           new == errors \o last
<1>7. errors \in Seq(D)
  BY <1>2, <1>6, ErrorsType
<1>8. tasks' = tasks \o new
  BY <1>5 DEF failed
<1> HIDE DEF errors
<1>9. new \in Seq(D) /\ fin \in Range(new)
  <2>1. last \in Seq(D) /\ fin \in Range(last)
    BY <1>3
  <2> QED BY <1>7, <2>1, ConcatProperties, RangeConcatenation
<1>10. received \subseteq received' /\ received' \subseteq Items
  <2>1. Range(PublishedIn(reached)) \subseteq Items
    BY <1>6, PublishedType
  <2> QED BY <1>5, <2>1 DEF reached, TypeOK
<1>11. /\ told' \in [Items -> {"nothing", "ok", "failed"}]
      /\ \A i \in Items : told'[i] = "ok" => told[i] = "ok"
  BY <1>5, FailType
<1> QED BY <1>8, <1>9, <1>10, <1>11 DEF D, fin

\* The topics of a list of packets are those of the packets in it.
LEMMA TopicsOfRange ==
  ASSUME NEW s
  PROVE  \A x : x \in TopicsIn(s) <=>
                  \E p \in Range(s) : p.kind = "subscribe" /\ x \in p.topics
BY DEF TopicsIn, Range

\* A packet is written: at quality of service 0 its callback is told of a success,
\* and of no other message.
LEMMA WriteCompletesEffect ==
  ASSUME TypeOK, WriteCompletes
  PROVE  /\ written' \in 0 .. Len(wire)
         /\ told' \in [Items -> {"nothing", "ok", "failed"}]
         /\ \A i \in Items : Qos[i] > 0 => told'[i] = told[i]
<1>1. /\ wire \in Seq(Packets) /\ Len(wire) \in Nat /\ written \in 0 .. Len(wire)
      /\ written < Len(wire) /\ written' = written + 1
  BY LenProperties DEF TypeOK, WriteCompletes
<1> DEFINE p == wire[written + 1]
<1>2. told' = IF p.kind = "publish" /\ Qos[p.item] = 0
              THEN [told EXCEPT ![p.item] = "ok"] ELSE told
  BY DEF WriteCompletes
<1> HIDE DEF p
<1>3. told' \in [Items -> {"nothing", "ok", "failed"}]
  BY <1>2 DEF TypeOK
<1>4. \A i \in Items : Qos[i] > 0 => told'[i] = told[i]
  BY <1>2, QosAssumption DEF TypeOK
<1> QED BY <1>1, <1>3, <1>4

\* A packet reaches the broker: its topics are subscribed to, or its message is
\* received and an acknowledgement under an id of the session comes back.
LEMMA BrokerReceivesEffect ==
  ASSUME TypeOK, IdInv, BrokerReceives
  PROVE  /\ wire' \in Seq(Packets) /\ Range(wire') \subseteq Range(wire)
         /\ written' \in 0 .. Len(wire')
         /\ \E new \in Seq(Acks) :
              /\ tasks' = tasks \o new
              /\ \A t \in Range(new) :
                   /\ t.id \in acquired
                   /\ t.id \in DOMAIN publish_inprogress_ =>
                        publish_inprogress_[t.id] \in received'
         /\ received \subseteq received' /\ received' \subseteq Items
         /\ subscribed' \subseteq Topics
         /\ subscribed \cup TopicsIn(wire) \subseteq subscribed' \cup TopicsIn(wire')
<1> DEFINE p == Head(wire)
<1>1. /\ wire \in Seq(Packets) /\ session = "open" /\ wire' = Tail(wire)
      /\ written \in 0 .. Len(wire) /\ written > 0 /\ written' = written - 1
      /\ tasks \in Seq(Tasks)
  BY DEF BrokerReceives, TypeOK
<1>2. /\ p \in Packets /\ wire' \in Seq(Packets)
      /\ Range(wire) = {p} \cup Range(wire')
      /\ written' \in 0 .. Len(wire')
  <2>1. Len(wire) \in Nat /\ Len(wire) # 0
    BY <1>1, LenProperties
  <2>2. wire # <<>>
    BY <2>1, EmptySeq
  <2>3. /\ p \in Packets /\ wire' \in Seq(Packets)
        /\ Range(wire) = {p} \cup Range(wire')
        /\ Len(wire') = Len(wire) - 1
    BY <1>1, <2>2, HeadTail
  <2> QED BY <1>1, <2>1, <2>3
<1>3. \A x \in TopicsIn(wire) : \/ x \in TopicsIn(wire')
                                \/ p.kind = "subscribe" /\ x \in p.topics
  BY <1>2, TopicsOfRange
<1>4. IF p.kind = "subscribe"
      THEN subscribed' = subscribed \cup p.topics /\ UNCHANGED <<tasks, received>>
      ELSE /\ received' = received \cup {p.item}
           /\ tasks' = IF Qos[p.item] = 0 THEN tasks ELSE Append(tasks, Acknowledge(p))
           /\ UNCHANGED subscribed
  BY DEF BrokerReceives
<1> HIDE DEF p
<1>5. tasks = tasks \o <<>> /\ <<>> \in Seq(Acks) /\ Range(<<>>) = {}
  BY <1>1, ConcatEmptySeq, EmptySeq DEF Range
<1>6. CASE p.kind = "subscribe"
  <2>1. p.topics \subseteq Topics
    BY <1>2, <1>6 DEF Packets, PublishPackets
  <2>2. subscribed' = subscribed \cup p.topics /\ UNCHANGED <<tasks, received>>
    BY <1>4, <1>6
  <2>3. subscribed \cup TopicsIn(wire) \subseteq subscribed' \cup TopicsIn(wire')
    BY <1>3, <2>2
  <2>4. subscribed' \subseteq Topics /\ received' \subseteq Items
    BY <2>1, <2>2 DEF TypeOK
  <2> QED BY <1>2, <1>5, <2>2, <2>3, <2>4
<1>7. CASE p.kind # "subscribe"
  <2>1. p \in PublishPackets /\ p.item \in Items
    BY <1>2, <1>7 DEF Packets, PublishPackets
  <2>2. received' = received \cup {p.item} /\ subscribed' = subscribed
    BY <1>4, <1>7
  <2>3. subscribed \cup TopicsIn(wire) \subseteq subscribed' \cup TopicsIn(wire')
    BY <1>3, <1>7, <2>2
  <2>4. subscribed' \subseteq Topics /\ received' \subseteq Items
    BY <2>1, <2>2 DEF TypeOK
  <2>5. CASE Qos[p.item] = 0
    <3>1. tasks' = tasks
      BY <1>4, <1>7, <2>5
    <3> QED BY <1>2, <1>5, <2>2, <2>3, <2>4, <3>1
  <2>6. CASE Qos[p.item] # 0
    <3> DEFINE a == Acknowledge(p)
    <3>1. tasks' = Append(tasks, a)
      BY <1>4, <1>7, <2>6
    <3>2. /\ p.id \in acquired
          /\ p.id \in DOMAIN publish_inprogress_ => publish_inprogress_[p.id] = p.item
      BY <1>2, <2>1, <2>6 DEF IdInv
    <3>3. p.id \in PacketIds
      BY <3>2 DEF TypeOK
    <3>4. a \in Acks /\ a.id = p.id
      BY <3>3 DEF Acknowledge, Acks
    <3>5. Acks \subseteq Tasks
      BY DEF Acks, Tasks
    <3> HIDE DEF a
    <3>6. <<a>> \in Seq(Acks) /\ Range(<<a>>) = {a}
      BY <3>4 DEF Range
    <3>7. tasks' = tasks \o <<a>>
      <4>1. a \in Tasks
        BY <3>4, <3>5
      <4> QED BY <1>1, <3>1, <4>1, AppendIsConcat
    <3>8. \A t \in Range(<<a>>) :
            /\ t.id \in acquired
            /\ t.id \in DOMAIN publish_inprogress_ =>
                 publish_inprogress_[t.id] \in received'
      BY <2>2, <3>2, <3>4, <3>6
    <3> QED BY <1>2, <2>2, <2>3, <2>4, <3>1, <3>6, <3>7, <3>8
  <2> QED BY <2>5, <2>6
<1> QED BY <1>6, <1>7

-----------------------------------------------------------------------------
(* Types.                                                                   *)

\* Every action keeps the types, the ids on the wire being those of IdInv.
LEMMA TypeStep ==
  ASSUME TypeOK, IdInv, [Next]_vars
  PROVE  TypeOK'
<1>1. ASSUME NEW new \in Seq(Tasks), tasks' = tasks \o new
      PROVE  tasks' \in Seq(Tasks)
  BY <1>1, ConcatProperties DEF TypeOK
<1>2. ASSUME NEW t \in Tasks, tasks' = Append(tasks, t)
      PROVE  tasks' \in Seq(Tasks)
  BY <1>2, AppendProperties DEF TypeOK
<1>3. ASSUME NEW i \in Items, Publish(i)
      PROVE  TypeOK'
  <2>1. PublishTask(i) \in Tasks
    BY DEF PublishTask, Tasks
  <2>2. tasks' \in Seq(Tasks)
    BY <1>2, <1>3, <2>1 DEF Publish
  <2>3. published' \in Seq(Items)
    BY <1>3, AppendProperties DEF Publish, TypeOK
  <2> QED BY <1>3, <2>2, <2>3 DEF Publish, TypeOK, client
<1>4. ASSUME NEW S \in SUBSET Topics, Subscribe(S)
      PROVE  TypeOK'
  <2>1. SubscribeTask(S) \in Tasks
    BY DEF SubscribeTask, Tasks
  <2>2. tasks' \in Seq(Tasks)
    BY <1>2, <1>4, <2>1 DEF Subscribe
  <2> QED BY <1>4, <2>2 DEF Subscribe, TypeOK, client
<1>5. CASE RunTask
  BY <1>5, RunTaskEffect
<1>6. CASE TimerExpires
  <2>1. [kind |-> "timer", aborted |-> FALSE] \in Tasks
    BY DEF Tasks
  <2>2. tasks' \in Seq(Tasks)
    BY <1>2, <1>6, <2>1 DEF TimerExpires
  <2> QED BY <1>6, <2>2 DEF TimerExpires, TypeOK, client
<1>7. CASE BrokerAnswers
  <2>1. \A accepted \in BOOLEAN : [kind |-> "connack", accepted |-> accepted] \in Tasks
    BY DEF Tasks
  <2>2. tasks' \in Seq(Tasks) /\ session' \in Sessions
    BY <1>2, <1>7, <2>1 DEF BrokerAnswers, Sessions
  <2> QED BY <1>7, <2>2 DEF BrokerAnswers, TypeOK
<1>8. CASE BrokerReceives
  <2>1. PICK new \in Seq(Acks) : tasks' = tasks \o new
    BY <1>8, BrokerReceivesEffect
  <2>2. new \in Seq(Tasks)
    <3>1. Acks \subseteq Tasks
      BY DEF Acks, Tasks
    <3> QED BY <3>1
  <2>3. /\ wire' \in Seq(Packets) /\ written' \in 0 .. Len(wire')
        /\ received' \subseteq Items /\ subscribed' \subseteq Topics
    BY <1>8, BrokerReceivesEffect
  <2> QED BY <1>1, <1>8, <2>1, <2>2, <2>3 DEF BrokerReceives, TypeOK
<1>9. CASE SessionEnds
  <2>1. PICK new \in Seq(SendErrors \cup Downs) : tasks' = tasks \o new
    BY <1>9, SessionEndsEffect
  <2>2. new \in Seq(Tasks)
    <3>1. SendErrors \cup Downs \subseteq Tasks
      BY DEF SendErrors, Downs, Tasks
    <3> QED BY <3>1
  <2>3. /\ received' \subseteq Items
        /\ told' \in [Items -> {"nothing", "ok", "failed"}]
    BY <1>9, SessionEndsEffect
  <2>4. /\ wire' \in Seq(Packets) /\ written' \in 0 .. Len(wire')
        /\ ends' \in 0 .. MaxEnds /\ session' \in Sessions
    BY <1>9, EmptySeq, BoundsAssumption DEF SessionEnds, TypeOK, Sessions
  <2> QED BY <1>1, <1>9, <2>1, <2>2, <2>3, <2>4 DEF SessionEnds, TypeOK
<1>10. CASE UNCHANGED vars
  BY <1>10 DEF vars, client, TypeOK
<1>11. CASE WriteCompletes
  BY <1>11, WriteCompletesEffect DEF WriteCompletes, TypeOK
<1> QED BY <1>3, <1>4, <1>5, <1>6, <1>7, <1>8, <1>9, <1>10, <1>11 DEF Next

-----------------------------------------------------------------------------
(* The tasks that wait, as a set and in their order.                        *)

\* A task that is run leaves the queue; what its handler posts is never a task of
\* the session's beginning or end, or an acknowledgement.
LEMMA RunTaskTasks ==
  ASSUME TypeOK, RunTask
  PROVE  /\ Head(tasks) \in Tasks
         /\ \A T : T \cap OwnTasks = {} =>
              Range(tasks) \cap T = ({Head(tasks)} \cap T) \cup (Range(tasks') \cap T)
         /\ \A A, B : B \cap OwnTasks = {} /\ NoneAfter(tasks, A, B) =>
              /\ NoneAfter(tasks', A, B)
              /\ Head(tasks) \in A => Range(tasks') \cap B = {}
<1> DEFINE h == Head(tasks)
           rest == Tail(tasks)
<1>1. PICK new \in Seq(OwnTasks) : tasks' = rest \o new
  BY RunTaskEffect
<1>2. tasks # <<>> /\ tasks \in Seq(Tasks)
  BY DEF RunTask, TypeOK
<1>3. h \in Tasks /\ rest \in Seq(Tasks) /\ Range(tasks) = {h} \cup Range(rest)
  BY <1>2, HeadTail
<1>4. new \in Seq(Tasks) /\ Range(new) \subseteq OwnTasks
  <2>1. OwnTasks \subseteq Tasks
    BY DEF OwnTasks, SendErrors, Tasks
  <2> QED BY <2>1, RangeElement
<1>5. \A A, B : NoneAfter(tasks, A, B) =>
        NoneAfter(rest, A, B) /\ (h \in A => Range(rest) \cap B = {})
  BY <1>2, NoneAfterTail
<1> HIDE DEF h, rest
<1>6. Range(tasks') = Range(rest) \cup Range(new)
  BY <1>1, <1>3, <1>4, RangeConcatenation
<1>7. \A A, B : NoneAfter(rest, A, B) /\ Range(new) \cap B = {} => NoneAfter(tasks', A, B)
  BY <1>1, <1>3, <1>4, NoneAfterConcat
<1>8. \A A, B : B \cap OwnTasks = {} /\ NoneAfter(tasks, A, B) =>
        NoneAfter(tasks', A, B) /\ (h \in A => Range(tasks') \cap B = {})
  <2> SUFFICES ASSUME NEW A, NEW B, B \cap OwnTasks = {}, NoneAfter(tasks, A, B)
               PROVE  NoneAfter(tasks', A, B) /\ (h \in A => Range(tasks') \cap B = {})
    OBVIOUS
  <2>1. Range(new) \cap B = {}
    BY <1>4
  <2>2. NoneAfter(rest, A, B) /\ (h \in A => Range(rest) \cap B = {})
    BY <1>5
  <2> QED BY <1>6, <1>7, <2>1, <2>2
<1> QED BY <1>3, <1>4, <1>6, <1>8 DEF h

\* Tasks behind those that wait.
LEMMA AddedTasks ==
  ASSUME tasks \in Seq(Tasks), NEW new \in Seq(Tasks), tasks' = tasks \o new
  PROVE  /\ Range(tasks') = Range(tasks) \cup Range(new)
         /\ \A A, B : NoneAfter(tasks, A, B) /\ Range(new) \cap B = {} =>
                        NoneAfter(tasks', A, B)
BY RangeConcatenation, NoneAfterConcat

\* One task behind those that wait, which keeps any order that it or they leave alone.
LEMMA AddedTask ==
  ASSUME tasks \in Seq(Tasks), NEW t \in Tasks, tasks' = Append(tasks, t)
  PROVE  /\ Range(tasks') = Range(tasks) \cup {t}
         /\ \A A, B : NoneAfter(tasks, A, B) /\ t \notin B => NoneAfter(tasks', A, B)
         /\ \A A, B : Range(tasks) \cap A = {} => NoneAfter(tasks', A, B)
<1>1. Range(tasks') = Range(tasks) \cup {t}
  BY RangeAppend
<1>2. <<t>> \in Seq(Tasks) /\ Range(<<t>>) = {t}
  BY DEF Range
<1>3. tasks' = tasks \o <<t>>
  BY AppendIsConcat
<1>4. \A A, B : NoneAfter(tasks, A, B) /\ t \notin B => NoneAfter(tasks', A, B)
  <2> DEFINE last == <<t>>
  <2>1. last \in Seq(Tasks) /\ Range(last) = {t} /\ tasks' = tasks \o last
    BY <1>2, <1>3
  <2> HIDE DEF last
  <2> QED BY <2>1, AddedTasks
<1>5. ASSUME NEW A, NEW B, Range(tasks) \cap A = {}
      PROVE  NoneAfter(tasks', A, B)
  <2>1. /\ Len(tasks') = Len(tasks) + 1 /\ Len(tasks) \in Nat
        /\ \A i \in 1 .. Len(tasks) : tasks'[i] = tasks[i]
    BY AppendProperties, LenProperties
  <2>2. \A i \in 1 .. Len(tasks) : tasks[i] \in Range(tasks)
    BY RangeElement
  <2>3. \A i, j \in 1 .. Len(tasks) + 1 : i < j => i \in 1 .. Len(tasks)
    BY <2>1
  <2> QED BY <1>5, <2>1, <2>2, <2>3 DEF NoneAfter
<1> QED BY <1>1, <1>4, <1>5

\* What running the front task does to the connection's state.
LEMMA RunTaskControl ==
  ASSUME TypeOK, RunTask
  PROVE  LET t == Head(tasks)
         IN /\ \/ /\ t \in ConnAcks /\ UNCHANGED <<reconnect_timer_, session>>
                  /\ IF t.accepted THEN state_' = "Connected" /\ publish_queue_' = <<>>
                     ELSE UNCHANGED <<state_, publish_queue_>>
               \/ /\ t \in Downs /\ UNCHANGED <<session, publish_queue_>>
                  /\ state_' = "Disconnected" /\ reconnect_timer_' = "armed"
               \/ /\ t \in Wakes /\ UNCHANGED <<reconnect_timer_, state_, publish_queue_>>
                  /\ IF state_ = "Disconnected" THEN session' = "connecting" /\ wire' = <<>>
                     ELSE UNCHANGED session
               \/ /\ t \notin ConnAcks \cup Downs \cup Wakes
                  /\ UNCHANGED <<reconnect_timer_, state_, session>>
                  /\ state_ = "Connected" => UNCHANGED publish_queue_
            /\ wire' # <<>> => wire # <<>> \/ session = "open"
<1>1. PICK t : t = Head(tasks)
  OBVIOUS
<1>2. t \in Tasks
  BY <1>1, RunTaskTasks
<1>3. ASSUME NEW packets, ToClient(packets)
      PROVE  wire' # <<>> => wire # <<>> \/ session = "open"
  BY <1>3 DEF ToClient
<1>4. ASSUME NEW packets, NEW items, HandOver(packets, items)
      PROVE  wire' # <<>> => wire # <<>> \/ session = "open"
  BY <1>3, <1>4 DEF HandOver
<1> SUFFICES /\ \/ /\ t \in ConnAcks /\ UNCHANGED <<reconnect_timer_, session>>
                   /\ IF t.accepted THEN state_' = "Connected" /\ publish_queue_' = <<>>
                      ELSE UNCHANGED <<state_, publish_queue_>>
                \/ /\ t \in Downs /\ UNCHANGED <<session, publish_queue_>>
                   /\ state_' = "Disconnected" /\ reconnect_timer_' = "armed"
                \/ /\ t \in Wakes /\ UNCHANGED <<reconnect_timer_, state_, publish_queue_>>
                   /\ IF state_ = "Disconnected" THEN session' = "connecting" /\ wire' = <<>>
                      ELSE UNCHANGED session
                \/ /\ t \notin ConnAcks \cup Downs \cup Wakes
                   /\ UNCHANGED <<reconnect_timer_, state_, session>>
                   /\ state_ = "Connected" => UNCHANGED publish_queue_
             /\ wire' # <<>> => wire # <<>> \/ session = "open"
  BY <1>1
<1>5. \/ t.kind = "publish"   /\ SafePublish(t.item)
      \/ t.kind = "subscribe" /\ SafeSubscribe(t.topics)
      \/ t.kind = "connack"   /\ ConnAckHandler(t.accepted)
      \/ t.kind \in {"error", "finish"} /\ EndHandler
      \/ t.kind = "timer"     /\ OnReconnectTimer(t.aborted)
      \/ t.kind = "puback"    /\ PublishAcknowledgedHandler(t.id)
      \/ t.kind = "pubcomp"   /\ PublishCompletedHandler(t.id)
      \/ t.kind = "senterror" /\ AsyncPublishCallback(t.id)
  BY <1>1 DEF RunTask
<1>6. /\ t \in ConnAcks <=> t.kind = "connack"
      /\ t \in Downs <=> t.kind \in {"error", "finish"}
      /\ t \in Wakes <=> t.kind = "timer" /\ ~t.aborted
  BY <1>2 DEF Tasks, ConnAcks, Downs, Wakes
<1>7. CASE t.kind = "publish" /\ SafePublish(t.item)
  BY <1>4, <1>6, <1>7 DEF SafePublish
<1>8. CASE t.kind = "subscribe" /\ SafeSubscribe(t.topics)
  BY <1>3, <1>6, <1>8 DEF SafeSubscribe
<1>9. CASE t.kind = "connack" /\ ConnAckHandler(t.accepted)
  BY <1>4, <1>6, <1>9 DEF ConnAckHandler
<1>10. CASE t.kind \in {"error", "finish"} /\ EndHandler
  BY <1>6, <1>10 DEF EndHandler, client
<1>11. CASE t.kind = "timer" /\ OnReconnectTimer(t.aborted)
  BY <1>6, <1>11 DEF OnReconnectTimer
<1>12. ASSUME NEW id, NEW how, Tell(id, how)
       PROVE  UNCHANGED <<reconnect_timer_, state_, session, publish_queue_, wire>>
  BY <1>12 DEF Tell, client
<1>13. NotFound => UNCHANGED <<reconnect_timer_, state_, session, publish_queue_, wire>>
  BY DEF NotFound, client
<1>14. CASE t.kind = "puback" /\ PublishAcknowledgedHandler(t.id)
  BY <1>6, <1>12, <1>13, <1>14 DEF PublishAcknowledgedHandler
<1>15. CASE t.kind = "pubcomp" /\ PublishCompletedHandler(t.id)
  BY <1>6, <1>12, <1>13, <1>15 DEF PublishCompletedHandler
<1>16. CASE t.kind = "senterror" /\ AsyncPublishCallback(t.id)
  BY <1>6, <1>12, <1>13, <1>16 DEF AsyncPublishCallback
<1> QED BY <1>5, <1>7, <1>8, <1>9, <1>10, <1>11, <1>14, <1>15, <1>16

-----------------------------------------------------------------------------
(* The session, the timer and state_.                                       *)

\* The kinds of tasks the invariant is about, and what they have in common.
LEMMA Kinds ==
  /\ Finishes \subseteq Downs /\ Acceptances \subseteq ConnAcks
  /\ Wakes \cap OwnTasks = {} /\ Downs \cap OwnTasks = {} /\ ConnAcks \cap OwnTasks = {}
  /\ Acks \cap OwnTasks = {} /\ Finishes \cap OwnTasks = {} /\ Acceptances \cap OwnTasks = {}
  /\ Wakes \cap Downs = {} /\ Wakes \cap ConnAcks = {} /\ Wakes \cap Acks = {}
  /\ Downs \cap ConnAcks = {} /\ Downs \cap Acks = {} /\ ConnAcks \cap Acks = {}
<1>1. /\ Finishes \subseteq Downs /\ Acceptances \subseteq ConnAcks
      /\ Wakes \cap Downs = {} /\ Wakes \cap ConnAcks = {} /\ Wakes \cap Acks = {}
      /\ Downs \cap ConnAcks = {} /\ Downs \cap Acks = {} /\ ConnAcks \cap Acks = {}
  BY DEF Finishes, Downs, Acceptances, ConnAcks, Wakes, Acks
<1>2. /\ Wakes \cap OwnTasks = {} /\ Downs \cap OwnTasks = {}
      /\ ConnAcks \cap OwnTasks = {} /\ Acks \cap OwnTasks = {}
  BY DEF Downs, ConnAcks, Wakes, Acks, OwnTasks, SendErrors
<1> QED BY <1>1, <1>2

\* Running a task keeps what the invariant says of the timer and of state_.
LEMMA RunTaskKeepsControl ==
  ASSUME TypeOK, TimerInv, StateInv, RunTask
  PROVE  TimerInv' /\ StateInv'
<1>1. PICK t : t = Head(tasks)
  OBVIOUS
<1>2. \A T : T \cap OwnTasks = {} =>
        Range(tasks) \cap T = ({t} \cap T) \cup (Range(tasks') \cap T)
  BY <1>1, RunTaskTasks
<1>3. /\ Range(tasks) \cap Wakes = ({t} \cap Wakes) \cup (Range(tasks') \cap Wakes)
      /\ Range(tasks) \cap Downs = ({t} \cap Downs) \cup (Range(tasks') \cap Downs)
      /\ Range(tasks) \cap Finishes = ({t} \cap Finishes) \cup (Range(tasks') \cap Finishes)
      /\ Range(tasks) \cap ConnAcks = ({t} \cap ConnAcks) \cup (Range(tasks') \cap ConnAcks)
      /\ Range(tasks) \cap Acks = ({t} \cap Acks) \cup (Range(tasks') \cap Acks)
      /\ Range(tasks) \cap Acceptances =
           ({t} \cap Acceptances) \cup (Range(tasks') \cap Acceptances)
  BY <1>2, Kinds
<1>4. /\ NoneAfter(tasks', Wakes, Wakes) /\ NoneAfter(tasks', Downs, ConnAcks)
      /\ t \in Wakes => Range(tasks') \cap Wakes = {}
      /\ t \in Downs => Range(tasks') \cap ConnAcks = {}
  BY <1>1, RunTaskTasks, Kinds DEF TimerInv, StateInv
<1>5. \/ /\ t \in ConnAcks /\ UNCHANGED <<reconnect_timer_, session>>
         /\ IF t.accepted THEN state_' = "Connected" /\ publish_queue_' = <<>>
            ELSE UNCHANGED <<state_, publish_queue_>>
      \/ /\ t \in Downs /\ UNCHANGED <<session, publish_queue_>>
         /\ state_' = "Disconnected" /\ reconnect_timer_' = "armed"
      \/ /\ t \in Wakes /\ UNCHANGED <<reconnect_timer_, state_, publish_queue_>>
         /\ IF state_ = "Disconnected" THEN session' = "connecting" /\ wire' = <<>>
            ELSE UNCHANGED session
      \/ /\ t \notin ConnAcks \cup Downs \cup Wakes
         /\ UNCHANGED <<reconnect_timer_, state_, session>>
         /\ state_ = "Connected" => UNCHANGED publish_queue_
  BY <1>1, RunTaskControl
<1>6. wire' # <<>> => wire # <<>> \/ session = "open"
  BY RunTaskControl
<1>7. t \in ConnAcks => (t \in Acceptances <=> t.accepted)
  BY DEF ConnAcks, Acceptances
<1>8. CASE t \in ConnAcks
  <2>1. /\ t \notin Downs /\ t \notin Wakes /\ t \notin Finishes
        /\ UNCHANGED <<reconnect_timer_, session>>
        /\ IF t \in Acceptances THEN state_' = "Connected" /\ publish_queue_' = <<>>
           ELSE UNCHANGED <<state_, publish_queue_>>
    BY <1>5, <1>7, <1>8, Kinds
  <2> QED BY <1>3, <1>4, <1>6, <1>8, <2>1 DEF TimerInv, StateInv, Pending
<1>9. CASE t \in Downs
  <2>1. /\ t \notin ConnAcks /\ t \notin Wakes /\ t \notin Acceptances
        /\ UNCHANGED <<session, publish_queue_>>
        /\ state_' = "Disconnected" /\ reconnect_timer_' = "armed"
    BY <1>5, <1>9, Kinds
  <2>2. session = "none" /\ Range(tasks') \cap Wakes = {}
    BY <1>3, <1>9 DEF TimerInv, Pending
  <2> QED BY <1>3, <1>4, <1>6, <1>9, <2>1, <2>2 DEF TimerInv, StateInv, Pending
<1>10. CASE t \in Wakes
  <2>1. /\ t \notin ConnAcks /\ t \notin Downs /\ t \notin Acceptances /\ t \notin Finishes
        /\ UNCHANGED <<reconnect_timer_, state_, publish_queue_>>
        /\ IF state_ = "Disconnected" THEN session' = "connecting" /\ wire' = <<>>
           ELSE UNCHANGED session
    BY <1>5, <1>10, Kinds
  <2>2. /\ reconnect_timer_ = "off" /\ state_ = "Disconnected"
        /\ Range(tasks) \cap Downs = {} /\ Range(tasks) \cap ConnAcks = {}
    BY <1>3, <1>10 DEF TimerInv, Pending
  <2>3. /\ Range(tasks') \cap Wakes = {} /\ Range(tasks') \cap Downs = {}
        /\ Range(tasks') \cap ConnAcks = {}
    BY <1>3, <1>4, <1>10, <2>2
  <2> QED BY <1>4, <2>1, <2>2, <2>3 DEF TimerInv, StateInv, Pending
<1>11. CASE t \notin ConnAcks \cup Downs \cup Wakes
  <2>1. /\ t \notin Acceptances /\ t \notin Finishes
        /\ UNCHANGED <<reconnect_timer_, state_, session>>
        /\ state_ = "Connected" => UNCHANGED publish_queue_
    BY <1>5, <1>11, Kinds
  <2> QED BY <1>3, <1>4, <1>6, <1>11, <2>1 DEF TimerInv, StateInv, Pending
<1> QED BY <1>8, <1>9, <1>10, <1>11

\* So does every other step.
LEMMA ControlStep ==
  ASSUME TypeOK, TimerInv, StateInv, IdInv, [Next]_vars
  PROVE  TimerInv' /\ StateInv'
<1> USE DEF TimerInv, StateInv, Pending
<1>0. tasks \in Seq(Tasks)
  BY DEF TypeOK
<1>1. ASSUME NEW t \in Tasks, t \notin Wakes \cup Downs \cup ConnAcks \cup Acks,
             tasks' = Append(tasks, t),
             UNCHANGED <<reconnect_timer_, state_, session, publish_queue_, wire>>
      PROVE  TimerInv' /\ StateInv'
  <2>1. Range(tasks') = Range(tasks) \cup {t} /\ NoneAfter(tasks', Wakes, Wakes)
        /\ NoneAfter(tasks', Downs, ConnAcks)
    BY <1>0, <1>1, AddedTask
  <2>2. t \notin Finishes /\ t \notin Acceptances
    BY <1>1, Kinds
  <2> QED BY <1>1, <2>1, <2>2
<1>2. ASSUME NEW i \in Items, Publish(i)
      PROVE  TimerInv' /\ StateInv'
  <2>1. PublishTask(i) \in Tasks \ (Wakes \cup Downs \cup ConnAcks \cup Acks)
    BY DEF PublishTask, Tasks, Wakes, Downs, ConnAcks, Acks
  <2> QED BY <1>1, <1>2, <2>1 DEF Publish, client
<1>3. ASSUME NEW S \in SUBSET Topics, Subscribe(S)
      PROVE  TimerInv' /\ StateInv'
  <2>1. SubscribeTask(S) \in Tasks \ (Wakes \cup Downs \cup ConnAcks \cup Acks)
    BY DEF SubscribeTask, Tasks, Wakes, Downs, ConnAcks, Acks
  <2> QED BY <1>1, <1>3, <2>1 DEF Subscribe, client
<1>4. CASE RunTask
  BY <1>4, RunTaskKeepsControl
<1>5. CASE TimerExpires
  <2> DEFINE w == [kind |-> "timer", aborted |-> FALSE]
  <2>1. w \in Tasks /\ w \in Wakes
    BY DEF Tasks, Wakes
  <2>2. tasks' = Append(tasks, w) /\ tasks = <<>>
    BY <1>5 DEF TimerExpires
  <2> HIDE DEF w
  <2>3. Range(tasks) = {}
    BY <2>2 DEF Range
  <2>4. /\ Range(tasks') = {w}
        /\ NoneAfter(tasks', Wakes, Wakes) /\ NoneAfter(tasks', Downs, ConnAcks)
    BY <1>0, <2>1, <2>2, <2>3, AddedTask
  <2>5. w \notin Downs /\ w \notin ConnAcks /\ w \notin Acks /\ w \notin Finishes
    BY <2>1, Kinds
  <2>6. session = "none" /\ state_ = "Disconnected" /\ reconnect_timer_' = "off"
        /\ UNCHANGED <<state_, session, publish_queue_, wire>>
    BY <1>5, <2>3 DEF TimerExpires, client
  <2> QED BY <2>1, <2>3, <2>4, <2>5, <2>6
<1>6. CASE BrokerAnswers
  <2>1. PICK accepted \in BOOLEAN :
          /\ session' = IF accepted THEN "open" ELSE "refused"
          /\ tasks' = Append(tasks, [kind |-> "connack", accepted |-> accepted])
    BY <1>6 DEF BrokerAnswers
  <2>2. session = "connecting"
        /\ UNCHANGED <<state_, reconnect_timer_, publish_queue_, wire>>
    BY <1>6 DEF BrokerAnswers
  <2> DEFINE t == [kind |-> "connack", accepted |-> accepted]
  <2>3. t \in Tasks /\ t \in ConnAcks /\ (accepted <=> t \in Acceptances)
    BY DEF Tasks, ConnAcks, Acceptances
  <2>4. tasks' = Append(tasks, t)
    BY <2>1
  <2> HIDE DEF t
  <2>5. reconnect_timer_ # "armed" /\ Range(tasks) \cap Wakes = {}
        /\ Range(tasks) \cap Downs = {} /\ Range(tasks) \cap ConnAcks = {} /\ wire = <<>>
    BY <2>2
  <2>6. /\ Range(tasks') = Range(tasks) \cup {t}
        /\ NoneAfter(tasks', Wakes, Wakes) /\ NoneAfter(tasks', Downs, ConnAcks)
    BY <1>0, <2>3, <2>4, <2>5, AddedTask
  <2>7. t \notin Wakes /\ t \notin Downs
    BY <2>3, Kinds
  <2> QED BY <2>1, <2>2, <2>3, <2>5, <2>6, <2>7
<1>7. CASE BrokerReceives
  <2>1. PICK new \in Seq(Acks) : tasks' = tasks \o new
    BY <1>7, BrokerReceivesEffect
  <2>2. session = "open" /\ UNCHANGED <<state_, reconnect_timer_, session, publish_queue_>>
    BY <1>7 DEF BrokerReceives
  <2>3. new \in Seq(Tasks) /\ Range(new) \subseteq Acks
    <3>1. Acks \subseteq Tasks
      BY DEF Acks, Tasks
    <3> QED BY <3>1, RangeElement
  <2>4. /\ Range(new) \cap Wakes = {} /\ Range(new) \cap Downs = {}
        /\ Range(new) \cap ConnAcks = {} /\ Range(new) \cap Finishes = {}
        /\ Range(new) \cap Acceptances = {}
    BY <2>3, Kinds
  <2>5. /\ Range(tasks') = Range(tasks) \cup Range(new)
        /\ NoneAfter(tasks', Wakes, Wakes) /\ NoneAfter(tasks', Downs, ConnAcks)
    BY <1>0, <2>1, <2>3, <2>4, AddedTasks
  <2> QED BY <2>2, <2>4, <2>5
<1>8. CASE SessionEnds
  <2>1. PICK new \in Seq(SendErrors \cup Downs) :
          tasks' = tasks \o new /\ [kind |-> "finish"] \in Range(new)
    BY <1>8, SessionEndsEffect
  <2>2. session # "none" /\ session' = "none" /\ wire' = <<>>
        /\ UNCHANGED <<state_, reconnect_timer_, publish_queue_>>
    BY <1>8 DEF SessionEnds
  <2>3. new \in Seq(Tasks) /\ Range(new) \subseteq SendErrors \cup Downs
    <3>1. SendErrors \cup Downs \subseteq Tasks
      BY DEF SendErrors, Downs, Tasks
    <3> QED BY <3>1, RangeElement
  <2>4. /\ Range(new) \cap Wakes = {} /\ Range(new) \cap ConnAcks = {}
        /\ [kind |-> "finish"] \in Finishes
    <3>1. SendErrors \subseteq OwnTasks
      BY DEF OwnTasks
    <3>2. Range(new) \cap Wakes = {} /\ Range(new) \cap ConnAcks = {}
      BY <2>3, <3>1, Kinds
    <3> QED BY <3>2 DEF Finishes
  <2>5. /\ Range(tasks') = Range(tasks) \cup Range(new)
        /\ NoneAfter(tasks', Wakes, Wakes) /\ NoneAfter(tasks', Downs, ConnAcks)
    BY <1>0, <2>1, <2>3, <2>4, AddedTasks
  <2>6. Range(tasks) \cap Wakes = {} /\ reconnect_timer_ # "armed"
    BY <2>2
  <2> QED BY <2>1, <2>2, <2>4, <2>5, <2>6
<1>9. CASE UNCHANGED vars
  BY <1>9 DEF vars, client
<1>10. CASE WriteCompletes
  BY <1>10 DEF WriteCompletes
<1> QED BY <1>2, <1>3, <1>4, <1>5, <1>6, <1>7, <1>8, <1>9, <1>10 DEF Next

-----------------------------------------------------------------------------
(* Packet ids and acknowledgements.                                         *)

\* Running a task keeps what is said of the ids, and calls a callback with success
\* only for a message the broker has.
LEMMA RunTaskKeepsIds ==
  ASSUME TypeOK, TypeOK', TimerInv, IdInv, AckedMeansReceived, RunTask
  PROVE  IdInv' /\ AckedMeansReceived'
<1>1. PICK t : t = Head(tasks)
  OBVIOUS
<1>2. /\ tasks # <<>> /\ t \in Tasks
      /\ Range(tasks) \cap Acks = ({t} \cap Acks) \cup (Range(tasks') \cap Acks)
      /\ Range(tasks) \cap Wakes = ({t} \cap Wakes) \cup (Range(tasks') \cap Wakes)
  BY <1>1, RunTaskTasks, Kinds DEF RunTask
<1>3. ASSUME UNCHANGED <<wire, acquired, received, told, publish_inprogress_>>
      PROVE  IdInv' /\ AckedMeansReceived'
  BY <1>2, <1>3 DEF IdInv, AckedMeansReceived
<1>4. ASSUME NEW packets \in Seq(Packets), ToClient(packets),
             Range(packets) \cap PublishPackets = {},
             UNCHANGED <<acquired, received, publish_inprogress_>>
      PROVE  IdInv' /\ AckedMeansReceived'
  <2>1. /\ session # "open" => wire' = wire
        /\ session = "open" => wire' = wire \o packets
        /\ \A i \in Items : told'[i] = "ok" => told[i] = "ok"
    BY <1>2, <1>4, ToClientEffect
  <2>2. Range(wire') \cap PublishPackets \subseteq Range(wire) \cap PublishPackets
    <3>1. wire \in Seq(Packets)
      BY DEF TypeOK
    <3>2. Range(wire \o packets) = Range(wire) \cup Range(packets)
      BY <3>1, RangeConcatenation
    <3> QED BY <1>4, <2>1, <3>2
  <2> QED BY <1>2, <1>4, <2>1, <2>2 DEF IdInv, AckedMeansReceived
<1>5. ASSUME NEW packets \in Seq(Packets), NEW items \in Seq(Items), HandOver(packets, items),
             Range(packets) \cap PublishPackets = {}, UNCHANGED received
      PROVE  IdInv' /\ AckedMeansReceived'
  <2>1. PICK more \in Seq(PublishPackets) :
          /\ session = "open" => wire' = wire \o (packets \o more)
          /\ \A p \in Range(more) :
               IF Qos[p.item] = 0 THEN p.id = 0
               ELSE p.id \in acquired' /\ publish_inprogress_'[p.id] = p.item
    BY <1>2, <1>5, HandOverEffect
  <2>2. /\ acquired \subseteq acquired'
        /\ \A id \in acquired :
             id \in DOMAIN publish_inprogress_' =>
               /\ id \in DOMAIN publish_inprogress_
               /\ publish_inprogress_'[id] = publish_inprogress_[id]
        /\ \A i \in Items : told'[i] = "ok" => told[i] = "ok"
        /\ session # "open" => wire' = wire
    BY <1>2, <1>5, HandOverEffect
  <2>3. Range(wire') \cap PublishPackets \subseteq (Range(wire) \cap PublishPackets) \cup Range(more)
    <3>1. wire \in Seq(Packets) /\ more \in Seq(Packets)
      <4>1. PublishPackets \subseteq Packets
        BY DEF Packets
      <4> QED BY <4>1 DEF TypeOK
    <3> DEFINE all == packets \o more
    <3>2. all \in Seq(Packets) /\ Range(all) = Range(packets) \cup Range(more)
      BY <3>1, ConcatProperties, RangeConcatenation
    <3> HIDE DEF all
    <3>3. Range(wire \o all) = Range(wire) \cup Range(all)
      BY <3>1, <3>2, RangeConcatenation
    <3>4. Range(wire') \subseteq Range(wire) \cup Range(packets) \cup Range(more)
      BY <2>1, <2>2, <3>2, <3>3 DEF all
    <3> QED BY <1>5, <3>4
  <2>4. ASSUME NEW p \in Range(wire') \cap PublishPackets
        PROVE  IF Qos[p.item] = 0 THEN p.id = 0
               ELSE /\ p.id \in acquired'
                    /\ p.id \in DOMAIN publish_inprogress_' =>
                         publish_inprogress_'[p.id] = p.item
    <3>1. CASE p \in Range(more)
      BY <2>1, <3>1
    <3>2. CASE p \in Range(wire) \cap PublishPackets
      BY <2>2, <3>2 DEF IdInv
    <3> QED BY <2>3, <3>1, <3>2
  <2>5. ASSUME NEW a \in Range(tasks') \cap Acks
        PROVE  /\ a.id \in acquired'
               /\ a.id \in DOMAIN publish_inprogress_' =>
                    publish_inprogress_'[a.id] \in received'
    <3>1. a \in Range(tasks) \cap Acks
      BY <1>2
    <3>2. /\ a.id \in acquired
          /\ a.id \in DOMAIN publish_inprogress_ => publish_inprogress_[a.id] \in received
      BY <3>1 DEF IdInv
    <3> QED BY <1>5, <2>2, <3>2
  <2>6. AckedMeansReceived'
    BY <1>5, <2>2 DEF AckedMeansReceived
  <2> QED BY <2>4, <2>5, <2>6 DEF IdInv
<1>6. ASSUME NEW id \in DOMAIN publish_inprogress_, NEW how,
             how = "ok" => publish_inprogress_[id] \in received,
             Tell(id, how)
      PROVE  IdInv' /\ AckedMeansReceived'
  <2>1. /\ UNCHANGED <<wire, acquired, received>>
        /\ publish_inprogress_' =
             Restrict(publish_inprogress_, DOMAIN publish_inprogress_ \ {id})
        /\ told' = [told EXCEPT ![publish_inprogress_[id]] = how]
    BY <1>6 DEF Tell, client
  <2>2. \A x \in DOMAIN publish_inprogress_' :
          x \in DOMAIN publish_inprogress_ /\ publish_inprogress_'[x] = publish_inprogress_[x]
    BY <2>1 DEF Restrict
  <2>3. IdInv'
    BY <1>2, <2>1, <2>2 DEF IdInv
  <2>4. AckedMeansReceived'
    BY <1>6, <2>1 DEF AckedMeansReceived, TypeOK
  <2> QED BY <2>3, <2>4
<1>7. NotFound => IdInv' /\ AckedMeansReceived'
  BY <1>3 DEF NotFound, client
<1>8. \A S : <<SubscribeTask(S)>> \in Seq({SubscribeTask(S)})
             /\ Range(<<SubscribeTask(S)>>) \cap PublishPackets = {}
  <2> SUFFICES ASSUME NEW S
               PROVE  <<SubscribeTask(S)>> \in Seq({SubscribeTask(S)})
                      /\ Range(<<SubscribeTask(S)>>) \cap PublishPackets = {}
    OBVIOUS
  <2>1. SubscribeTask(S) \notin PublishPackets
    BY DEF SubscribeTask, PublishPackets
  <2> HIDE DEF SubscribeTask
  <2>2. Range(<<SubscribeTask(S)>>) = {SubscribeTask(S)}
    BY DEF Range
  <2> QED BY <2>1, <2>2
<1>9. \A S \in SUBSET Topics : <<SubscribeTask(S)>> \in Seq(Packets)
  <2> SUFFICES ASSUME NEW S \in SUBSET Topics
               PROVE  <<SubscribeTask(S)>> \in Seq(Packets)
    OBVIOUS
  <2>1. SubscribeTask(S) \in Packets
    BY DEF SubscribeTask, Packets
  <2> QED BY <2>1
<1>10. <<>> \in Seq(Packets) /\ Range(<<>>) = {}
  BY EmptySeq DEF Range
<1>11. CASE t.kind = "publish" /\ SafePublish(t.item)
  <2>1. CASE state_ # "Connected"
    BY <1>3, <1>11, <2>1 DEF SafePublish
  <2>2. CASE state_ = "Connected"
    <3>1. t.item \in Items
      BY <1>2, <1>11 DEF Tasks
    <3>2. <<t.item>> \in Seq(Items)
      BY <3>1
    <3> QED BY <1>5, <1>10, <1>11, <2>2, <3>2 DEF SafePublish
  <2> QED BY <2>1, <2>2
<1>12. CASE t.kind = "subscribe" /\ SafeSubscribe(t.topics)
  <2>1. CASE state_ # "Connected"
    BY <1>3, <1>12, <2>1 DEF SafeSubscribe
  <2>2. CASE state_ = "Connected"
    <3>1. t.topics \in SUBSET Topics
      BY <1>2, <1>12 DEF Tasks
    <3> QED BY <1>4, <1>8, <1>9, <1>12, <2>2, <3>1 DEF SafeSubscribe
  <2> QED BY <2>1, <2>2
<1>13. CASE t.kind = "connack" /\ ConnAckHandler(t.accepted)
  <2>1. CASE ~t.accepted
    BY <1>3, <1>13, <2>1 DEF ConnAckHandler
  <2>2. CASE t.accepted
    <3>1. Resubscribe \in Seq(Packets) /\ Range(Resubscribe) \cap PublishPackets = {}
      <4>1. subscriptions_ \in SUBSET Topics
        BY DEF TypeOK
      <4> QED BY <1>8, <1>9, <1>10, <4>1 DEF Resubscribe
    <3>2. publish_queue_ \in Seq(Items)
      BY DEF TypeOK
    <3> QED BY <1>5, <1>13, <2>2, <3>1, <3>2 DEF ConnAckHandler
  <2> QED BY <2>1, <2>2
<1>14. CASE t.kind \in {"error", "finish"} /\ EndHandler
  BY <1>3, <1>14 DEF EndHandler, client
<1>15. CASE t.kind = "timer" /\ OnReconnectTimer(t.aborted)
  <2>1. CASE t.aborted \/ state_ # "Disconnected"
    BY <1>3, <1>15, <2>1 DEF OnReconnectTimer
  <2>2. CASE ~(t.aborted \/ state_ # "Disconnected")
    <3>1. t \in Wakes
      BY <1>2, <1>15, <2>2 DEF Tasks, Wakes
    <3>2. Range(tasks') \cap Acks = {}
      BY <1>2, <3>1 DEF TimerInv, Pending
    <3>3. wire' = <<>> /\ UNCHANGED <<received, told>>
      BY <1>15, <2>2 DEF OnReconnectTimer
    <3>4. Range(wire') = {}
      BY <3>3 DEF Range
    <3> QED BY <3>2, <3>3, <3>4 DEF IdInv, AckedMeansReceived
  <2> QED BY <2>1, <2>2
<1>16. t \in Acks /\ t.id \in DOMAIN publish_inprogress_ => publish_inprogress_[t.id] \in received
  BY <1>2 DEF IdInv
<1>17. CASE t.kind = "puback" /\ PublishAcknowledgedHandler(t.id)
  <2>1. t \in Acks
    BY <1>2, <1>17 DEF Tasks, Acks
  <2> QED BY <1>6, <1>7, <1>16, <1>17, <2>1 DEF PublishAcknowledgedHandler, InProgress
<1>18. CASE t.kind = "pubcomp" /\ PublishCompletedHandler(t.id)
  <2>1. t \in Acks
    BY <1>2, <1>18 DEF Tasks, Acks
  <2> QED BY <1>6, <1>7, <1>16, <1>18, <2>1 DEF PublishCompletedHandler, InProgress
<1>19. CASE t.kind = "senterror" /\ AsyncPublishCallback(t.id)
  BY <1>6, <1>7, <1>19 DEF AsyncPublishCallback, InProgress
<1>20. \/ t.kind = "publish"   /\ SafePublish(t.item)
       \/ t.kind = "subscribe" /\ SafeSubscribe(t.topics)
       \/ t.kind = "connack"   /\ ConnAckHandler(t.accepted)
       \/ t.kind \in {"error", "finish"} /\ EndHandler
       \/ t.kind = "timer"     /\ OnReconnectTimer(t.aborted)
       \/ t.kind = "puback"    /\ PublishAcknowledgedHandler(t.id)
       \/ t.kind = "pubcomp"   /\ PublishCompletedHandler(t.id)
       \/ t.kind = "senterror" /\ AsyncPublishCallback(t.id)
  BY <1>1 DEF RunTask
<1> QED BY <1>11, <1>12, <1>13, <1>14, <1>15, <1>17, <1>18, <1>19, <1>20

\* So does every other step.
LEMMA IdStep ==
  ASSUME TypeOK, TypeOK', TimerInv, IdInv, AckedMeansReceived, [Next]_vars
  PROVE  IdInv' /\ AckedMeansReceived'
<1>0. tasks \in Seq(Tasks)
  BY DEF TypeOK
<1>1. ASSUME NEW t \in Tasks \ Acks, tasks' = Append(tasks, t),
             UNCHANGED <<wire, acquired, received, told, publish_inprogress_>>
      PROVE  IdInv' /\ AckedMeansReceived'
  <2>1. Range(tasks') = Range(tasks) \cup {t}
    BY <1>0, <1>1, AddedTask
  <2> QED BY <1>1, <2>1 DEF IdInv, AckedMeansReceived
<1>2. ASSUME NEW i \in Items, Publish(i)
      PROVE  IdInv' /\ AckedMeansReceived'
  <2>1. PublishTask(i) \in Tasks \ Acks
    BY DEF PublishTask, Tasks, Acks
  <2> QED BY <1>1, <1>2, <2>1 DEF Publish, client
<1>3. ASSUME NEW S \in SUBSET Topics, Subscribe(S)
      PROVE  IdInv' /\ AckedMeansReceived'
  <2>1. SubscribeTask(S) \in Tasks \ Acks
    BY DEF SubscribeTask, Tasks, Acks
  <2> QED BY <1>1, <1>3, <2>1 DEF Subscribe, client
<1>4. CASE RunTask
  BY <1>4, RunTaskKeepsIds
<1>5. CASE TimerExpires
  <2>1. [kind |-> "timer", aborted |-> FALSE] \in Tasks \ Acks
    BY DEF Tasks, Acks
  <2> QED BY <1>1, <1>5, <2>1 DEF TimerExpires, client
<1>6. CASE BrokerAnswers
  <2>1. \A accepted \in BOOLEAN :
          [kind |-> "connack", accepted |-> accepted] \in Tasks \ Acks
    BY DEF Tasks, Acks
  <2> QED BY <1>1, <1>6, <2>1 DEF BrokerAnswers
<1>7. CASE BrokerReceives
  <2>1. PICK new \in Seq(Acks) :
          /\ tasks' = tasks \o new
          /\ \A t \in Range(new) :
               /\ t.id \in acquired
               /\ t.id \in DOMAIN publish_inprogress_ =>
                    publish_inprogress_[t.id] \in received'
    BY <1>7, BrokerReceivesEffect
  <2>2. Range(wire') \subseteq Range(wire) /\ received \subseteq received'
    BY <1>7, BrokerReceivesEffect
  <2>3. UNCHANGED <<acquired, publish_inprogress_, told>>
    BY <1>7 DEF BrokerReceives
  <2>4. Range(tasks') = Range(tasks) \cup Range(new)
    <3>1. Acks \subseteq Tasks
      BY DEF Acks, Tasks
    <3>2. new \in Seq(Tasks)
      BY <3>1
    <3> QED BY <1>0, <2>1, <3>2, AddedTasks
  <2> QED BY <2>1, <2>2, <2>3, <2>4 DEF IdInv, AckedMeansReceived
<1>8. CASE SessionEnds
  <2>1. PICK new \in Seq(SendErrors \cup Downs) : tasks' = tasks \o new
    BY <1>8, SessionEndsEffect
  <2>2. /\ received \subseteq received'
        /\ \A i \in Items : told'[i] = "ok" => told[i] = "ok"
    BY <1>8, SessionEndsEffect
  <2>3. wire' = <<>> /\ UNCHANGED <<acquired, publish_inprogress_>>
    BY <1>8 DEF SessionEnds
  <2>4. new \in Seq(Tasks) /\ Range(new) \cap Acks = {}
    <3>1. SendErrors \cup Downs \subseteq Tasks
      BY DEF SendErrors, Downs, Tasks
    <3>2. (SendErrors \cup Downs) \cap Acks = {}
      BY DEF SendErrors, Downs, Acks
    <3>3. Range(new) \subseteq SendErrors \cup Downs
      BY RangeElement
    <3> QED BY <3>1, <3>2, <3>3
  <2>5. Range(tasks') = Range(tasks) \cup Range(new)
    BY <1>0, <2>1, <2>4, AddedTasks
  <2>6. Range(wire') = {}
    BY <2>3 DEF Range
  <2> QED BY <2>2, <2>3, <2>4, <2>5, <2>6 DEF IdInv, AckedMeansReceived
<1>9. CASE UNCHANGED vars
  BY <1>9 DEF vars, client, IdInv, AckedMeansReceived
<1>10. CASE WriteCompletes
  <2>1. UNCHANGED <<tasks, wire, acquired, received, publish_inprogress_>>
    BY <1>10 DEF WriteCompletes
  <2>2. \A i \in Items : Qos[i] > 0 => told'[i] = told[i]
    BY <1>10, WriteCompletesEffect
  <2> QED BY <2>1, <2>2 DEF IdInv, AckedMeansReceived
<1> QED BY <1>2, <1>3, <1>4, <1>5, <1>6, <1>7, <1>8, <1>9, <1>10 DEF Next

-----------------------------------------------------------------------------
(* The invariant.                                                           *)

\* The invariant holds when PostConstructor has called connect.
LEMMA InitInv == Init => IInv /\ AckedMeansReceived
<1> SUFFICES ASSUME Init
             PROVE  IInv /\ AckedMeansReceived
  OBVIOUS
<1>1. /\ tasks = <<>> /\ wire = <<>> /\ publish_inprogress_ = <<>>
      /\ \A S : <<>> \in Seq(S)
      /\ Range(<<>>) = {} /\ DOMAIN <<>> = {} /\ Len(<<>>) = 0
  BY EmptySeq DEF Init, Range
<1>2. TypeOK
  BY <1>1, BoundsAssumption DEF Init, TypeOK, States, Sessions
<1>3. Range(tasks) = {} /\ \A A, B : NoneAfter(tasks, A, B)
  BY <1>1 DEF NoneAfter
<1>4. TimerInv /\ StateInv
  BY <1>1, <1>3 DEF Init, TimerInv, StateInv, Pending
<1>5. IdInv /\ AckedMeansReceived
  BY <1>1, <1>3 DEF Init, IdInv, AckedMeansReceived
<1> QED BY <1>2, <1>4, <1>5 DEF IInv

\* The invariant is inductive.
LEMMA StepInv ==
  ASSUME IInv, AckedMeansReceived, [Next]_vars
  PROVE  IInv' /\ AckedMeansReceived'
<1>1. TypeOK'
  BY TypeStep DEF IInv
<1>2. TimerInv' /\ StateInv'
  BY ControlStep DEF IInv
<1>3. IdInv' /\ AckedMeansReceived'
  BY <1>1, IdStep DEF IInv
<1> QED BY <1>1, <1>2, <1>3 DEF IInv

\* The invariant holds in every state.
LEMMA InvHolds == Spec => [](IInv /\ AckedMeansReceived)
<1>1. IInv /\ AckedMeansReceived /\ [Next]_vars => (IInv /\ AckedMeansReceived)'
  BY StepInv
<1> QED BY InitInv, <1>1, PTL DEF Spec

-----------------------------------------------------------------------------
(* Theorems.                                                                *)

\* Every state has the types of TypeOK; acknowledgements carry ids of PacketIds
\* because IdInv says so of the packets on the wire.
THEOREM TypeCorrect == Spec => []TypeOK
<1>1. IInv => TypeOK
  BY DEF IInv
<1> QED BY InvHolds, <1>1, PTL

\* Above quality of service 0, the callback of a message reports success only if the
\* broker has this message (PublishAcknowledgedHandler, PublishCompletedHandler), although the packet ids of
\* a session are used again in the next and entries of publish_inprogress_ stay.
THEOREM AcknowledgedReceived == Spec => []AckedMeansReceived
BY InvHolds, PTL

\* With every task run, an open session has state_ Connected and an empty
\* publish_queue_ (ConnAckHandler).
THEOREM QueueDrained == Spec => []ConnectedDrainsQueue
<1>1. IInv => ConnectedDrainsQueue
  <2> SUFFICES ASSUME IInv, tasks = <<>>, session = "open"
               PROVE  state_ = "Connected" /\ publish_queue_ = <<>>
    BY DEF ConnectedDrainsQueue
  <2>1. Range(tasks) = {}
    BY DEF Range
  <2> QED BY <2>1 DEF IInv, StateInv, Pending
<1> QED BY InvHolds, <1>1, PTL

\* Without a session, and with every task run, a reconnect is due (EndHandler).
THEOREM ReconnectDue == Spec => []NeverStranded
<1>1. IInv => NeverStranded
  <2> SUFFICES ASSUME IInv, tasks = <<>>, session = "none"
               PROVE  state_ = "Disconnected" /\ reconnect_timer_ = "armed"
    BY DEF NeverStranded
  <2>1. Range(tasks) = {}
    BY DEF Range
  <2> QED BY <2>1 DEF IInv, StateInv, Pending
<1> QED BY InvHolds, <1>1, PTL

\* connect is called once for each session that ended (OnReconnectTimer), although
\* the error and the finish of one connection both start the timer.
THEOREM OneSessionAtATime == Spec => []OneSession
<1>1. Init => OneSession
  BY DEF Init, OneSession
<1>2. ASSUME IInv, OneSession, [Next]_vars
      PROVE  OneSession'
  <2>1. ASSUME UNCHANGED <<session, connects, ends>>
        PROVE  OneSession'
    BY <1>2, <2>1 DEF OneSession
  <2>2. CASE RunTask
    <3>1. PICK t : t = Head(tasks)
      OBVIOUS
    <3>2. /\ t \in Tasks
          /\ Range(tasks) \cap Wakes = ({t} \cap Wakes) \cup (Range(tasks') \cap Wakes)
      BY <1>2, <2>2, <3>1, RunTaskTasks, Kinds DEF IInv
    <3>3. CASE t.kind = "timer" /\ OnReconnectTimer(t.aborted)
      <4>1. CASE t.aborted \/ state_ # "Disconnected"
        BY <2>1, <3>3, <4>1 DEF OnReconnectTimer
      <4>2. CASE ~(t.aborted \/ state_ # "Disconnected")
        <5>1. t \in Wakes
          BY <3>2, <3>3, <4>2 DEF Tasks, Wakes
        <5>2. session = "none"
          BY <1>2, <3>2, <5>1 DEF IInv, TimerInv, Pending
        <5>3. session' = "connecting" /\ connects' = connects + 1 /\ ends' = ends
          BY <3>3, <4>2 DEF OnReconnectTimer
        <5>4. ends \in Nat /\ connects \in Nat
          BY <1>2, BoundsAssumption DEF IInv, TypeOK
        <5> QED BY <1>2, <5>2, <5>3, <5>4 DEF OneSession
      <4> QED BY <4>1, <4>2
    <3>5. CASE t.kind = "publish" /\ SafePublish(t.item)
      BY <2>1, <3>5 DEF SafePublish
    <3>6. CASE t.kind = "subscribe" /\ SafeSubscribe(t.topics)
      BY <2>1, <3>6 DEF SafeSubscribe
    <3>7. CASE t.kind = "connack" /\ ConnAckHandler(t.accepted)
      BY <2>1, <3>7 DEF ConnAckHandler
    <3>8. CASE t.kind \in {"error", "finish"} /\ EndHandler
      BY <2>1, <3>8 DEF EndHandler, client
    <3>9. ASSUME NEW id, NEW how, Tell(id, how)
          PROVE  OneSession'
      BY <2>1, <3>9 DEF Tell, client
    <3>10. NotFound => OneSession'
      BY <2>1 DEF NotFound, client
    <3>11. CASE \/ t.kind = "puback"    /\ PublishAcknowledgedHandler(t.id)
                \/ t.kind = "pubcomp"   /\ PublishCompletedHandler(t.id)
                \/ t.kind = "senterror" /\ AsyncPublishCallback(t.id)
      BY <3>9, <3>10, <3>11
         DEF PublishAcknowledgedHandler, PublishCompletedHandler, AsyncPublishCallback
    <3>12. \/ t.kind = "publish"   /\ SafePublish(t.item)
           \/ t.kind = "subscribe" /\ SafeSubscribe(t.topics)
           \/ t.kind = "connack"   /\ ConnAckHandler(t.accepted)
           \/ t.kind \in {"error", "finish"} /\ EndHandler
           \/ t.kind = "timer"     /\ OnReconnectTimer(t.aborted)
           \/ t.kind = "puback"    /\ PublishAcknowledgedHandler(t.id)
           \/ t.kind = "pubcomp"   /\ PublishCompletedHandler(t.id)
           \/ t.kind = "senterror" /\ AsyncPublishCallback(t.id)
      BY <2>2, <3>1 DEF RunTask
    <3> QED BY <3>3, <3>5, <3>6, <3>7, <3>8, <3>11, <3>12
  <2>3. CASE BrokerAnswers
    BY <1>2, <2>3 DEF BrokerAnswers, OneSession
  <2>4. CASE SessionEnds
    <3>1. ends \in Nat /\ connects \in Nat
      BY <1>2, BoundsAssumption DEF IInv, TypeOK
    <3> QED BY <1>2, <2>4, <3>1 DEF SessionEnds, OneSession
  <2>5. CASE \/ \E i \in Items : Publish(i)
             \/ \E S \in SUBSET Topics : Subscribe(S)
             \/ TimerExpires \/ WriteCompletes \/ BrokerReceives \/ UNCHANGED vars
    BY <2>1, <2>5 DEF Publish, Subscribe, TimerExpires, WriteCompletes, BrokerReceives,
                      vars, client
  <2> QED BY <1>2, <2>2, <2>3, <2>4, <2>5 DEF Next
<1>3. IInv /\ OneSession /\ [Next]_vars => OneSession'
  BY <1>2
<1> QED BY InvHolds, <1>1, <1>3, PTL DEF Spec

\* What makes Resubscribed hold: its hypothesis, in the words of the invariant.
LEMMA NoConnAckWaits ==
  ASSUME TypeOK
  PROVE  (\A k \in DOMAIN tasks : tasks[k].kind # "connack") <=> ~Pending(ConnAcks)
<1>1. \A k \in DOMAIN tasks : tasks[k] \in Tasks /\ tasks[k] \in Range(tasks)
  BY ElementOfSeq, LenProperties DEF TypeOK, Range
<1>2. \A t \in Tasks : t.kind = "connack" <=> t \in ConnAcks
  BY DEF Tasks, ConnAcks
<1>3. \A t \in Range(tasks) : \E k \in DOMAIN tasks : t = tasks[k]
  BY DEF Range
<1> QED BY <1>1, <1>2, <1>3 DEF Pending

\* A task run in a session keeps its subscriptions on the wire or at the broker.
LEMMA RunTaskResubscribes ==
  ASSUME IInv, TypeOK', Resubscribed, RunTask, session' = "open", ~Pending(ConnAcks)'
  PROVE  subscriptions_' \subseteq subscribed' \cup TopicsIn(wire')
<1>1. PICK t : t = Head(tasks)
  OBVIOUS
<1>2. /\ TypeOK /\ tasks # <<>> /\ t \in Tasks
      /\ Range(tasks) \cap ConnAcks = ({t} \cap ConnAcks) \cup (Range(tasks') \cap ConnAcks)
      /\ Range(tasks) \cap Wakes = ({t} \cap Wakes) \cup (Range(tasks') \cap Wakes)
  BY <1>1, RunTaskTasks, Kinds DEF IInv, RunTask
<1>3. Range(tasks) \cap ConnAcks = {t} \cap ConnAcks
  BY <1>2 DEF Pending
<1>4. t \notin ConnAcks /\ session = "open" => subscriptions_ \subseteq subscribed \cup TopicsIn(wire)
  BY <1>2, <1>3, NoConnAckWaits DEF Resubscribed, Pending
<1>5. ASSUME t \notin ConnAcks, session = "open",
             UNCHANGED <<subscriptions_, subscribed>>, Range(wire) \subseteq Range(wire')
      PROVE  subscriptions_' \subseteq subscribed' \cup TopicsIn(wire')
  BY <1>4, <1>5, TopicsOfRange
<1>6. ASSUME NEW packets \in Seq(Packets), NEW items \in Seq(Items), HandOver(packets, items),
             session = "open"
      PROVE  Range(wire) \cup Range(packets) \subseteq Range(wire')
  <2>1. PICK more \in Seq(PublishPackets) :
          session = "open" => wire' = wire \o (packets \o more)
    BY <1>2, <1>6, HandOverEffect
  <2> DEFINE all == packets \o more
  <2>2. more \in Seq(Packets) /\ wire \in Seq(Packets)
    <3>1. PublishPackets \subseteq Packets
      BY DEF Packets
    <3> QED BY <1>2, <3>1 DEF TypeOK
  <2>3. all \in Seq(Packets) /\ Range(all) = Range(packets) \cup Range(more)
    BY <2>2, ConcatProperties, RangeConcatenation
  <2>4. wire' = wire \o all
    BY <1>6, <2>1
  <2> HIDE DEF all
  <2>5. Range(wire \o all) = Range(wire) \cup Range(all)
    BY <2>2, <2>3, RangeConcatenation
  <2> QED BY <2>3, <2>4, <2>5
<1>7. <<>> \in Seq(Packets)
  BY EmptySeq
<1>8. CASE t.kind = "publish" /\ SafePublish(t.item)
  <2>1. t \notin ConnAcks /\ t.item \in Items
    BY <1>2, <1>8 DEF Tasks, ConnAcks
  <2>2. <<t.item>> \in Seq(Items)
    BY <2>1
  <2>3. UNCHANGED <<session, subscriptions_, subscribed>>
    BY <1>8 DEF SafePublish
  <2>4. CASE state_ # "Connected"
    BY <1>5, <1>8, <2>1, <2>3, <2>4 DEF SafePublish
  <2>5. CASE state_ = "Connected"
    <3>1. HandOver(<<>>, <<t.item>>)
      BY <1>8, <2>5 DEF SafePublish
    <3> QED BY <1>5, <1>6, <1>7, <2>1, <2>2, <2>3, <3>1
  <2> QED BY <2>4, <2>5
<1>9. CASE t.kind = "subscribe" /\ SafeSubscribe(t.topics)
  <2> DEFINE p == SubscribeTask(t.topics)
  <2>1. t \notin ConnAcks /\ t.topics \subseteq Topics
    BY <1>2, <1>9 DEF Tasks, ConnAcks
  <2>2. session = "open" /\ subscribed' = subscribed
        /\ subscriptions_' = subscriptions_ \cup t.topics
    BY <1>9 DEF SafeSubscribe
  <2>3. state_ = "Connected"
    BY <1>3, <2>1, <2>2, Kinds DEF IInv, StateInv, Pending
  <2>4. p \in Packets /\ p.kind = "subscribe" /\ p.topics = t.topics
    BY <2>1 DEF SubscribeTask, Packets
  <2>5. wire' = wire \o <<p>>
    BY <1>9, <2>2, <2>3 DEF SafeSubscribe, ToClient
  <2> HIDE DEF p
  <2> DEFINE last == <<p>>
  <2>6. last \in Seq(Packets) /\ Range(last) = {p} /\ wire' = wire \o last
    BY <2>4, <2>5 DEF Range
  <2> HIDE DEF last
  <2>7. Range(wire') = Range(wire) \cup {p}
    <3>1. wire \in Seq(Packets)
      BY <1>2 DEF TypeOK
    <3> QED BY <2>6, <3>1, RangeConcatenation
  <2> QED BY <1>4, <2>1, <2>2, <2>4, <2>7, TopicsOfRange
<1>10. CASE t.kind = "connack" /\ ConnAckHandler(t.accepted)
  <2>1. session = "open" /\ UNCHANGED <<subscriptions_, subscribed>>
    BY <1>10 DEF ConnAckHandler
  <2>2. t \in ConnAcks
    BY <1>2, <1>10 DEF Tasks, ConnAcks
  <2>3. t.accepted
    <3>1. t \in Acceptances
      BY <1>2, <2>1, <2>2 DEF IInv, StateInv
    <3> QED BY <3>1 DEF Acceptances
  <2> DEFINE p == SubscribeTask(subscriptions_)
  <2>4. p \in Packets /\ p.kind = "subscribe" /\ p.topics = subscriptions_
    BY <1>2 DEF SubscribeTask, Packets, TypeOK
  <2>5. Resubscribe = IF subscriptions_ = {} THEN <<>> ELSE <<p>>
    BY DEF Resubscribe
  <2> HIDE DEF p
  <2>6. <<p>> \in Seq(Packets) /\ Range(<<p>>) = {p}
    BY <2>4 DEF Range
  <2>7. Resubscribe \in Seq(Packets) /\ (subscriptions_ # {} => p \in Range(Resubscribe))
    BY <1>7, <2>5, <2>6
  <2>8. Range(wire) \cup Range(Resubscribe) \subseteq Range(wire')
    <3>1. publish_queue_ \in Seq(Items)
      BY <1>2 DEF TypeOK
    <3> QED BY <1>6, <1>10, <2>1, <2>3, <2>7, <3>1 DEF ConnAckHandler
  <2>9. subscriptions_ \subseteq TopicsIn(wire')
    BY <2>4, <2>7, <2>8, TopicsOfRange
  <2> QED BY <2>1, <2>9
<1>11. CASE t.kind \in {"error", "finish"} /\ EndHandler
  <2>1. t \notin ConnAcks
    BY <1>2, <1>11 DEF ConnAcks
  <2> QED BY <1>5, <1>11, <2>1 DEF EndHandler, client
<1>12. CASE t.kind = "timer" /\ OnReconnectTimer(t.aborted)
  <2>1. t \notin ConnAcks
    BY <1>2, <1>12 DEF ConnAcks
  <2>2. t.aborted \/ state_ # "Disconnected"
    BY <1>12 DEF OnReconnectTimer
  <2> QED BY <1>5, <1>12, <2>1, <2>2 DEF OnReconnectTimer
<1>13. ASSUME NEW id, NEW how, Tell(id, how)
       PROVE  UNCHANGED <<session, subscriptions_, subscribed, wire>>
  BY <1>13 DEF Tell, client
<1>14. NotFound => UNCHANGED <<session, subscriptions_, subscribed, wire>>
  BY DEF NotFound, client
<1>15. CASE \/ t.kind = "puback"    /\ PublishAcknowledgedHandler(t.id)
            \/ t.kind = "pubcomp"   /\ PublishCompletedHandler(t.id)
            \/ t.kind = "senterror" /\ AsyncPublishCallback(t.id)
  <2>1. t \notin ConnAcks
    BY <1>2, <1>15 DEF ConnAcks
  <2>2. UNCHANGED <<session, subscriptions_, subscribed, wire>>
    BY <1>13, <1>14, <1>15
       DEF PublishAcknowledgedHandler, PublishCompletedHandler, AsyncPublishCallback
  <2> QED BY <1>5, <2>1, <2>2
<1>16. \/ t.kind = "publish"   /\ SafePublish(t.item)
       \/ t.kind = "subscribe" /\ SafeSubscribe(t.topics)
       \/ t.kind = "connack"   /\ ConnAckHandler(t.accepted)
       \/ t.kind \in {"error", "finish"} /\ EndHandler
       \/ t.kind = "timer"     /\ OnReconnectTimer(t.aborted)
       \/ t.kind = "puback"    /\ PublishAcknowledgedHandler(t.id)
       \/ t.kind = "pubcomp"   /\ PublishCompletedHandler(t.id)
       \/ t.kind = "senterror" /\ AsyncPublishCallback(t.id)
  BY <1>1 DEF RunTask
<1> QED BY <1>8, <1>9, <1>10, <1>11, <1>12, <1>15, <1>16

\* Once the CONNACK of a session is handled, every topic ever asked for is subscribed
\* to or on its way (SafeSubscribe, and the resubscription of ConnAckHandler).
THEOREM SubscriptionsKept == Spec => []Resubscribed
<1> DEFINE Covered == subscriptions_ \subseteq subscribed \cup TopicsIn(wire)
<1>1. Init => Resubscribed
  BY DEF Init, Resubscribed
<1>2. ASSUME IInv, TypeOK', Resubscribed, [Next]_vars, session' = "open", ~Pending(ConnAcks)'
      PROVE  Covered'
  <2>1. TypeOK /\ tasks \in Seq(Tasks)
    BY <1>2 DEF IInv, TypeOK
  <2>2. ASSUME NEW t \in Tasks, tasks' = Append(tasks, t),
               UNCHANGED <<session, subscriptions_, subscribed, wire>>
        PROVE  Covered'
    <3>1. ~Pending(ConnAcks)
      BY <1>2, <2>1, <2>2, AddedTask DEF Pending
    <3> QED BY <1>2, <2>1, <2>2, <3>1, NoConnAckWaits DEF Resubscribed
  <2>3. ASSUME NEW i \in Items, Publish(i)
        PROVE  Covered'
    <3>1. PublishTask(i) \in Tasks
      BY DEF PublishTask, Tasks
    <3> QED BY <2>2, <2>3, <3>1 DEF Publish, client
  <2>4. ASSUME NEW S \in SUBSET Topics, Subscribe(S)
        PROVE  Covered'
    <3>1. SubscribeTask(S) \in Tasks
      BY DEF SubscribeTask, Tasks
    <3> QED BY <2>2, <2>4, <3>1 DEF Subscribe, client
  <2>5. CASE RunTask
    BY <1>2, <2>5, RunTaskResubscribes
  <2>6. CASE TimerExpires
    <3>1. [kind |-> "timer", aborted |-> FALSE] \in Tasks
      BY DEF Tasks
    <3> QED BY <2>2, <2>6, <3>1 DEF TimerExpires, client
  <2>7. CASE BrokerAnswers
    <3>1. PICK accepted \in BOOLEAN :
            tasks' = Append(tasks, [kind |-> "connack", accepted |-> accepted])
      BY <2>7 DEF BrokerAnswers
    <3> DEFINE t == [kind |-> "connack", accepted |-> accepted]
    <3>2. t \in Tasks /\ t \in ConnAcks /\ tasks' = Append(tasks, t)
      BY <3>1 DEF Tasks, ConnAcks
    <3> HIDE DEF t
    <3>3. t \in Range(tasks')
      BY <2>1, <3>2, AddedTask
    <3> QED BY <1>2, <3>2, <3>3 DEF Pending
  <2>8. CASE BrokerReceives
    <3>1. PICK new \in Seq(Acks) : tasks' = tasks \o new
      BY <1>2, <2>8, BrokerReceivesEffect DEF IInv
    <3>2. new \in Seq(Tasks)
      <4>1. Acks \subseteq Tasks
        BY DEF Acks, Tasks
      <4> QED BY <4>1
    <3>3. Range(tasks) \subseteq Range(tasks')
      BY <2>1, <3>1, <3>2, AddedTasks
    <3>4. session = "open" /\ UNCHANGED subscriptions_
          /\ subscribed \cup TopicsIn(wire) \subseteq subscribed' \cup TopicsIn(wire')
      BY <1>2, <2>8, BrokerReceivesEffect DEF IInv, BrokerReceives
    <3>5. ~Pending(ConnAcks)
      BY <1>2, <3>3 DEF Pending
    <3> QED BY <1>2, <2>1, <3>4, <3>5, NoConnAckWaits DEF Resubscribed
  <2>9. CASE SessionEnds
    BY <1>2, <2>9 DEF SessionEnds
  <2>10. CASE UNCHANGED vars
    BY <1>2, <2>1, <2>10, NoConnAckWaits DEF vars, client, Pending, Resubscribed, TopicsIn
  <2>11. CASE WriteCompletes
    <3>1. UNCHANGED <<tasks, session, subscriptions_, subscribed, wire>>
      BY <2>11 DEF WriteCompletes
    <3> QED BY <1>2, <2>1, <3>1, NoConnAckWaits DEF Pending, Resubscribed, TopicsIn
  <2> QED BY <1>2, <2>3, <2>4, <2>5, <2>6, <2>7, <2>8, <2>9, <2>10, <2>11 DEF Next
<1>3. IInv /\ IInv' /\ Resubscribed /\ [Next]_vars => Resubscribed'
  <2> SUFFICES ASSUME IInv, IInv', Resubscribed, [Next]_vars, session' = "open",
                      (\A k \in DOMAIN tasks : tasks[k].kind # "connack")'
               PROVE  Covered'
    BY DEF Resubscribed
  <2>1. TypeOK'
    BY DEF IInv
  <2>2. (TypeOK => ((\A k \in DOMAIN tasks : tasks[k].kind # "connack") <=> ~Pending(ConnAcks)))'
    BY NoConnAckWaits, PTL
  <2> QED BY <1>2, <2>1, <2>2
<1> QED BY InvHolds, <1>1, <1>3, PTL DEF Spec

\* How the lists on the left of HandoverOrder are put together does not matter.
Associative(s, t, u) == (s \o t) \o u = s \o (t \o u)

\* A list goes from the last of these to the one before, or straight to the first.
PassedOn(s, t, u, v) == /\ s \o (t \o u) \o v = s \o t \o (u \o v)
                        /\ s \o u \o <<>> \o v = s \o <<>> \o (u \o v)

\* ConcatAssociative, under a name.
LEMMA ConcatAssociates ==
  ASSUME NEW S, NEW s \in Seq(S), NEW t \in Seq(S), NEW u \in Seq(S)
  PROVE  Associative(s, t, u)
BY ConcatAssociative DEF Associative

\* PassedOn is a matter of associativity.
LEMMA ConcatPassesOn ==
  ASSUME NEW S, NEW s \in Seq(S), NEW t \in Seq(S), NEW u \in Seq(S), NEW v \in Seq(S)
  PROVE  PassedOn(s, t, u, v)
<1> DEFINE a == s \o t
<1>1. a \in Seq(S) /\ s \o u \in Seq(S)
  BY ConcatProperties
<1> HIDE DEF a
<1>2. Associative(s, t, u) /\ Associative(a, u, v) /\ Associative(s, u, v)
  BY <1>1, ConcatAssociates
<1>3. s \o u \o <<>> = s \o u /\ s \o <<>> = s
  BY <1>1, ConcatEmptySeq
<1> QED BY <1>2, <1>3 DEF a, Associative, PassedOn

\* Publishing order through one task: what the tasks, publish_queue_ and the client
\* have of the messages changes hands without changing their order.
LEMMA RunTaskKeepsOrder ==
  ASSUME IInv, HandoverOrder, RunTask
  PROVE  HandoverOrder'
<1> DEFINE rest == PublishedIn(Tail(tasks))
<1>1. PICK t : t = Head(tasks)
  OBVIOUS
<1>2. /\ TypeOK /\ tasks # <<>> /\ tasks \in Seq(Tasks) /\ t \in Tasks
      /\ Tail(tasks) \in Seq(Tasks) /\ rest \in Seq(Items)
      /\ handed \in Seq(Items) /\ publish_queue_ \in Seq(Items)
  BY <1>1, RunTaskTasks, HeadTail, PublishedType DEF IInv, RunTask, TypeOK
<1>3. PublishedIn(tasks) = (IF t.kind = "publish" THEN <<t.item>> ELSE <<>>) \o rest
  BY <1>1, <1>2, PublishedHead
<1>4. PublishedIn(tasks') = rest
  <2>1. PICK new \in Seq(OwnTasks) : tasks' = Tail(tasks) \o new
    BY <1>2, RunTaskEffect
  <2>2. new \in Seq(Tasks)
    <3>1. OwnTasks \subseteq Tasks
      BY DEF OwnTasks, SendErrors, Tasks
    <3> QED BY <3>1
  <2>3. \A x \in Range(new) : x.kind # "publish"
    <3>1. Range(new) \subseteq OwnTasks
      BY RangeElement
    <3>2. \A x \in OwnTasks : x.kind # "publish"
      BY DEF OwnTasks, SendErrors
    <3> QED BY <3>1, <3>2
  <2>4. PublishedIn(new) = <<>>
    BY <2>2, <2>3, PublishedNone
  <2>5. PublishedIn(tasks') = rest \o PublishedIn(new)
    BY <1>2, <2>1, <2>2, PublishedConcat
  <2> QED BY <1>2, <2>4, <2>5, ConcatEmptySeq
<1> DEFINE queued == publish_queue_
           behind == PublishedIn(tasks)
<1>5. published = handed \o queued \o behind
  BY DEF HandoverOrder
<1>6. HandoverOrder' <=> handed' \o publish_queue_' \o rest = published'
  BY <1>4 DEF HandoverOrder
<1> HIDE DEF rest
<1>7. ASSUME t.kind # "publish", UNCHANGED <<handed, publish_queue_, published>>
      PROVE  HandoverOrder'
  <2>1. PublishedIn(tasks) = rest
    BY <1>2, <1>3, <1>7, ConcatEmptySeq
  <2> QED BY <1>5, <1>6, <1>7, <2>1
<1>8. CASE t.kind = "publish" /\ SafePublish(t.item)
  <2>1. t.item \in Items
    BY <1>2, <1>8 DEF Tasks
  <2> DEFINE one == <<t.item>>
  <2>2. one \in Seq(Items) /\ PublishedIn(tasks) = one \o rest
    BY <1>3, <1>8, <2>1
  <2>3. published' = published
    BY <1>8 DEF SafePublish
  <2> DEFINE q == publish_queue_
             h == handed
  <2>4. q \in Seq(Items) /\ h \in Seq(Items) /\ rest \in Seq(Items)
    BY <1>2
  <2>5. published = h \o q \o (one \o rest)
    BY <1>5, <2>2
  <2>6. PassedOn(h, q, one, rest)
    <3> HIDE DEF h, q, one
    <3> QED BY <2>2, <2>4, ConcatPassesOn
  <2>7. CASE state_ # "Connected"
    <3>1. publish_queue_' = q \o one /\ handed' = h
      <4>1. Append(publish_queue_, t.item) = publish_queue_ \o <<t.item>>
        BY <1>2, <2>1, AppendIsConcat
      <4> QED BY <1>8, <2>7, <4>1 DEF SafePublish
    <3> HIDE DEF one, q, h
    <3>2. h \o (q \o one) \o rest = h \o q \o (one \o rest)
      BY <2>6 DEF PassedOn
    <3> QED BY <1>6, <2>3, <2>5, <3>1, <3>2
  <2>8. CASE state_ = "Connected"
    <3>1. q = <<>>
      BY <2>8 DEF IInv, StateInv
    <3>2. HandOver(<<>>, <<t.item>>) /\ UNCHANGED publish_queue_
      BY <1>8, <2>8 DEF SafePublish
    <3>3. handed' = h \o one /\ publish_queue_' = q
      BY <3>2 DEF HandOver
    <3> HIDE DEF one, q, h
    <3>4. h \o one \o <<>> \o rest = h \o <<>> \o (one \o rest)
      BY <2>6 DEF PassedOn
    <3> QED BY <1>6, <2>3, <2>5, <3>1, <3>3, <3>4
  <2> QED BY <2>7, <2>8
<1>9. CASE t.kind = "subscribe" /\ SafeSubscribe(t.topics)
  BY <1>7, <1>9 DEF SafeSubscribe
<1>10. CASE t.kind = "connack" /\ ConnAckHandler(t.accepted)
  <2>1. CASE ~t.accepted
    BY <1>7, <1>10, <2>1 DEF ConnAckHandler
  <2>2. CASE t.accepted
    <3>1. /\ publish_queue_' = <<>> /\ published' = published
          /\ handed' = handed \o publish_queue_
      BY <1>10, <2>2 DEF ConnAckHandler, HandOver
    <3> DEFINE all == handed \o publish_queue_
    <3>2. all \in Seq(Items)
      BY <1>2, ConcatProperties
    <3>3. PublishedIn(tasks) = rest
      BY <1>2, <1>3, <1>10, ConcatEmptySeq
    <3>4. published = all \o rest /\ handed' = all
      BY <1>5, <3>1, <3>3
    <3> HIDE DEF all
    <3>5. all \o <<>> = all
      BY <3>2, ConcatEmptySeq
    <3> QED BY <1>6, <3>1, <3>4, <3>5
  <2> QED BY <2>1, <2>2
<1>11. CASE t.kind \in {"error", "finish"} /\ EndHandler
  BY <1>7, <1>11 DEF EndHandler
<1>12. CASE t.kind = "timer" /\ OnReconnectTimer(t.aborted)
  BY <1>7, <1>12 DEF OnReconnectTimer
<1>13. ASSUME NEW id, NEW how, Tell(id, how)
       PROVE  UNCHANGED <<handed, publish_queue_, published>>
  BY <1>13 DEF Tell
<1>14. NotFound => UNCHANGED <<handed, publish_queue_, published>>
  BY DEF NotFound
<1>15. CASE \/ t.kind = "puback"    /\ PublishAcknowledgedHandler(t.id)
            \/ t.kind = "pubcomp"   /\ PublishCompletedHandler(t.id)
            \/ t.kind = "senterror" /\ AsyncPublishCallback(t.id)
  <2>1. UNCHANGED <<handed, publish_queue_, published>>
    BY <1>13, <1>14, <1>15
       DEF PublishAcknowledgedHandler, PublishCompletedHandler, AsyncPublishCallback
  <2> QED BY <1>7, <1>15, <2>1
<1>16. \/ t.kind = "publish"   /\ SafePublish(t.item)
       \/ t.kind = "subscribe" /\ SafeSubscribe(t.topics)
       \/ t.kind = "connack"   /\ ConnAckHandler(t.accepted)
       \/ t.kind \in {"error", "finish"} /\ EndHandler
       \/ t.kind = "timer"     /\ OnReconnectTimer(t.aborted)
       \/ t.kind = "puback"    /\ PublishAcknowledgedHandler(t.id)
       \/ t.kind = "pubcomp"   /\ PublishCompletedHandler(t.id)
       \/ t.kind = "senterror" /\ AsyncPublishCallback(t.id)
  BY <1>1 DEF RunTask
<1> QED BY <1>8, <1>9, <1>10, <1>11, <1>12, <1>15, <1>16

\* What the client was given, then publish_queue_, then the tasks, are the messages
\* in the order of Publish, across any number of reconnections.
THEOREM OrderOfPublish == Spec => []HandoverOrder
<1>1. Init => HandoverOrder
  <2> SUFFICES ASSUME Init
               PROVE  HandoverOrder
    OBVIOUS
  <2>1. Selected(<<>>, PublishTasks \cup PublishPackets) = <<>>
    BY SelectedEmpty
  <2>2. PublishedIn(<<>>) = <<>>
    <3>1. ItemsOf(<<>>) = <<>>
      BY DEF ItemsOf
    <3> QED BY <2>1, <3>1 DEF PublishedIn
  <2>3. <<>> \o <<>> = <<>>
    BY EmptySeq, ConcatEmptySeq
  <2> QED BY <2>2, <2>3 DEF Init, HandoverOrder
<1>2. ASSUME IInv, HandoverOrder, [Next]_vars
      PROVE  HandoverOrder'
  <2>1. /\ TypeOK /\ IdInv /\ tasks \in Seq(Tasks)
        /\ handed \in Seq(Items) /\ publish_queue_ \in Seq(Items)
    BY <1>2 DEF IInv, TypeOK
  <2>2. ASSUME NEW new \in Seq(Tasks), tasks' = tasks \o new,
               \A x \in Range(new) : x.kind # "publish",
               UNCHANGED <<handed, publish_queue_, published>>
        PROVE  HandoverOrder'
    <3>1. PublishedIn(tasks') = PublishedIn(tasks) \o PublishedIn(new)
      BY <2>1, <2>2, PublishedConcat
    <3>2. PublishedIn(new) = <<>>
      BY <2>2, PublishedNone
    <3>3. PublishedIn(tasks) \in Seq(Items)
      BY <2>1, PublishedType
    <3>4. PublishedIn(tasks') = PublishedIn(tasks)
      BY <3>1, <3>2, <3>3, ConcatEmptySeq
    <3> QED BY <1>2, <2>2, <3>4 DEF HandoverOrder
  <2>3. ASSUME NEW t \in Tasks, t.kind # "publish", tasks' = Append(tasks, t),
               UNCHANGED <<handed, publish_queue_, published>>
        PROVE  HandoverOrder'
    <3> DEFINE last == <<t>>
    <3>1. last \in Seq(Tasks) /\ \A x \in Range(last) : x.kind # "publish"
      BY <2>3 DEF Range
    <3>2. tasks' = tasks \o last
      BY <2>1, <2>3, AppendIsConcat
    <3> HIDE DEF last
    <3> QED BY <2>2, <2>3, <3>1, <3>2
  <2>4. ASSUME NEW i \in Items, Publish(i)
        PROVE  HandoverOrder'
    <3> DEFINE last == <<PublishTask(i)>>
               one == <<i>>
               p == PublishedIn(tasks)
               before == handed \o publish_queue_
    <3>1. PublishTask(i) \in Tasks /\ PublishTask(i).kind = "publish" /\ PublishTask(i).item = i
      BY DEF PublishTask, Tasks
    <3>2. last \in Seq(Tasks) /\ last # <<>> /\ Head(last) = PublishTask(i) /\ Tail(last) = <<>>
      <4> HIDE DEF PublishTask
      <4> QED BY <3>1
    <3>3. tasks' = tasks \o last
      <4>1. tasks' = Append(tasks, PublishTask(i))
        BY <2>4 DEF Publish
      <4> QED BY <2>1, <3>1, <4>1, AppendIsConcat
    <3>4. PublishedIn(last) = one
      <4>1. PublishedIn(<<>>) = <<>>
        BY SelectedEmpty DEF PublishedIn, ItemsOf
      <4>2. PublishedIn(last) = one \o <<>>
        BY <3>1, <3>2, <4>1, PublishedHead
      <4>3. one \in Seq(Items)
        OBVIOUS
      <4> QED BY <4>2, <4>3, ConcatEmptySeq
    <3> HIDE DEF last
    <3>5. PublishedIn(tasks') = p \o one
      BY <2>1, <3>2, <3>3, <3>4, PublishedConcat
    <3>6. /\ before \in Seq(Items) /\ p \in Seq(Items) /\ one \in Seq(Items)
          /\ published = before \o p /\ published \in Seq(Items)
      <4>1. before \in Seq(Items) /\ p \in Seq(Items)
        BY <2>1, ConcatProperties, PublishedType
      <4>2. published = before \o p
        BY <1>2 DEF HandoverOrder
      <4> HIDE DEF before, p
      <4> QED BY <4>1, <4>2, ConcatProperties
    <3>7. published' = published \o one
      <4>1. published' = Append(published, i)
        BY <2>4 DEF Publish
      <4> QED BY <3>6, <4>1, AppendIsConcat
    <3>8. HandoverOrder' <=> before \o PublishedIn(tasks') = published'
      BY <2>4 DEF Publish, HandoverOrder
    <3> HIDE DEF before, p, one
    <3>9. before \o p \o one = before \o (p \o one)
      BY <3>6, ConcatAssociative
    <3> QED BY <3>5, <3>6, <3>7, <3>8, <3>9
  <2>5. ASSUME NEW S \in SUBSET Topics, Subscribe(S)
        PROVE  HandoverOrder'
    <3>1. SubscribeTask(S) \in Tasks /\ SubscribeTask(S).kind # "publish"
      BY DEF SubscribeTask, Tasks
    <3> QED BY <2>3, <2>5, <3>1 DEF Subscribe
  <2>6. CASE RunTask
    BY <1>2, <2>6, RunTaskKeepsOrder
  <2>7. CASE TimerExpires
    <3>1. [kind |-> "timer", aborted |-> FALSE] \in Tasks
      BY DEF Tasks
    <3> QED BY <2>3, <2>7, <3>1 DEF TimerExpires
  <2>8. CASE BrokerAnswers
    <3>1. \A accepted \in BOOLEAN : [kind |-> "connack", accepted |-> accepted] \in Tasks
      BY DEF Tasks
    <3> QED BY <2>3, <2>8, <3>1 DEF BrokerAnswers
  <2>9. CASE BrokerReceives
    <3>1. PICK new \in Seq(Acks) : tasks' = tasks \o new
      BY <2>1, <2>9, BrokerReceivesEffect
    <3>2. Acks \subseteq Tasks /\ \A x \in Acks : x.kind # "publish"
      BY DEF Acks, Tasks
    <3>3. new \in Seq(Tasks) /\ \A x \in Range(new) : x.kind # "publish"
      BY <3>2, RangeElement
    <3> QED BY <2>2, <2>9, <3>1, <3>3 DEF BrokerReceives
  <2>10. CASE SessionEnds
    <3>1. PICK new \in Seq(SendErrors \cup Downs) : tasks' = tasks \o new
      BY <2>1, <2>10, SessionEndsEffect
    <3>2. SendErrors \cup Downs \subseteq Tasks
          /\ \A x \in SendErrors \cup Downs : x.kind # "publish"
      BY DEF SendErrors, Downs, Tasks
    <3>3. new \in Seq(Tasks) /\ \A x \in Range(new) : x.kind # "publish"
      BY <3>2, RangeElement
    <3> QED BY <2>2, <2>10, <3>1, <3>3 DEF SessionEnds
  <2>11. CASE UNCHANGED vars
    BY <1>2, <2>11 DEF vars, HandoverOrder, PublishedIn, ItemsOf
  <2>12. CASE WriteCompletes
    BY <1>2, <2>12 DEF WriteCompletes, HandoverOrder, PublishedIn, ItemsOf
  <2> QED BY <1>2, <2>4, <2>5, <2>6, <2>7, <2>8, <2>9, <2>10, <2>11, <2>12 DEF Next
<1>3. IInv /\ HandoverOrder /\ [Next]_vars => HandoverOrder'
  BY <1>2
<1> QED BY InvHolds, <1>1, <1>3, PTL DEF Spec
=============================================================================
