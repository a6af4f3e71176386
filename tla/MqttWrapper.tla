---------------------------- MODULE MqttWrapper -----------------------------
(***************************************************************************)
(* Class MqttWrapperImpl (mqtt_wrapper_impl.h): the connection to the MQTT   *)
(* broker, which is re-established five seconds after it ends, and the       *)
(* messages and subscriptions handed to it.                                *)
(*                                                                         *)
(* Every entry point and every callback of the mqtt_cpp client only posts a  *)
(* task on the serial queue mutex_queue_; RunTask is the execution of the    *)
(* front one.  Between the moment something happens on the connection and    *)
(* the moment its task runs, state_ is out of date.                         *)
(*                                                                         *)
(* The client takes packet ids anew with every (clean) session, and a        *)
(* session does not use up its 65535 of them; the wrapper's map of messages  *)
(* in progress is by packet id and outlives the sessions.  The task of a     *)
(* write that succeeded does nothing (AsyncPublishCallback, of the messages   *)
(* with a packet id) and is left out; a message of quality of service 0 is    *)
(* told of in the handler of its write.                                      *)
(***************************************************************************)
EXTENDS Naturals, Sequences, Lists, Functions

CONSTANTS
  Items,        \* the messages that may be published, each once
  MaxPublished, \* bound on the messages published
  Qos,          \* Qos[i] \in 0 .. 2
  PacketIds,    \* the ids of a session, enough for every message
  Topics,       \* the topics subscribed to, each once
  MaxEnds       \* bound on the sessions (or attempts) that end

ASSUME QosAssumption == Qos \in [Items -> 0 .. 2]
ASSUME PacketIdsAssumption == 0 \notin PacketIds
ASSUME BoundsAssumption == MaxEnds \in Nat /\ MaxPublished \in Nat

VARIABLES
  tasks,                \* mutex_queue_, front first
  state_,
  publish_queue_,
  publish_inprogress_,  \* packet id -> message
  subscriptions_,
  reconnect_timer_,     \* "off" or "armed"
  session,              \* the client's connection (external), see Sessions
  acquired,             \* packet ids taken in this session
  wire,                 \* what the client has yet to get to the broker
  written,              \* how many packets of wire, from the front, are written
  subscribed,           \* the broker's subscriptions of this session
  received,             \* messages the broker has
  connects, ends,       \* history: calls of connect, sessions ended
  published,            \* history: messages in the order of Publish
  handed,               \* history: messages given to the client, in order
  told                  \* history: how the callback of a message was called

client == <<session, acquired, wire, written, subscribed, received, connects, ends>>
vars == <<tasks, state_, publish_queue_, publish_inprogress_, subscriptions_,
          reconnect_timer_, client, published, handed, told>>

States   == {"Disconnected", "Connecting", "Connected"}
Sessions == {"none", "connecting", "refused", "open"}
Tasks ==
  [kind : {"publish"}, item : Items]
    \cup [kind : {"puback", "pubcomp", "senterror"}, id : PacketIds]
    \cup [kind : {"subscribe"}, topics : SUBSET Topics]
    \cup [kind : {"connack"}, accepted : BOOLEAN]
    \cup [kind : {"timer"}, aborted : BOOLEAN]
    \cup [kind : {"error", "finish"}]
PublishPackets == [kind : {"publish"}, item : Items, id : PacketIds \cup {0}]
Packets == PublishPackets \cup [kind : {"subscribe"}, topics : SUBSET Topics]

TypeOK ==
  /\ tasks \in Seq(Tasks)
  /\ state_ \in States
  /\ publish_queue_ \in Seq(Items) /\ acquired \subseteq PacketIds
  /\ DOMAIN publish_inprogress_ \subseteq PacketIds
  /\ Range(publish_inprogress_) \subseteq Items
  /\ subscriptions_ \subseteq Topics
  /\ reconnect_timer_ \in {"off", "armed"}
  /\ session \in Sessions
  /\ wire \in Seq(Packets) /\ written \in 0 .. Len(wire)
  /\ subscribed \subseteq Topics /\ received \subseteq Items
  /\ connects \in Nat /\ ends \in 0 .. MaxEnds
  /\ published \in Seq(Items) /\ handed \in Seq(Items)
  /\ told \in [Items -> {"nothing", "ok", "failed"}]

\* The constructor leaves state_ uninitialized; PostConstructor calls connect.
Init ==
  /\ tasks = <<>>
  /\ state_ \in States
  /\ publish_queue_ = <<>> /\ publish_inprogress_ = <<>>
  /\ subscriptions_ = {}
  /\ reconnect_timer_ = "off"
  /\ session = "connecting"
  /\ acquired = {} /\ wire = <<>> /\ written = 0 /\ subscribed = {} /\ received = {}
  /\ connects = 1 /\ ends = 0
  /\ published = <<>> /\ handed = <<>>
  /\ told = [i \in Items |-> "nothing"]

PublishTask(i)   == [kind |-> "publish", item |-> i]
SubscribeTask(S) == [kind |-> "subscribe", topics |-> S]
ItemsOf(s)   == [k \in DOMAIN s |-> s[k].item]
PublishTasks == [kind : {"publish"}, item : Items]
PublishedIn(s) == ItemsOf(Selected(s, PublishTasks \cup PublishPackets))
TopicsIn(s)  == UNION {s[k].topics : k \in {j \in DOMAIN s : s[j].kind = "subscribe"}}

-----------------------------------------------------------------------------
(* Entry points, called by main.                                            *)

Publish(i) ==
  /\ i \notin Range(published) /\ Len(published) < MaxPublished
  /\ published' = Append(published, i)
  /\ tasks' = Append(tasks, PublishTask(i))
  /\ UNCHANGED <<state_, publish_queue_, publish_inprogress_, subscriptions_,
                 reconnect_timer_, client, handed, told>>

\* No topics, no task.
Subscribe(S) ==
  /\ S # {} /\ S \cap (subscriptions_ \cup TopicsIn(tasks)) = {}
  /\ tasks' = Append(tasks, SubscribeTask(S))
  /\ UNCHANGED <<state_, publish_queue_, publish_inprogress_, subscriptions_,
                 reconnect_timer_, client, published, handed, told>>

-----------------------------------------------------------------------------
(* Tasks.                                                                   *)

PublishPacket(i, ids) ==
  [kind |-> "publish", item |-> i, id |-> IF i \in DOMAIN ids THEN ids[i] ELSE 0]
Confirmed(items) == {i \in items : Qos[i] > 0}
Errors(packets) ==
  LET failing == Selected(packets, [kind : {"publish"}, item : Items, id : PacketIds])
  IN [k \in DOMAIN failing |-> [kind |-> "senterror", id |-> failing[k].id]]
Fail(packets) ==
  [i \in Items |-> IF Qos[i] = 0 /\ i \in Range(PublishedIn(packets))
                   THEN "failed" ELSE told[i]]

\* acquired_async_publish and async_subscribe: queued behind what is being
\* written, or failed when there is no session to write to.
ToClient(packets) ==
  IF session = "open"
  THEN /\ wire' = wire \o packets
       /\ tasks' = Tail(tasks)
       /\ UNCHANGED told
  ELSE /\ tasks' = Tail(tasks) \o Errors(packets)
       /\ told' = Fail(packets)
       /\ UNCHANGED wire

\* publish_inprogress_[packet_id] = item.  Mutant: emplace, which keeps an entry.
KeptInProgressEmplaced(kept, new) ==
  [id \in DOMAIN kept \cup DOMAIN new |-> IF id \in DOMAIN kept THEN kept[id] ELSE new[id]]
KeptInProgress(kept, new) ==
  [id \in DOMAIN kept \cup DOMAIN new |-> IF id \in DOMAIN new THEN new[id] ELSE kept[id]]

\* acquire_unique_packet_id, for each of these items.
Acquisitions(items) ==
  {ids \in [items -> PacketIds \ acquired] : IsInjective(ids)}

\* SafePublish of a sequence of items, state_ being Connected, behind packets.
\* An entry of publish_inprogress_ with the same packet id is overwritten.
HandOver(packets, items) ==
  \E ids \in Acquisitions(Confirmed(Range(items))) :
    /\ handed' = handed \o items
    /\ acquired' = acquired \cup Range(ids)
    /\ publish_inprogress_' = KeptInProgress(publish_inprogress_, AntiFunction(ids))
    /\ ToClient(packets \o [k \in DOMAIN items |-> PublishPacket(items[k], ids)])

\* Mutant: a message published while disconnected is dropped.
SafePublishDropped(i) ==
  /\ IF state_ # "Connected"
     THEN /\ tasks' = Tail(tasks)
          /\ UNCHANGED <<publish_queue_, publish_inprogress_, acquired, wire, handed,
                         told>>
     ELSE HandOver(<<>>, <<i>>) /\ UNCHANGED publish_queue_
  /\ UNCHANGED <<state_, subscriptions_, reconnect_timer_, session, written,
                 subscribed, received, connects, ends, published>>

SafePublish(i) ==
  /\ IF state_ # "Connected"
     THEN /\ publish_queue_' = Append(publish_queue_, i)
          /\ tasks' = Tail(tasks)
          /\ UNCHANGED <<publish_inprogress_, acquired, wire, handed, told>>
     ELSE HandOver(<<>>, <<i>>) /\ UNCHANGED publish_queue_
  /\ UNCHANGED <<state_, subscriptions_, reconnect_timer_, session, written,
                 subscribed, received, connects, ends, published>>

SafeSubscribe(S) ==
  /\ subscriptions_' = subscriptions_ \cup S
  /\ IF state_ = "Connected" THEN ToClient(<<SubscribeTask(S)>>)
     ELSE tasks' = Tail(tasks) /\ UNCHANGED <<wire, told>>
  /\ UNCHANGED <<state_, publish_queue_, publish_inprogress_, reconnect_timer_,
                 session, acquired, written, subscribed, received, connects, ends,
                 published, handed>>

\* Mutant: nothing is subscribed to after a reconnect.
ResubscribeNever == <<>>
Resubscribe == IF subscriptions_ = {} THEN <<>> ELSE <<SubscribeTask(subscriptions_)>>

\* Mutant of ConnAckHandler: publish_queue_ is left for the next Publish to flush.
ConnAckHandlerNoFlush(accepted) ==
  /\ tasks' = Tail(tasks)
  /\ state_' = IF accepted THEN "Connected" ELSE state_
  /\ wire' = IF accepted /\ session = "open" THEN wire \o Resubscribe ELSE wire
  /\ UNCHANGED <<publish_queue_, publish_inprogress_, handed, told, subscriptions_,
                 reconnect_timer_, session, acquired, written, subscribed, received,
                 connects, ends, published>>

\* A refused CONNACK changes nothing: the broker is expected to hang up.
ConnAckHandler(accepted) ==
  /\ IF accepted
     THEN /\ state_' = "Connected"
          /\ publish_queue_' = <<>>
          /\ HandOver(Resubscribe, publish_queue_)
     ELSE /\ tasks' = Tail(tasks)
          /\ UNCHANGED <<state_, publish_queue_, publish_inprogress_, acquired, wire,
                         handed, told>>
  /\ UNCHANGED <<subscriptions_, reconnect_timer_, session, written, subscribed,
                 received, connects, ends, published>>

\* Mutants: no timer is started; state_ keeps its value.
EndHandlerNoTimer ==
  /\ state_' = "Disconnected"
  /\ tasks' = Tail(tasks)
  /\ UNCHANGED <<reconnect_timer_, publish_queue_, publish_inprogress_, subscriptions_,
                 client, published, handed, told>>
EndHandlerKeepsState ==
  /\ reconnect_timer_' = "armed"
  /\ tasks' = IF reconnect_timer_ = "armed"
              THEN Append(Tail(tasks), [kind |-> "timer", aborted |-> TRUE])
              ELSE Tail(tasks)
  /\ UNCHANGED <<state_, publish_queue_, publish_inprogress_, subscriptions_, client,
                 published, handed, told>>

\* ErrorHandler and FinishHandler, with StartReconnectTimer: the wait that was
\* pending completes with operation_aborted.
EndHandler ==
  /\ state_' = "Disconnected"
  /\ reconnect_timer_' = "armed"
  /\ tasks' = IF reconnect_timer_ = "armed"
              THEN Append(Tail(tasks), [kind |-> "timer", aborted |-> TRUE])
              ELSE Tail(tasks)
  /\ UNCHANGED <<publish_queue_, publish_inprogress_, subscriptions_, client,
                 published, handed, told>>

\* Mutant: an aborted wait is taken for an expired one.
OnReconnectTimerUnchecked(aborted) ==
  /\ tasks' = Tail(tasks)
  /\ IF state_ # "Disconnected"
     THEN UNCHANGED <<session, acquired, wire, written, subscribed, connects>>
     ELSE /\ session' = "connecting"
          /\ connects' = connects + 1
          /\ acquired' = {} /\ wire' = <<>> /\ written' = 0 /\ subscribed' = {}
  /\ UNCHANGED <<state_, publish_queue_, publish_inprogress_, subscriptions_,
                 reconnect_timer_, received, ends, published, handed, told>>

\* state_ stays Disconnected: Connecting is never assigned.  The client asks for
\* a clean session, and the broker forgets the subscriptions.
OnReconnectTimer(aborted) ==
  /\ tasks' = Tail(tasks)
  /\ IF aborted \/ state_ # "Disconnected"
     THEN UNCHANGED <<session, acquired, wire, written, subscribed, connects>>
     ELSE /\ session' = "connecting"
          /\ connects' = connects + 1
          /\ acquired' = {} /\ wire' = <<>> /\ written' = 0 /\ subscribed' = {}
  /\ UNCHANGED <<state_, publish_queue_, publish_inprogress_, subscriptions_,
                 reconnect_timer_, received, ends, published, handed, told>>

Tell(id, how) ==
  /\ tasks' = Tail(tasks)
  /\ publish_inprogress_' =
       Restrict(publish_inprogress_, DOMAIN publish_inprogress_ \ {id})
  /\ told' = [told EXCEPT ![publish_inprogress_[id]] = how]
  /\ UNCHANGED <<state_, publish_queue_, subscriptions_, reconnect_timer_, client,
                 published, handed>>

NotFound ==
  /\ tasks' = Tail(tasks)
  /\ UNCHANGED <<state_, publish_queue_, publish_inprogress_, subscriptions_,
                 reconnect_timer_, client, published, handed, told>>

InProgress(id, qoses) ==
  id \in DOMAIN publish_inprogress_ /\ Qos[publish_inprogress_[id]] \in qoses

\* An acknowledgement of the other kind is ignored, and the entry stays.
PublishAcknowledgedHandler(id) ==
  IF InProgress(id, {1}) THEN Tell(id, "ok") ELSE NotFound

PublishCompletedHandler(id) ==
  IF InProgress(id, {2}) THEN Tell(id, "ok") ELSE NotFound

\* Mutant: the error is passed on as it is.
AsyncPublishCallbackRaw(id) ==
  IF InProgress(id, {1, 2}) THEN Tell(id, "senterror") ELSE NotFound

AsyncPublishCallback(id) ==
  IF InProgress(id, {1, 2}) THEN Tell(id, "failed") ELSE NotFound

RunTask ==
  /\ tasks # <<>>
  /\ LET t == Head(tasks)
     IN \/ t.kind = "publish"   /\ SafePublish(t.item)
        \/ t.kind = "subscribe" /\ SafeSubscribe(t.topics)
        \/ t.kind = "connack"   /\ ConnAckHandler(t.accepted)
        \/ t.kind \in {"error", "finish"} /\ EndHandler
        \/ t.kind = "timer"     /\ OnReconnectTimer(t.aborted)
        \/ t.kind = "puback"    /\ PublishAcknowledgedHandler(t.id)
        \/ t.kind = "pubcomp"   /\ PublishCompletedHandler(t.id)
        \/ t.kind = "senterror" /\ AsyncPublishCallback(t.id)

\* Five seconds are enough for the tasks already posted to run.
TimerExpires ==
  /\ reconnect_timer_ = "armed" /\ tasks = <<>>
  /\ reconnect_timer_' = "off"
  /\ tasks' = Append(tasks, [kind |-> "timer", aborted |-> FALSE])
  /\ UNCHANGED <<state_, publish_queue_, publish_inprogress_, subscriptions_, client,
                 published, handed, told>>

-----------------------------------------------------------------------------
(* The client and the broker (external).                                    *)

BrokerAnswers ==
  /\ session = "connecting"
  /\ \E accepted \in BOOLEAN :
       /\ ~accepted => ends < MaxEnds
       /\ session' = IF accepted THEN "open" ELSE "refused"
       /\ tasks' = Append(tasks, [kind |-> "connack", accepted |-> accepted])
  /\ UNCHANGED <<state_, publish_queue_, publish_inprogress_, subscriptions_,
                 reconnect_timer_, acquired, wire, written, subscribed, received,
                 connects, ends, published, handed, told>>

Acknowledge(p) == [kind |-> IF Qos[p.item] = 1 THEN "puback" ELSE "pubcomp", id |-> p.id]

\* The handler of a write that succeeded.  Of a message of quality of service 0 it
\* calls the callback, whether the packet will reach the broker or not.
WriteCompletes ==
  /\ session = "open" /\ written < Len(wire)
  /\ written' = written + 1
  /\ LET p == wire[written + 1]
     IN told' = IF p.kind = "publish" /\ Qos[p.item] = 0
                THEN [told EXCEPT ![p.item] = "ok"] ELSE told
  /\ UNCHANGED <<tasks, state_, publish_queue_, publish_inprogress_, subscriptions_,
                 reconnect_timer_, session, acquired, wire, subscribed, received,
                 connects, ends, published, handed>>

BrokerReceives ==
  /\ session = "open" /\ written > 0
  /\ wire' = Tail(wire)
  /\ written' = written - 1
  /\ LET p == Head(wire)
     IN IF p.kind = "subscribe"
        THEN subscribed' = subscribed \cup p.topics /\ UNCHANGED <<tasks, received>>
        ELSE /\ received' = received \cup {p.item}
             /\ tasks' = IF Qos[p.item] = 0 THEN tasks ELSE Append(tasks, Acknowledge(p))
             /\ UNCHANGED subscribed
  /\ UNCHANGED <<state_, publish_queue_, publish_inprogress_, subscriptions_,
                 reconnect_timer_, session, acquired, connects, ends, published, handed,
                 told>>

\* The connection (or the attempt) ends.  Of the packets that were written the
\* first m still reach the broker, whose acknowledgements are lost, and those not
\* written fail.  The client calls the finish handler, after the error handler or
\* alone.
SessionEnds ==
  /\ session # "none" /\ ends < MaxEnds
  /\ ends' = ends + 1
  /\ session' = "none"
  /\ wire' = <<>> /\ written' = 0
  /\ LET failed == SubSeq(wire, written + 1, Len(wire))
     IN \E m \in 0 .. written,
           last \in {<<[kind |-> "finish"]>>, <<[kind |-> "error"], [kind |-> "finish"]>>} :
          /\ received' = received \cup Range(PublishedIn(SubSeq(wire, 1, m)))
          /\ told' = Fail(failed)
          /\ tasks' = tasks \o (Errors(failed) \o last)
  /\ UNCHANGED <<state_, publish_queue_, publish_inprogress_, subscriptions_,
                 reconnect_timer_, acquired, subscribed, connects, published, handed>>

Next ==
  \/ \E i \in Items : Publish(i)
  \/ \E S \in SUBSET Topics : Subscribe(S)
  \/ RunTask
  \/ TimerExpires
  \/ BrokerAnswers \/ WriteCompletes \/ BrokerReceives \/ SessionEnds

\* The io_service runs posted tasks and expired timers; the broker answers a
\* CONNECT and hangs up after it refused one.  MaxEnds bounds how often it fails.
Fairness ==
  /\ WF_vars(RunTask) /\ WF_vars(TimerExpires)
  /\ WF_vars(BrokerAnswers)
  /\ WF_vars(session = "refused" /\ SessionEnds)

Spec     == Init /\ [][Next]_vars
FairSpec == Spec /\ Fairness

-----------------------------------------------------------------------------
(* Properties.                                                              *)

\* Until the client has it, a message is never lost, doubled or overtaken: what
\* the client was given, then publish_queue_, then the tasks, are the messages in
\* the order of Publish, across any number of reconnections (SafePublish, and the
\* queue_copy of ConnAckHandler).
HandoverOrder == handed \o publish_queue_ \o PublishedIn(tasks) = published

\* Connected, nothing waits in publish_queue_: only ConnAckHandler empties it.
ConnectedDrainsQueue ==
  tasks = <<>> /\ session = "open" => state_ = "Connected" /\ publish_queue_ = <<>>

\* The broker forgets subscriptions with the session: once the CONNACK of a
\* session is handled, every topic ever asked for is subscribed to or on its way.
Resubscribed ==
  session = "open" /\ (\A k \in DOMAIN tasks : tasks[k].kind # "connack") =>
    subscriptions_ \subseteq subscribed \cup TopicsIn(wire)

\* Without a session, and with every callback handled, the wrapper knows it and
\* a reconnect is due.
NeverStranded ==
  tasks = <<>> /\ session = "none" =>
    state_ = "Disconnected" /\ reconnect_timer_ = "armed"

\* connect is not called before the previous connection has ended, although both
\* ErrorHandler and FinishHandler of one connection start the timer.
OneSession == connects = ends + (IF session = "none" THEN 0 ELSE 1)

\* Above quality of service 0 (main uses 1 throughout), the callback of a message
\* reports success only if the broker has this message, although an
\* acknowledgement names a packet id only, and entries of sessions that ended stay
\* in publish_inprogress_ under ids the next session uses again.  At quality of
\* service 0 success says only that the message was written (WriteCompletes).
AckedMeansReceived ==
  \A i \in Items : Qos[i] > 0 /\ told[i] = "ok" => i \in received

\* A published message is handed to the client, whatever happened to the
\* connections before, if at last one lasts.
EveryMessageHandedOver ==
  \A i \in Items : (i \in Range(published)) ~> (i \in Range(handed))

\* A lost or refused connection is followed by one the broker accepts.
Reconnects == (session \in {"none", "refused"}) ~> (session = "open")

\* The handlers of main log "Published OK" when the future of Publish is ready.
\* That future is the one of the task: it says nothing about the broker.
FutureMeansReceived ==
  \A i \in Range(published) : i \notin Range(PublishedIn(tasks)) => i \in received
=============================================================================
