# AqaraHub in TLA+

AqaraHub connects Zigbee devices, reached over a ZNP dongle on a serial port, to
an MQTT broker. These modules specify the program as its source has it: what the
parts promise each other, how each of them is written, and what follows. Paths
below are relative to the repository.

## 1. The system

Everything runs on one thread, in `io_service.run()` (`src/main.cpp:967`). The
concurrency is that of handlers: every completion of a read, a write or a timer,
every posted task and every resumed coroutine runs to its end, and what was read
in one handler may be out of date in the next. Futures whose executor is
`stlab::immediate_executor` continue inside the handler that resolves them;
coroutines (`coro.h`) and the tasks of a `serial_queue` are posted.

| Component | State | Operations | Talks to |
|---|---|---|---|
| ZnpPort (`znp/znp_port.cpp`) | `send_queue_`, `send_in_progress_`, the pending read | SendFrame, TrySend, SendHandler, StartOfFrameHandler, FrameLengthHandler, FrameHandler | serial line; ZnpApi by `on_frame_`, main by `on_error_` |
| ZnpApi (`znp/znp_api.cpp`) | `handlers_`, timers, promises, signals | the 29 requests on top of RawSReq and WaitAfter; OnFrame; SysReset, WaitForState | ZnpPort; main and ZclEndpoint by futures and signals |
| Initialize (`main.cpp`) | where the coroutine is, the configuration read | reset, compare, rewrite, start, register | ZnpApi, MqttWrapper |
| ZclEndpoint (`zcl/zcl_endpoint.cpp`) | `last_msg_`, `send_trans_seq_nums_` | OnIncomingMsg, SendCommand | ZnpApi; main by `on_command_` |
| Hub functions (`main.cpp`) | what their continuations captured | OnIncomingMsg, OnZclCommand, OnPublish, SendCommand, reports on joining | all of the above |
| MqttWrapper (`mqtt_wrapper_impl.h`) | `state_`, `publish_queue_`, `publish_inprogress_`, `subscriptions_`, `reconnect_timer_` | Publish, Subscribe, the client's callbacks, the timer | mqtt_cpp client; main by `on_publish_` and futures |
| dynamic_encoding | `Context` of one call | Encode, Decode | ClusterDb's types |
| ClusterDb (`clusterdb/`) | the parsed `clusters.info`, read-only after the start | ParseFromFile; lookups by id and name | main, dynamic_encoding |
| ZNP/ZCL codecs (`znp/encoding.h`, `zcl/encoding.*`) | none | Encode, Decode, DecodePartial of every message | ZnpApi, ZclEndpoint, dynamic_encoding |
| coro, executors, weak_bind | suspended coroutines, posted handlers | Run, resume | io_service |
| URI and MQTT URL parsing | none | run once | main |
| Enums, printing, logging | none | tables | everything |

What is hard about it:

* **Answers without an id.** A reply is matched to a call by its command and by
  the order of `handlers_`. Concurrent calls of one command, replies that two
  commands share, frames lost to a checksum, requests that could not be sent,
  calls that timed out and were made again all disturb that order.
* **Two-phase calls.** The handler for the second answer must be in the list
  before that answer arrives, and may race its timer.
* **A dongle with a memory.** Its configuration survives crashes of the program,
  which rewrites it option by option; its own resets drop what it was sent.
* **A broker that comes and goes.** `state_` is written by tasks that run after
  the fact; messages must neither vanish nor overtake one another in the queue
  while the connection is re-established, and subscriptions must be made again.
* **Addresses that are looked up late.** The topic of a message is found by two
  asynchronous lookups after its reception, while its sender may move.
* **Numbers of every width** between JSON and the wire: signed and unsigned integers
  of one to eight bytes, bitmaps, floats of two, four and eight bytes.
* **Messages of others.** Devices send attributes of a size they do not have, the
  dongle sends more bytes than documented; a read must never pass the end.
* **Names as addresses.** A topic names device, endpoint, cluster and command; names
  come from a file, with characters removed. Several hubs share a broker, may share
  a prefix, and each receives what the others, and itself, publish.

What makes each component correct:

* ZnpPort: frames arrive whole, unaltered and in order; damage costs one frame.
* ZnpApi: a call hears its own answer, once, or fails; nobody waits for a call
  nobody listens for; success is never reported from another request's answer.
* Initialize: no network runs with an option that is not the desired one;
  when it returns the network is up, closed, and the endpoint registered; it ends.
* MqttWrapper: order and completeness up to the hand-over to the client, one
  connection at a time, always reconnecting, always subscribed.
* ZclEndpoint and the hub: each message published once, in order, under the
  device that sent it; each command sent to the device it names.
* The codecs and dynamic_encoding: what is encoded decodes to itself, what does not
  fit and what was cut short is refused, no attribute swallows the next one.
* ClusterDb and the topics: a topic means one device, one command; a request does
  what it asks, in the hubs it is for, and nothing else does.

## 2. The modules

| Module | What it is | Lines of source it stands for |
|---|---|---|
| `ZnpOps` | the 29 requests as records: command, accepted replies, second phase, timeout, what is compared | `znp_api.cpp:46-330` |
| `ZnpApi` | RawSReq, OnFrame, WaitAfter/WaitFor, AddHandlerWithTimeout, with dongle and lossy line | `znp_api.cpp:332-564` |
| `Rpc` | what users of ZnpApi rely on: ask, answer, hear the answer once | abstract |
| `ZnpApiProofs` | theorems about ZnpApi | |
| `ZnpApiRefinement` | theorems about its second phase, and that it implements `Rpc` | |
| `ZnpPort` | sender and receiver on a serial line, byte for byte | `znp_port.cpp` |
| `ZnpPortProofs` | theorems about ZnpPort, and that it implements `FrameLink` | |
| `FrameLink` | what ZnpApi relies on: a FIFO of whole frames that may lose some | abstract |
| `MqttWrapper` | the serial queue's tasks, the client, the broker | `mqtt_wrapper_impl.h` |
| `MqttWrapperProofs` | theorems about MqttWrapper | |
| `Startup` | Initialize, SysReset, WaitForState, restarts, the dongle's memory | `main.cpp:33-108, 663-752, 946-957`, `znp_api.cpp:33-44, 348-395` |
| `StartupProofs` | theorems about Startup | |
| `Hub` | the ways of a message and of a command through ZclEndpoint and main | `main.cpp:152-357, 447-661`, `zcl_endpoint.cpp` |
| `HubProofs` | theorems about Hub | |
| `Lists`, `ListLemmas` | elements selected from a list, counted in it, none of a kind after another; what the proofs use of them | |
| `ClusterDb` | clusters.info into a database, and its lookups | `clusterdb/*`, `main.cpp:761-764` |
| `Topics` | what each hub publishes where, and what each topic makes it do | `main.cpp:110-388, 390-661, 744-750` |
| `ClusterTypes` | the types of arguments, and what a frame may decode to | `clusterdb/cluster_db.cpp:21-108`, `dynamic_encoding/decoding.cpp` |
| `TopicsProofs` | theorems about Topics | |
| `ZnpEncoding` | the encoder of the dongle's messages, floats among them | `znp/encoding.h` |
| `ZclEncoding` | ZCL frames and ZclVariant | `zcl/encoding.h`, `zcl/encoding.cpp`, `zcl/zcl.h` |
| `DynamicEncoding` | JSON to ZCL and back, as functions of type and value | `dynamic_encoding/*.cpp` |
| `Codecs` | values and messages through these encoders and decoders, whole and damaged | `main.cpp:160-169, 543-561`, `znp_api.h:170-199` |
| `MC...` | instances for TLC: repertoires of calls, messages, values | |

The levels fit together. `ZnpPort` implements `FrameLink`, which is the line
`ZnpApi` has in each direction (`toDongle`, `fromDongle`, `LoseFrame`). `ZnpApi`
implements `Rpc`. `Startup` and `Hub` use ZnpApi as these results describe it: an
awaited request gets its own answer (`OwnReply`), lookups of one command form a
FIFO of handlers. `Hub` ends where `MqttWrapper` begins, at Publish. `Topics` takes the
lookups of `Hub` for granted and follows the names instead; the JSON of its messages
is what `DynamicEncoding` makes, which reads floats with `ZnpEncoding`.

### State and actions against the code

* **ZnpApi.** The list `handlers_` is kept as positions: `phase[c]` says which
  lambda of call `c` is listed (that of RawSReq, of WaitFor, either of them dead),
  `at[c]` where, `tail` where the next `push_back` goes. `Consume` is OnFrame up to
  the first handler that takes the frame, with the continuations that run inside
  it: CheckStatus, the comparison of the reply (`Outcome`), the push of the second
  handler and its timer (`WaitFor`). Handlers whose timer fired are erased only
  when OnFrame passes them (`Swept`). `OnTimer` is the completion of `async_wait`;
  the timer is not cancelled by an answer, and tests `active`. A request that
  SendFrame refuses has pushed its handler before the exception (`"orphan"`). The
  handlers of AddSimpleEventHandler, which the constructor puts first and which are
  never erased, match other commands and change no state of the class: their signals
  are actions of `Startup`, `Hub` and `Topics`, their decoding is in `ZnpEncoding`.
* **ZnpPort.** `send_queue`, `send_in_progress` are the members; `written` the
  progress of async_write; `reading` and `need` the pending async_read. The
  receiver at the other end of the line is this same class. `on_error_` stops the
  program (`OnError`).
* **MqttWrapper.** `tasks` is `mutex_queue_`; `RunTask` runs the front one as the
  private function it calls. The constructor leaves `state_` uninitialized, so Init
  leaves it arbitrary. `SessionEnds` is the client's connection breaking at any point:
  what was not yet written fails, a prefix of what was reaches the broker, the finish
  handler is called, with or without the error handler. `written` says how far the
  client's writes are. `WriteCompletes` is the handler of one: a message of QoS 0 is
  told "ok" by it, whatever the broker gets of it later; for one of the other kinds a
  task is posted that does nothing when the write succeeded, and is left out.
  `BrokerReceives` tells the program nothing. `publish_inprogress_` is keyed by packet
  id, as in the code; the client hands out any id it has not used in the session
  (`Acquisitions`), so a later session meets the entries an earlier one left behind.
* **Startup.** `pc` names the await Initialize is at, `awaiting` the answers `when_all`
  still needs. `Resume` is the coroutine from one await to the next, posted by
  `ScheduleCoroutineResume`. `FieldOrder` lists the options in the order in which they
  are read and written. `Restart` is the program killed, or exited and started again,
  with part of its last requests still on the way and the old answers read or lost.
  `Grants`, `Declines` and `Fails` are the dongle's answers: as asked, the refusal to
  start that `ZDO_STARTUP_FROM_APP` reports as an ordinary value (`Leave`, which
  Initialize only logs), and an error. The option values are abstracted to: the one
  desired, the factory's, another; the PAN ID keeps its wildcard.
* **Hub.** Messages are numbered by reception; ZCL payloads are a sequence number and a
  body, compared for equality only. `handlers` holds the RawSReq handlers of the two
  lookups with what their continuations captured; `Served` is the oldest and what is
  left. `Asked` are the lookups a message starts: one for its publication, unless the
  filter or the database stops it, and one for its link quality. The two slots of
  `af_on_incoming_msg_` run in one step, in the order they were connected. A device that
  rejoins takes any address that is free and that it has not had before, perhaps one
  another device left; `former` are the addresses it had.
* **Topics and ClusterDb.** Texts are sequences of tokens: words, numerals, slashes and
  the prefixes of types. Reading and printing numbers are functions given as constants,
  so that "16" is another device than "0010" in one base and another. A file is a
  property tree of three levels; below them are the arguments of a command, which may
  nest as deep as they like. A list of the file becomes the set of its items if none is
  refused and no two have an id or a name in common, which is what adding them one after
  the other comes to; a refused file ends the program. What is recursive over data, the
  type made of the arguments and the values a frame may decode to, is in `ClusterTypes`;
  `ClusterDb` and `Topics` take it as the constants `ObjectType` and `Decoded`, of which
  they assume only that a type has no properties exactly if there were no arguments
  (`ObjectTypeAssumption`), and the run gives it to them. `PublishValue` puts the
  messages of parts in behind what they are parts of, depth by depth down to `Nesting`,
  which gives the order of the code's recursion. Handlers of messages keep no state: a
  behaviour is one request of a user, one frame of a device or reports of the dongle,
  delivered by the broker to every hub that subscribes. `acts` is what each hub did with
  the last delivery.
* **The codecs.** A byte has `ByteBits` bits, the 64-bit and the int type `LongBytes`
  and `IntBytes` bytes, so that every boundary is small enough to be enumerated; the
  formulas are those of the code. `AsUnsigned` is `as<unsigned int>()`, which casts a
  number of JSON to `IntBytes` bytes before its range is checked. A shift by the width
  of its type is undefined and `build` says what the compiler made of it. Characters
  count as bytes. The templates of `znp/encoding.h` become one operator on the shape of
  a message. Floats are fractions `n * 2^e` with the precision of the C++ type;
  `Log2RoundsUp` is where `std::log2`, rounded, reaches the next whole number. Decoding
  in `DynamicEncoding` gives the set of what is decoded: one value with the data left,
  or nothing where the code throws. `Context::last_attribute_id` travels with the data
  left.

External actions (dongle, devices, broker, mqtt_cpp client, serial line) are
modelled from how the code uses them and marked external in `PROJECT.json`.

## 3. What the runs check

All runs finish within three minutes on two cores.

| Run | States | Shows |
|---|---|---|
| `znpapi` | 369 000 | ZnpApi implements Rpc; untimed calls get their own AREQ; the second handler is listed when the AREQ arrives; a success is never another request's answer |
| `znpapi_live` | 139 000 | own SRSP, a future is pending exactly while a handler listens, results are final, a timed-out call is silent; every call resolves unless a frame was lost; a timed wait ends even so |
| `znpport` | 15 000 | the line implements FrameLink; one damaged frame is one lost frame; every frame is read |
| `mqtt` | 274 000 | order and completeness up to the client, acknowledgements reach their own message although ids are reused, one connection, resubscription, reconnection, every message handed over |
| `startup` | 616 000 | no network on a half-written configuration, ready means up, no double registration, a start ends or was declined |
| `hub` | 1 391 000 | right device unless it moved, once, in order, only duplicates dropped, commands to an address of the device named |
| `encoding` | 50 000 | round trip through all encoders, refusal or rounding of what does not fit, refusal of what was cut short, extra bytes left alone, FF01 attributes contained |
| `names` | 17 000 | a request makes the hubs that are meant act, and no others; no hub acts on a report; a topic names the frame it was published for |
| `mqtt_future` | violation | finding 1 |
| `startup_panid` | violation | finding 2 |
| `encoding_widemap` | violation | finding 3 |
| `encoding_intrange` | violation | finding 4 |

### Bounds, and why they suffice

* `znpapi`: `MaxCalls = 3` calls out of a repertoire of five, `MaxDrops = 1`. Two calls
  to confuse and a third that is shifted by the loss; the repertoire has two data
  requests to different endpoints (compared replies), one over 255 bytes (orphan), a
  bind and its retry (timers, prefixes). The last two are the same request and
  symmetric; every property of the run treats them alike. `InOrder`: the dongle sends
  confirms of one command in the order of the requests, without which the code can not
  tell equal ones apart.
* `znpapi_live`: a repertoire with a reply two commands share
  (ZdoExtRemoveGroup, ZdoExtRemoveAllGroup), AREQs in any order.
* `znpport`: three frames are one being written, one queued behind it, one sent
  after the queue drained; payloads contain the start-of-frame byte where it could
  deceive the reader; one stray byte, which may have any value
  but the marker's, and one changed byte, for which three values stand (`Garbled`), the
  marker among them. The proofs are about any.
* `mqtt`: `MaxPublished = 2` messages out of five, one of QoS 0 and two of each other:
  one to be lost and one to be confused with it, of the same or another kind of
  acknowledgement. Two `PacketIds`, which every session hands out anew. One topic,
  `MaxEnds = 2`: an end during the reconnection after an end. Publish and Subscribe may
  happen at any time.
* `startup`: every content of the dongle's memory over `startup_option`, `pan_id` and
  two options compared as they are; one failed answer; two restarts (a crash in the
  start after a crash); one spontaneous reset; one declined start. The eight options
  differ only in the comparison of the PAN ID; four of them, in the order `LastFirst`,
  stand for all.
* `hub`: two devices, three addresses, three messages and commands together, one fault
  of any kind or two rejoins, by which an address passes from one device to the other
  (`Budgets`); `TsnMod = 2` lets sequence numbers wrap around within the three.
* `encoding`: `ByteBits = 3`: values 0, the byte boundary and both neighbours of every
  power of two of a width, unsigned ones also beyond it and below 0; signed and unsigned
  integers of one to seven bytes; all single bits and all or none of a bitmap, strings
  and arrays up to two elements, nested types; every message of the dongle with a shape
  of its own; frames with every header; all numbers of five bits in and beyond two small
  floats, but for the binade of the infinities; reports with one or two items in an FF01
  attribute whose size is one too small, right or one too large, and an attribute behind
  it; every cut of every encoding, and one byte too many.
* `names`: ten files, one good and nine with one mistake each (equal names, also once
  slashes are gone, nothing left of a name, equal ids, ids too wide, unknown types and
  directions, a name of a global command); `Nesting = 4` is as deep as the values of
  these files go, and `Values` are these values and their parts; two hubs with one
  prefix and one with none; numerals that name one device in base 16 and would be
  another number in base 10; times 0, 60, 254, 255. One request or frame per behaviour,
  since the handlers keep no state.

### Fairness

Weak fairness only, and only where something guarantees progress: the io_service
runs ready handlers and expired timers (`OnFrame`, `OnTimer`, `Resume`, `RunTask`,
`TimerExpires`, reads and writes of the port); the dongle serves the requests it
got (`DongleServe`, `DongleConfirm`, `DongleForms`); the broker answers a CONNECT
and closes a connection it refused. None for calls made by users, for losses,
crashes, resets or ends of a session: these are bounded by `Max...` constants, and
liveness says what happens when they are over. The reconnect timer of five seconds
expires only when the tasks already posted have run, for which five seconds suffice; so
it does not expire between the tasks of the error and of the finish of one connection.

CHECK_DEADLOCK is FALSE in every run: the calls are bounded, and when all are made
and answered the system rests.

### Exceptions built into the properties

Some promises hold only while a certain kind of fault did not happen, and the
property says so:

* `OwnReply`, `OwnConfirm`, `ConfirmFindsWaiter`, `EveryCallResolves`: `Lossless`,
  no frame lost and no SREQ refused by SendFrame. After a loss the replies of a
  command shift from call to call. `CheckedReply` holds regardless, `Rpc` says what
  else is left.
* `RightDevice` excludes a lost answer of a lookup: the shifted answers then name
  the wrong device. This follows from the previous item, and is the reason. It also
  excludes a message whose sender has left the short address it was sent from: the
  lookup comes after the reception, finds nobody or the next holder of the address, and
  the message is published under no device or under that one.
* `OnlyDuplicatesIgnored` excludes failed lookups (logged, dropped) and the messages of
  `Repeats`: those that equal the one their sender sent to the endpoint before. A device
  sends two equal ones in a row where it started to count anew, or where it sent
  `TsnMod` messages meanwhile, the others to another endpoint, so that its number came
  round; a repeated report is then lost. In the code that takes 256 messages. And the
  filter knows addresses only: the first message of a device that takes over an address
  may equal the last of the device that left it.
* `CommandsArrive` lets a command go to an address its device has left: one that it left
  between the lookup and the command, and which may be another's by then. It excludes a
  lost answer of a lookup, as `RightDevice` does.
* `AckedMeansReceived` is about QoS 1 and 2, which the broker acknowledges. A message of
  QoS 0 is reported as sent when it has been written. It holds for a client that uses an
  id once per session: 65535 messages of one session are not all unacknowledged at once.
* `ActsAsAsked` and `TopicsNameTheFrame` require `DistinctNames`: in a file where a
  command of a cluster has the name of a global one, the global one is found first. It
  also requires the commands of a cluster in its two directions to have different names.
  `ActsAsAsked` requires `NamesLeft`: of a name that is nothing but slashes an empty
  level of a topic is left, which the regular expressions of `OnPublish` do not match,
  so such a command can not be asked for. `clusters.info` has no such name.
* `ActsAsAsked` is about hubs that are `Apart`: of two prefixes none begins the other, a
  hub without a prefix shares a broker only with prefixes that do not look like its own
  topics, and two instances differ by more than a slash at the end. The program can not
  check this, each hub knows its own options only. Elsewhere a topic may be that of two
  hubs, and both act. The run's hubs are (`ApartAssumption`); the theorem has it as its
  hypothesis.
* `RoundTrip` and `RefusesOthers` fail for some kinds of value, which the passing run
  leaves out. Five have a configuration that shows it: bitmaps as wide as an int or wider
  and numbers just outside a signed type, which are findings 3 and 4; integers of eight
  bytes, numbers cast to 32 bits and floats in the binade of the infinities
  (`MCCodecs_wideint.cfg`, `MCCodecs_narrowed.cfg`, `MCCodecs_bigfloat.cfg`). Two are in
  no configuration: strings as long as the marker of an invalid one, and floats just
  below a power of two. Section 4 says what the code does with each.
* `ReadyMeansUp` excludes a dongle that reset on its own; nothing listens to
  RESET_IND after the start. `StartEnds` excludes starts during which it reset or
  the program was restarted: a discarded request has no timeout. It also excludes a start
  that the dongle declined: no state change follows, and WaitForState waits for ever.

## 4. Findings

1. **`FutureMeansReceived`** (`mqtt_wrapper_impl.h:63`). Publish returns the future
   of the posted task; the future the PUBACK resolves is built and dropped
   (`return package.second` is unreachable), and main logs "Published OK" on the
   former.
2. **`PanIdHonoured`** (`main.cpp:45`). A dongle with 0xFFFF stored is taken to match
   any `--panid`.
3. **`RoundTrip` of wide bitmaps** (`encoding.cpp:180`). `1 << current_bit` is an int.
4. **`RefusesOthers` of signed integers** (`encoding.cpp:40`). 200 is encoded as int8
   -56: the range check does not look at the sign bit that is kept.

Also met while modelling. Of the first three, TLC shows the violation with the
configuration named; the others are without one.

* Integers of eight bytes: the range check shifts a 64-bit value by 64
  (`encoding.cpp:37`), which is undefined. Where the processor masks the count, every
  uint64 but 0, and every int64 but 0 and -1, "does not fit in 64 bits"
  (`MCCodecs_wideint.cfg`, `RoundTrip`). The sign extension of the decoder shifts by 64
  likewise (`decoding.cpp:22`).
* Enumerations, items of data and octet strings, and attribute ids are read with
  `as<unsigned int>()` (`encoding.cpp:147, 217, 242, 328`), which casts before the range
  is checked: 2^32 + 1 is encoded as 1 (`MCCodecs_narrowed.cfg`, `RefusesOthers`).
* Semi numbers from 65536 to 131071 get the exponent of the infinities and are sent as
  infinity or NaN: `znp/encoding.h:343` compares with one more than the comment below it
  says (`MCCodecs_bigfloat.cfg`, `RefusesOthers`).
* A string of 255 bytes is encoded with the length that marks an invalid string
  (`dynamic_encoding/encoding.cpp:255`), and so is one of `ZclVariant`.
* Floats just below a power of two are not encoded: `std::log2` rounds up to the next
  whole number, the mantissa becomes negative and "Mantissa failure" is thrown
  (`znp/encoding.h:337`), for instance for the single 7.9999995. A mantissa rounded
  up to the next power of two stays one unit below it.
* `ZclVariant`, which only tests use: negative integers of 3, 5, 6 and 7 bytes are read
  back as positive ones, their invalid value is not recognised, and the contents of a
  16-bit string are lost.
* The value of `ZdoStartupFromApp` is only logged (`main.cpp:705-706`). A dongle that
  answers `Leave` ("leave and not started") leaves Initialize waiting for ever.
* A message is published under whatever device has the sender's short address when the
  lookup is served (`main.cpp:643`), and the duplicate filter may take the first message
  of a device for one of the former holder of its address (`zcl_endpoint.cpp:44`).
* A message of QoS 0 is reported as sent when it has been written
  (`mqtt_wrapper_impl.h:102-113`); main publishes with QoS 1.
* The endpoint of a topic is cut to 8 bits (`main.cpp:346`): endpoint 257 is endpoint 1.
  The instance of a hub is put into a regular expression as it is (`main.cpp:329, 334`);
  the model takes it for plain text.

## 5. What is proved

Every theorem is for all values of the constants that meet the named assumptions of
the module: any number of calls, messages, devices, options, and any bounds.

| Module | Theorem | Statement |
|---|---|---|
| `ZnpApiProofs` | `TypeCorrect` | `Spec => []TypeOK` |
| | `StillListeningHolds` | `Spec => []StillListening` |
| | `TimeoutIsSilentHolds` | `Spec => []TimeoutIsSilent` |
| | `ResultIsFinalHolds` | `Spec => ResultIsFinal` |
| | `OwnReplyHolds` | `Spec => []OwnReply` |
| | `CheckedReplyHolds` | `Spec => []CheckedReply` |
| `ZnpApiRefinement` | `OwnConfirmHolds` | `InOrder => (Spec => []OwnConfirm)` |
| | `ConfirmFindsWaiterHolds` | `InOrder => (Spec => []ConfirmFindsWaiter)` |
| | `Refinement` | `InOrder => (Spec => ImplementsRpc)` |
| `ZnpPortProofs` | `TypeCorrect` | `Spec => []TypeOK` |
| | `OneLossPerError` | `Spec => []OneFrameLostPerError` |
| | `Refinement` | `Spec => ImplementsFrameLink` |
| `MqttWrapperProofs` | `TypeCorrect` | `Spec => []TypeOK` |
| | `OrderOfPublish` | `Spec => []HandoverOrder` |
| | `AcknowledgedReceived` | `Spec => []AckedMeansReceived` |
| | `QueueDrained` | `Spec => []ConnectedDrainsQueue` |
| | `SubscriptionsKept` | `Spec => []Resubscribed` |
| | `ReconnectDue` | `Spec => []NeverStranded` |
| | `OneSessionAtATime` | `Spec => []OneSession` |
| `StartupProofs` | `TypeCorrect` | `Spec => []TypeOK` |
| | `FreshRegister` | `Spec => []RegisterIsFresh` |
| | `RunsConfigured` | `Spec /\ [][Restart => Settled]_vars => []StartsConfigured` |
| | `ReadyIsUp` | `Spec /\ [][Restart => Settled]_vars => []ReadyMeansUp` |
| `HubProofs` | `TypeCorrect` | `Spec => []TypeOK` |
| | `RightDeviceHolds` | `Spec => []RightDevice` |
| | `OnceInOrderHolds` | `Spec => []OnceInOrder` |
| | `OnlyDuplicatesAreIgnored` | `Spec => []OnlyDuplicatesIgnored` |
| | `CommandsArriveInOrder` | `Spec => []CommandsArrive` |
| `TopicsProofs` | `TopicsNameTheFrameHolds` | `Spec => []TopicsNameTheFrame` |
| | `ActsAsAskedHolds` | `Apart => (Spec => []ActsAsAsked)` |

The assumptions are those on constants. `ZnpApi` assumes of its repertoire what every
record of `ZnpOps` satisfies: a call accepts the reply to its own request; an AREQ is
waited for with a timeout by all its requests or by none; only calls without a timeout
compare what comes back. `InOrder` is the hypothesis on the dongle of section 3.
Addresses of different devices differ (`Hub`), and a sequence number has at least two
values. The fields of a frame have their width, and stray and changed bytes are bytes
(`ZnpPort`). `Topics` assumes that numbers printed are read back (`NumeralAssumption`),
that the words of a topic are strings, which the provers do not know (`WordAssumption`),
that prefixes and instances are texts and a prefix ends with a slash (`TextAssumption`),
that the parts of a value are values (`ValueAssumption`), that a file is a tree
(`FileAssumption`) and what was said of `ObjectType`. None of the inductive invariants
is a run's property; each was checked by TLC on the instance of its module before it was
proved, but for the part of ZnpPort's that begins with an existential quantifier over
parses of the line; in those of Topics, the sets of all texts with a property were
replaced by the property for that.

### ZnpApi

*Listening.* `StillListening` is not inductive: that a resolved call is no longer
listed alive depends on the timer having fired for expired handlers only and on
`confirmed` being set by the handler of WaitFor alone. `ListenInv` adds these facts
(`Listening`, `Silence`) to `TypeOK`; one lemma per action shows it is preserved.
`ResultIsFinal` then follows step by step: the only actions that set a result
require a live handler.

*Own replies.* `ReplyInv` is the order argument of the design made explicit. The
SREQs on the wire, then the SRSPs on the wire, are one queue in the order of the
calls (`WireOrder`); the calls in that queue are exactly those whose RawSReq
handler is listed (`OnWire`), at positions in that same order (`Positions`). So the
front SRSP belongs to the first listed handler that accepts its command, even
where two commands share a reply. It holds while the line is lossless, which a
step can only end (`LossStays`); the inductive invariant is
`ListenInv /\ (Lossless => ReplyInv)`.

*Checked replies.* `CheckedReply` needs no lossless line. A call that succeeds was
compared with the frame its handler took, in the same step, and is then off the list
(`SuccessIsDone`); so no later frame changes what it consumed. That a call waiting for
an AREQ has a second phase, the other half of `SuccessIsDone`, decides which of the two
frames the comparison was about.

*Own confirms.* The handler for an AREQ is pushed when the SRSP is handled, so its
place in the list is that of the SRSP and not that of the call. `ConfirmInv` says that
the two orders agree (`Issue`), that a call waits for an AREQ exactly when the dongle
owes one or has sent one, which is then behind the SRSP (`Owes`), and that equal AREQs
are on the wire in the order of the calls (`ConfirmOrder`). `Ledger`, which holds
whatever is lost, ties the frames on the wire to what the dongle made of each request.
A timer takes its handler away while the AREQ may still come, which the next equal
call then takes; so these statements are about calls that are `Steady`: those without a
timeout, and all others until one of them has timed out. Calls with a timeout must not
share an AREQ with calls that have none, or they would disturb them: this is where
the assumption on the repertoire is needed.

*Refinement.* `Refinement` maps every step, one lemma per action: RawSReq is Rpc's ask,
DongleServe and DongleConfirm its answer, OnFrame its tell or a stutter, OnTimer its
give-up, the first lost frame its break. That what is told is the verdict on the call
itself comes from `OwnReplies`, `OwnConfirms` and `Truthful`; for a call with a timeout
`Rpc` allows the verdict of another once one of them timed out, and no more is true of
the code.

### ZnpPort

`IInv == Types /\ Queued /\ Framed /\ OneFrameLostPerError`. `Types` says that what is
queued and pending was encoded by SendFrame, `Queued` that the buffers of `send_queue`
are the last of the frames pending. `Framed` is the point: there is a parse of the line,
`own` and `at`, which gives each byte on it, and the next byte to come, the pending
frame it belongs to and its place in the encoding, 0 for a stray byte in front. Bytes of
a frame follow each other (`Whole`), behind its last byte the next begins (`Bounds`),
each is what was encoded there (`Spelled`). `Reader` says that the read pending is the
one for the place of the first byte, and `need` the size of that frame; `Writer` that
the next byte to come is the one at `written`. So the reader takes no byte of a payload
for a marker: bytes are only ever compared with it where a frame begins or a stray
byte is. The parse is not a variable: each action's lemma gives the next one, cut at the
front (`ParseRead`, `ParseDone`) or longer at the end (`ParseSent`).

That a frame with one changed byte is refused is arithmetic: a bit of the exclusive or is
the parity of that bit over all bytes; two different bytes differ in a bit, whose parity
then differs in every longer prefix, by induction (`ParityChanges`), and checksums that
are equal have equal parities (`ChecksumDiffers`). It does not matter whether the byte
changed is one of the frame or the checksum itself. The refinement follows: `FrameHandler`
is a delivery or a loss, every other step but SendFrame leaves `FrameLink` alone.

### MqttWrapper

`IInv == TypeOK /\ TimerInv /\ StateInv /\ IdInv`. What is hard is that `state_` and the
session differ while tasks wait. `StateInv` says which tasks those are: without a
session either the finish task waits or everything of the session has been handled and
the timer, or its task, is due; with an open session the CONNACK waits or is handled.
It needs the order of tasks (`NoneAfter(tasks, Downs, ConnAcks)`): a CONNACK behind an
end would say Connected of a session that is gone. `TimerInv` keeps the timer of one
end from firing into the next session. `IdInv` follows a packet id from the wire to the
acknowledgement and says that an entry left in `publish_inprogress_` by an earlier
session was overwritten before its id can be acknowledged in this one; with it
`AckedMeansReceived` is inductive. `HandoverOrder`
and `Resubscribed` are then inductive relative to `IInv`.

### Startup

`FreshRegister` needs only the order of the requests: between two registrations on the
line there is a reset (`Separated`), and from SysReset until AfRegister every earlier
one is undone (`Undone`). Program kills do not matter to it.

`RunsConfigured` rests on `ConfigInv`: what the line may hold at each await (`Sent`,
`Received`), that an answer of the kind awaited is counted once (`Counted`), that the
reads, when all are answered, agree with the memory (`ReadsTrue`) and the writes are in it
(`WritesTrue`), that no network runs meanwhile (`Still`), and that a start request
follows the writes with no reset behind (`Guarded`). `ReadyIsUp` adds, while the dongle
did not reset on its own, that every RESET_IND is accounted for (`Undisturbed`) and
what the answers said of the dongle still holds (`Informed`).

Both have the hypothesis that a start finds the line `Settled`: no RESET_IND with an
IEEE address to come behind it. It can not be left out. When the program is killed four
times in a row, each time within the first two awaits, and the line keeps every answer,
the new start takes an old RESET_IND for its own and an old IEEE address for the next
answer; it is then ahead of its reset, reads the options before the dongle handled it,
and goes on to a network whose memory another answer has changed. TLC finds this for
`StartsConfigured` and `ReadyMeansUp` with `MaxCrashes = 4`, `FirstLast` and no other
fault; with three restarts both hold, and with the hypothesis they hold for six
restarts, resets and failures.

### Hub

`Inv` has thirteen parts. The continuation of a lookup knows its message, the answer
does not; so `Match(l)` says for each lookup that the answers on the way, then the
requests not yet served, are in number and subject the handlers listed, place by place.
With `Places` (an address belongs to one device at a time, and no device has one again
that it left), the answer is about the sender, or the sender has left the address
meanwhile: `RightDevice`. A dropped answer ends this, and only this.

`OnceInOrder` needs that messages waiting for their lookup are in order and behind
those published (`Ordered`), and that a message that comes again is not taken for a new
one. For that, `Filter` says of each address a which message p of it came last to the
endpoint (`Last`): everything on the line is p or later, in order, and a message after p
is there for the first time or is a copy of one further ahead (`Coming`); every message
of a up to p was dealt with, every later one is still on the line (`Treated`). The
filter errs on equal messages only, and `Numbers` says when two messages of a device
can be equal: not within `TsnMod` messages, unless the device began anew.

`CommandsArrive` needs the commands on the line and at the radio as one list `Air`: in
order, behind them those still looked up (`AirOrder`); two in a row for one address with
different numbers, the next number to use following the last one used (`AirNumbers`); each
for an address its device has or had (`AirPlaces`).

### Topics

*What a topic says.* `FrameInv` says that what is on the wire of a frame is `Signed` by
it: the quality of the link, or something at or under the topic of a command of the file
with the ids of the frame. That it stays so needs the way from the file to the lookups:
an item that is found came from an entry (`ListHolds`, `ClusterHolds`,
`CommandListHolds`), its name without slashes is one level, and the parts of a value are
under it at any depth, by induction over `Nesting` (`PublishValueType`). The first five
levels of such a topic are then the sender, endpoint, "in", cluster and command
(`LevelsOfNames`): a recursive function on the length of a text, of which induction over
that length shows what it makes of a text with one more level behind (`LevelsUnder`).
The names are read one way only because two items of a list never have a name in common
(`Addable`), and by `DistinctNames` where two lists are searched (`NamesDiffer`).

*What a request does.* `AskInv` says that a request is on its way as the only message,
in one of its forms, or is done; without one the hubs are idle, and what is on the wire
is `Told`: behind its prefix it begins with "report", or with a device but has no third
level "out". `ToldIsNothing` is then why no report, not even one of permitjoin, makes a
hub act. For a request each hub does what is `Wanted` (`RequestActs`): the filters of
its subscriptions match the topic (`ControlHeard`, `CommandHeard`), the regular
expressions give back what was put in (`CommandLevels`, `ControlTopics`), the lookups by
name find the items of the entries meant (`FoundByName`), and the short form reads as
the long one does (`ShortFormSent`, `LongFormSent`). A hub with another prefix hears
none of it: this is where `Apart` is needed (`OtherPrefix`).

### Lists

What a list holds of a kind, in which order and how often, is `Selected`, `Count` and
`NoneAfter` in `Lists`, by recursive functions on the length. `ListLemmas` proves what
they do to the front and the back of a list, by induction over the length: the induction
theorems of the library take an operator, but for a set of numbers `Induction` follows
from the least element of its complement (`LeastElement`, from `WFMin`).

### Only model-checked

Liveness (under fairness): `EveryCallResolves`, `TimedWaitEnds`, `EveryFrameIsRead`,
`EveryMessageHandedOver`, `Reconnects`, `StartEnds`. The four properties of `Codecs`
(`RoundTrip`, `RefusesOthers`, `LengthChecked`, `FF01Contained`), whose operators are
recursive over the data they convert, and `ClusterTypes` for the same reason: what such an
operator computes for every input is out of the prover's reach.

## 6. Not modelled

* String enums, tables of constants, printing, logging: no control.
* URI and MQTT URL parsing: one pass over the characters of an option before
  anything else runs; the result goes to the MQTT library as it is.
* Attribute id 0xFFFF, which null encodes to and which decodes to a number.
* A byte lost on the line, a changed length, or a stray byte that is the marker: the
  reader takes following frames for the rest of this one and has no timeout. `ZnpPort`
  changes bytes behind the length and inserts other stray ones between frames.
* Destruction (`weak_bind`, coroutines at exit), the contents of the exceptions.
* The INFO syntax of clusters.info, which boost reads; `openhab/` and the service file,
  which are outside the program.

## 7. Plan

Done, in this order: ZnpOps, ZnpApi and Rpc; ZnpApiProofs; ZnpPort and FrameLink;
MqttWrapper; Startup; Hub; DynamicEncoding; the codecs; packet ids; ClusterDb and
Topics; CheckedReply; MqttWrapperProofs; StartupProofs; ZnpApiRefinement; HubProofs;
ZnpPortProofs; ClusterDb and Topics without recursive operators; TopicsProofs.

Left: liveness by proof, which needs a prover with fairness; the codecs, which need
induction over data; shorter proofs where a lemma on lists can replace what two modules do
by hand (`HubProofs`, `StartupProofs`).
