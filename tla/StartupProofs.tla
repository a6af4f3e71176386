---------------------------- MODULE StartupProofs ---------------------------
(***************************************************************************)
(* Theorems about Startup.tla, for any options, in any order, and any number *)
(* of failed answers, restarts and resets.                                  *)
(***************************************************************************)
EXTENDS Startup, ListLemmas

\* The kinds of the requests or frames of a list, and those of one kind.
Ops(s)       == {x.op : x \in Range(s)}
FrameOf(o)   == {f \in Frames : f.op = o}
RequestOf(o) == {r \in Requests : r.op = o}

-----------------------------------------------------------------------------
(* The invariants.  Two of them need no more than the order of the requests. *)

\* A future that is awaited counts at least one answer still to come.
Awaits == answer = "pending" /\ pc # "state" => awaiting >= 1

\* In a list of requests, with reg whether endpoint 1 is registered before them:
\* between two registrations there is a reset, and there is one behind the last.
RegistersAt(t, reg, k) == (k = 0 /\ reg) \/ (k \in 1 .. Len(t) /\ t[k].op = "register")
Separated(t, reg) ==
  \A k \in 0 .. Len(t), i \in 1 .. Len(t) :
    k < i /\ RegistersAt(t, reg, k) /\ t[i].op = "register" =>
      \E j \in 1 .. Len(t) : k < j /\ j < i /\ t[j].op = "reset"
Undone(t, reg) ==
  \A k \in 0 .. Len(t) : RegistersAt(t, reg, k) =>
    \E j \in 1 .. Len(t) : k < j /\ t[j].op = "reset"

\* From its SysReset until its own AfRegister a start has every earlier
\* registration undone.
ResetFirst ==
  /\ Separated(toDongle, registered)
  /\ pc \notin {"start", "register", "ready", "exited"} => Undone(toDongle, registered)

\* What an earlier start left on the line does not hold the pair of answers that
\* lets the next one run ahead of its own: a RESET_IND, then an IEEE address.
Settled ==
  /\ NoneAfter(fromDongle, FrameOf("resetind"), FrameOf("ieee"))
  /\ "resetind" \in Ops(fromDongle) => "ieee" \notin Ops(toDongle)
  /\ NoneAfter(toDongle, RequestOf("reset"), RequestOf("ieee"))

\* The answers of the awaited kind that have been sent or are still asked for.
Outstanding ==
  Count(fromDongle, FrameOf(Awaited[pc])) + Count(toDongle, RequestOf(Awaited[pc]))

\* The future will fail, or never be resolved: an answer is lost or a failure.
Doomed ==
  answer = "pending" /\ (\/ Outstanding < awaiting
                         \/ \E f \in Range(fromDongle) : f.op = Awaited[pc] /\ ~f.ok)

\* Until its own IEEE address came, a start may see answers to an earlier one.
Leftovers ==
  /\ pc = "start" \/ (pc = "reset" /\ answer = "pending") => Settled
  /\ pc = "reset" /\ answer = "ok" => "ieee" \notin Ops(fromDongle) \cup Ops(toDongle)
  /\ pc = "ieee" =>
       /\ NoneAfter(toDongle, RequestOf("ieee"), Requests)
       /\ NoneAfter(fromDongle, FrameOf("ieee"), Frames \ FrameOf("resetind"))
       /\ "ieee" \in Ops(fromDongle) => toDongle = <<>>
       /\ answer = "ok" => toDongle = <<>> /\ Ops(fromDongle) \subseteq {"resetind"}
  /\ pc \in {"reset", "ieee"} =>
       "reset" \in Ops(toDongle) \/ (dev = "HOLD" /\ "startup" \notin Ops(toDongle))

\* From then on the line holds what this start sent, and resets.
Sent ==
  /\ pc = "read"  => Ops(toDongle) \subseteq {"read"}
  /\ pc = "clear" => toDongle \in {<<>>, <<Write("startup_option", "clear")>>}
  /\ pc = "reset2" => toDongle \in {<<>>, <<Req("reset")>>}
  /\ pc = "write" => toDongle = <<Req("reset")>> \o Writes \/ Range(toDongle) \subseteq Range(Writes)
  /\ pc = "startup" => toDongle \in {<<>>, <<Req("startup")>>, <<Req("state"), Req("startup")>>}
  /\ pc \in {"state", "ready"} => toDongle = <<>>
  /\ pc = "permit" => toDongle \in {<<>>, <<Req("permit")>>}
  /\ pc = "register" => toDongle \in {<<>>, <<Req("register")>>}

Received ==
  LET seen == Ops(fromDongle) \ {"resetind"}
  IN /\ pc \in {"read", "clear", "reset2", "write"} => seen \subseteq {Awaited[pc]}
     /\ pc \in {"startup", "state", "permit", "register"} =>
          seen \subseteq {Awaited[pc], "state", "stateind"}

Counted ==
  pc \in {"read", "clear", "write", "startup", "permit", "register"} =>
    /\ answer = "pending" => Outstanding <= awaiting
    /\ answer = "ok" => Outstanding = 0

\* No network runs meanwhile.
Still == pc \in {"read", "clear", "reset2", "write"} => dev = "HOLD"

\* The answers to the reads agree with the memory, or say that it is to be cleared.
WillClear ==
  LET told == {f \in Range(fromDongle) : f.op = "read" /\ f.ok /\ f.field = "startup_option"}
  IN /\ toDongle = <<>>
     /\ told # {} \/ current_config["startup_option"] = "clear"
     /\ \A f \in told : f.value = "clear"
AsRead ==
  /\ \A f \in Range(fromDongle) : f.op = "read" /\ f.ok => f.value = nv[f.field]
  /\ \A g \in Fields :
       \/ [op |-> "read", field |-> g] \in Range(toDongle)
       \/ \E f \in Range(fromDongle) : f.op = "read" /\ f.ok /\ f.field = g
       \/ current_config[g] = nv[g]
ReadsTrue == pc = "read" => answer = "failed" \/ Doomed \/ WillClear \/ AsRead

\* What is answered to the writes is in the memory.
WritesTrue ==
  pc = "write" => \/ answer = "failed" \/ Doomed
                  \/ \A g \in Fields : \/ Write(g, desired_config[g]) \in Range(toDongle)
                                       \/ nv[g] = desired_config[g]

\* The options are written before the network is started and not touched after.
Configured == \A f \in Fields \ {"pan_id"} : nv[f] = desired_config[f]
Guarded ==
  /\ NoneAfter(toDongle, RequestOf("reset"), RequestOf("startup"))
  /\ "write" \in Ops(toDongle) => dev = "HOLD" /\ "startup" \notin Ops(toDongle)
  /\ dev # "HOLD" \/ "startup" \in Ops(toDongle) => Configured

ConfigInv ==
  /\ TypeOK /\ Awaits /\ Leftovers /\ Sent /\ Received /\ Counted /\ Still
  /\ ReadsTrue /\ WritesTrue /\ Guarded

\* As long as the dongle did not reset on its own, every RESET_IND is accounted for.
Undisturbed ==
  boots = 0 =>
    /\ pc = "ieee" => NoneAfter(fromDongle, FrameOf("ieee"), Frames)
    /\ pc = "ieee" /\ answer = "ok" => fromDongle = <<>>
    /\ pc = "reset2" =>
         \/ /\ answer = "pending" /\ awaiting = 1
            /\ \/ toDongle = <<Req("reset")>> /\ fromDongle = <<>>
               \/ toDongle = <<>> /\ Len(fromDongle) = 1
         \/ answer # "pending" /\ toDongle = <<>> /\ fromDongle = <<>>
    /\ pc \in {"read", "clear", "write", "startup", "state", "permit", "register", "ready"} =>
         "reset" \notin Ops(toDongle) /\ "resetind" \notin Ops(fromDongle)
\* ... and what the answers say of the dongle holds still.
Informed ==
  boots = 0 /\ pc \in {"startup", "state", "permit", "register", "ready"} =>
    /\ pc = "startup" /\ toDongle # <<>> => dev = "HOLD"
    /\ future_state = "done" => dev = "ZB_COORD"
    /\ \A f \in Range(fromDongle) :
         f.op \in {"state", "stateind"} /\ f.ok /\ f.value = "ZB_COORD" => dev = "ZB_COORD"
    /\ pc = "state" /\ answer = "ok" => future_state = "done"
    /\ pc \in {"permit", "register", "ready"} => dev = "ZB_COORD"
    /\ \/ pc = "permit" /\ answer = "ok"
       \/ pc = "permit" /\ \E f \in Range(fromDongle) : f.op = "permit" /\ f.ok
       \/ pc \in {"register", "ready"}
       => ~permit
    /\ \/ pc = "register" /\ answer = "ok"
       \/ pc = "register" /\ \E f \in Range(fromDongle) : f.op = "register" /\ f.ok
       \/ pc = "ready"
       => registered
-----------------------------------------------------------------------------
(* What is sent has its type.                                               *)

\* The desired configuration, and the one a cleared dongle has, are configurations.
LEMMA ConfigTypes ==
  /\ "startup_option" \in Fields /\ "pan_id" \in Fields
  /\ \A f \in Fields : desired_config[f] \in Values[f] /\ Factory[f] \in Values[f]
  /\ \A c : c \in Configs <=> c = [f \in Fields |-> c[f]] /\ \A g \in Fields : c[g] \in Values[g]
  /\ desired_config \in Configs /\ Factory \in Configs
  /\ \A v \in {"none", "clear"} : v \in Values["startup_option"]
<1>1. "startup_option" \in Fields /\ "pan_id" \in Fields
  BY OptionsAssumption
<1>2. \A f \in Fields : desired_config[f] \in Values[f] /\ Factory[f] \in Values[f]
  BY PanIdAssumption DEF desired_config, Factory, Values
<1>3. \A c : c \in Configs <=> c = [f \in Fields |-> c[f]] /\ \A f \in Fields : c[f] \in Values[f]
  <2> DEFINE V == UNION {Values[f] : f \in Fields}
  <2>1. ASSUME NEW c, c = [f \in Fields |-> c[f]], \A f \in Fields : c[f] \in Values[f]
        PROVE  c \in Configs
    <3>1. \A f \in Fields : c[f] \in V
      BY <2>1
    <3> HIDE DEF V
    <3>2. c \in [Fields -> V]
      BY <2>1, <3>1
    <3> QED BY <2>1, <3>2 DEF Configs, V
  <2>2. ASSUME NEW c \in Configs
        PROVE  c = [f \in Fields |-> c[f]] /\ \A f \in Fields : c[f] \in Values[f]
    BY DEF Configs
  <2> QED BY <2>1, <2>2
<1>4. desired_config \in Configs /\ Factory \in Configs
  BY <1>2, <1>3 DEF desired_config, Factory
<1>5. \A v \in {"none", "clear"} : v \in Values["startup_option"]
  BY <1>1 DEF Values
<1> QED BY <1>1, <1>2, <1>3, <1>4, <1>5

\* The requests, from their parts and into their parts.
LEMMA RequestTypes ==
  /\ \A o \in {"reset", "ieee", "state", "startup", "permit", "register"} :
       Req(o) \in Requests /\ Req(o).op = o
  /\ \A f \in Fields : [op |-> "read", field |-> f] \in Requests
  /\ \A f \in Fields : \A v \in Values[f] : Write(f, v) \in Requests
<1>1. ASSUME NEW f \in Fields, NEW v \in Values[f]
      PROVE  Write(f, v) \in Requests
  <2> DEFINE W(g) == {[op |-> "write", field |-> g, value |-> w] : w \in Values[g]}
  <2>1. Write(f, v) \in W(f)
    BY DEF Write
  <2>2. W(f) \in {W(g) : g \in Fields}
    OBVIOUS
  <2>3. Write(f, v) \in UNION {W(g) : g \in Fields}
    BY <2>1, <2>2
  <2> QED BY <2>3 DEF Requests
<1> QED BY <1>1 DEF Requests, Req

\* A request has one of these kinds, and only these parts.
LEMMA RequestShape ==
  ASSUME NEW r \in Requests
  PROVE  /\ r.op \in {"reset", "ieee", "state", "startup", "permit", "register", "read", "write"}
         /\ r.op \notin {"read", "write"} => r = Req(r.op)
         /\ r.op = "read" => r.field \in Fields /\ r = [op |-> "read", field |-> r.field]
         /\ r.op = "write" => /\ r.field \in Fields /\ r.value \in Values[r.field]
                              /\ r = Write(r.field, r.value)
BY DEF Requests, Req, Write

\* The frames, from their parts and into their parts.
LEMMA FrameTypes ==
  /\ [op |-> "resetind", ok |-> TRUE] \in Frames
  /\ \A o \in {"ieee", "read", "write", "state", "startup", "permit", "register"} :
       [op |-> o, ok |-> FALSE] \in Frames
  /\ \A o \in {"write", "startup", "permit", "register"} : \A ok \in BOOLEAN :
       [op |-> o, ok |-> ok] \in Frames
  /\ [op |-> "ieee", ok |-> TRUE, field |-> "none", value |-> "none"] \in Frames
  /\ \A s \in DeviceStates :
       /\ [op |-> "state", ok |-> TRUE, field |-> "none", value |-> s] \in Frames
       /\ [op |-> "stateind", ok |-> TRUE, value |-> s] \in Frames
  /\ \A f \in Fields : \A v \in Values[f] :
       [op |-> "read", ok |-> TRUE, field |-> f, value |-> v] \in Frames
<1>1. ASSUME NEW f \in Fields, NEW v \in Values[f]
      PROVE  [op |-> "read", ok |-> TRUE, field |-> f, value |-> v] \in Frames
  <2> DEFINE R(g) == {[op |-> "read", ok |-> TRUE, field |-> g, value |-> w] : w \in Values[g]}
  <2>1. [op |-> "read", ok |-> TRUE, field |-> f, value |-> v] \in R(f)
    OBVIOUS
  <2>2. R(f) \in {R(g) : g \in Fields}
    OBVIOUS
  <2>3. [op |-> "read", ok |-> TRUE, field |-> f, value |-> v] \in UNION {R(g) : g \in Fields}
    BY <2>1, <2>2
  <2> QED BY <2>3 DEF Frames
<1>2. \A s \in DeviceStates :
       /\ [op |-> "state", ok |-> TRUE, field |-> "none", value |-> s] \in Frames
       /\ [op |-> "stateind", ok |-> TRUE, value |-> s] \in Frames
  BY DEF Frames
<1>3. \A o \in {"ieee", "read", "write", "state", "startup", "permit", "register"} :
       [op |-> o, ok |-> FALSE] \in Frames
  BY DEF Frames
<1> QED BY <1>1, <1>2, <1>3 DEF Frames

\* A frame has one of these kinds, and says what its kind says.
LEMMA FrameShape ==
  ASSUME NEW f \in Frames
  PROVE  /\ f.op \in {"resetind", "ieee", "read", "write", "state", "stateind", "startup",
                      "permit", "register"}
         /\ f.ok \in BOOLEAN
         /\ f.op \in {"resetind", "stateind"} => f.ok
         /\ f.op = "read" /\ f.ok => f.field \in Fields /\ f.value \in Values[f.field]
         /\ f.op \in {"state", "stateind"} /\ f.ok => f.value \in DeviceStates
<1>1. CASE f \in UNION {{[op |-> "read", ok |-> TRUE, field |-> g, value |-> v] :
                          v \in Values[g]} : g \in Fields}
  <2>1. PICK g \in Fields : f \in {[op |-> "read", ok |-> TRUE, field |-> g, value |-> v] :
                                  v \in Values[g]}
    BY <1>1
  <2>2. PICK v \in Values[g] : f = [op |-> "read", ok |-> TRUE, field |-> g, value |-> v]
    BY <2>1
  <2> QED BY <2>2
<1>2. CASE f \in [op : {"resetind"}, ok : {TRUE}]
               \cup [op : {"write", "startup", "permit", "register"}, ok : BOOLEAN]
               \cup [op : {"ieee", "read", "state"}, ok : {FALSE}]
  BY <1>2
<1>3. CASE f \in [op : {"ieee"}, ok : {TRUE}, field : {"none"}, value : {"none"}]
               \cup [op : {"state"}, ok : {TRUE}, field : {"none"}, value : DeviceStates]
               \cup [op : {"stateind"}, ok : {TRUE}, value : DeviceStates]
  BY <1>3
<1> QED BY <1>1, <1>2, <1>3 DEF Frames

\* The reads and the writes are one request for each option.
LEMMA Batches ==
  /\ Len(FieldOrder) \in Nat \ {0}
  /\ Reads \in Seq(Requests) /\ Len(Reads) = Len(FieldOrder)
  /\ Range(Reads) = {[op |-> "read", field |-> f] : f \in Fields}
  /\ Writes \in Seq(Requests) /\ Len(Writes) = Len(FieldOrder)
  /\ Range(Writes) = {Write(f, desired_config[f]) : f \in Fields}
<1> DEFINE n == Len(FieldOrder)
<1>1. n \in Nat /\ DOMAIN FieldOrder = 1 .. n /\ \A i \in 1 .. n : FieldOrder[i] \in Fields
  BY OptionsAssumption, LenProperties, ElementOfSeq
<1>2. \A f : f \in Fields <=> \E i \in 1 .. n : FieldOrder[i] = f
  BY <1>1 DEF Fields, Range
<1>3. n # 0
  BY <1>1, <1>2, ConfigTypes
<1> HIDE DEF n
<1>4. /\ Reads = [i \in 1 .. n |-> [op |-> "read", field |-> FieldOrder[i]]]
      /\ Writes = [i \in 1 .. n |-> Write(FieldOrder[i], desired_config[FieldOrder[i]])]
  BY <1>1 DEF Reads, Writes
<1>5. /\ \A i \in 1 .. n : Reads[i] = [op |-> "read", field |-> FieldOrder[i]]
      /\ \A i \in 1 .. n : Writes[i] = Write(FieldOrder[i], desired_config[FieldOrder[i]])
  BY <1>4
<1>6. /\ \A i \in 1 .. n : Reads[i] \in Requests
      /\ \A i \in 1 .. n : Writes[i] \in Requests
  BY <1>1, <1>5, RequestTypes, ConfigTypes
<1>7. Reads \in [1 .. n -> Requests] /\ Writes \in [1 .. n -> Requests]
  BY <1>4, <1>6
<1>8. Reads \in Seq(Requests) /\ Writes \in Seq(Requests)
  BY <1>1, <1>7, SeqDef
<1>9. Len(Reads) = n /\ Len(Writes) = n
  BY <1>1, <1>7, <1>8, LenProperties
<1>10. Range(Reads) = {[op |-> "read", field |-> f] : f \in Fields}
  <2>1. \A r : r \in Range(Reads) <=> \E i \in 1 .. n : r = [op |-> "read", field |-> FieldOrder[i]]
    BY <1>5, <1>8, <1>9, RangeElement
  <2> QED BY <1>1, <1>2, <2>1
<1>11. Range(Writes) = {Write(f, desired_config[f]) : f \in Fields}
  <2>1. \A r : r \in Range(Writes) <=>
               \E i \in 1 .. n : r = Write(FieldOrder[i], desired_config[FieldOrder[i]])
    BY <1>5, <1>8, <1>9, RangeElement
  <2> QED BY <1>1, <1>2, <2>1
<1> QED BY <1>1, <1>3, <1>8, <1>9, <1>10, <1>11 DEF n

-----------------------------------------------------------------------------
(* Type correctness.                                                        *)

\* The list of one request, of its kind.
LEMMA OneRequest ==
  ASSUME NEW r \in Requests
  PROVE  <<r>> \in Seq(Requests) /\ Len(<<r>>) = 1 /\ Range(<<r>>) = {r} /\ <<r>>[1] = r
<1> DEFINE w == <<r>>
<1>1. w \in Seq(Requests) /\ Len(w) = 1 /\ w[1] = r
  OBVIOUS
<1> HIDE DEF w
<1>2. \A x : x \in Range(w) <=> \E i \in 1 .. 1 : w[i] = x
  BY <1>1, RangeElement
<1>3. Range(w) = {r}
  BY <1>1, <1>2
<1> QED BY <1>1, <1>3 DEF w

\* What Resume does: it sends a list of requests and awaits them all, or else.
LEMMA ResumeCases ==
  ASSUME Resume
  PROVE  \/ /\ pc = "startup" /\ pc' = "state" /\ answer' = StateAnswer(future_state)
            /\ UNCHANGED <<awaiting, toDongle, future_state>>
         \/ /\ pc \in {"read", "write"} /\ StartZdo
            /\ pc = "read" => Matches(current_config, desired_config)
         \/ /\ pc = "register" /\ pc' = "ready"
            /\ UNCHANGED <<answer, awaiting, toDongle, future_state>>
         \/ /\ UNCHANGED future_state
            /\ \E next \in DOMAIN Awaited : \E b \in Seq(Requests) :
                 /\ Await(next, b) /\ Len(b) \in 1 .. Len(FieldOrder)
                 /\ \/ pc = "start"  /\ next = "reset"    /\ b = <<Req("reset")>>
                    \/ pc = "reset"  /\ next = "ieee"     /\ b = <<Req("ieee")>>
                    \/ pc = "ieee"   /\ next = "read"     /\ b = Reads
                    \/ pc = "read"   /\ next = "clear"    /\ b = <<Write("startup_option", "clear")>>
                    \/ pc = "clear"  /\ next = "reset2"   /\ b = <<Req("reset")>>
                    \/ pc = "reset2" /\ next = "write"    /\ b = Writes
                    \/ pc = "state"  /\ next = "permit"   /\ b = <<Req("permit")>>
                    \/ pc = "permit" /\ next = "register" /\ b = <<Req("register")>>
<1> USE DEF Awaited
<1>0. Len(FieldOrder) \in Nat \ {0} /\ 1 \in 1 .. Len(FieldOrder)
  BY Batches
<1>1. \A r \in Requests : <<r>> \in Seq(Requests) /\ Len(<<r>>) = 1
  BY OneRequest
<1>2. Write("startup_option", "clear") \in Requests
  BY RequestTypes, ConfigTypes
<1>3. \A o \in {"reset", "ieee", "permit", "register"} : Req(o) \in Requests
  BY RequestTypes
<1>4. /\ Reads \in Seq(Requests) /\ Len(Reads) \in 1 .. Len(FieldOrder)
      /\ Writes \in Seq(Requests) /\ Len(Writes) \in 1 .. Len(FieldOrder)
  BY <1>0, Batches
<1>5. CASE pc = "start" /\ SysReset("reset") /\ UNCHANGED future_state
  BY <1>0, <1>1, <1>3, <1>5 DEF SysReset
<1>6. CASE pc = "reset" /\ Await("ieee", <<Req("ieee")>>) /\ UNCHANGED future_state
  BY <1>0, <1>1, <1>3, <1>6
<1>7. CASE pc = "ieee" /\ Await("read", Reads) /\ UNCHANGED future_state
  BY <1>4, <1>7
<1>8. CASE pc = "read" /\ Await("clear", <<Write("startup_option", "clear")>>) /\ UNCHANGED future_state
  BY <1>0, <1>1, <1>2, <1>8
<1>9. CASE pc = "clear" /\ SysReset("reset2") /\ UNCHANGED future_state
  BY <1>0, <1>1, <1>3, <1>9 DEF SysReset
<1>10. CASE pc = "reset2" /\ Await("write", Writes) /\ UNCHANGED future_state
  BY <1>4, <1>10
<1>11. CASE pc = "state" /\ Await("permit", <<Req("permit")>>) /\ UNCHANGED future_state
  BY <1>0, <1>1, <1>3, <1>11
<1>12. CASE pc = "permit" /\ Await("register", <<Req("register")>>) /\ UNCHANGED future_state
  BY <1>0, <1>1, <1>3, <1>12
<1> QED BY <1>5, <1>6, <1>7, <1>8, <1>9, <1>10, <1>11, <1>12 DEF Resume

\* Resume keeps the types, and awaits at least one answer.
LEMMA TypeResume ==
  ASSUME TypeOK, Awaits, Resume
  PROVE  (TypeOK /\ Awaits)'
<1> USE DEF Awaited
<1>0. Len(FieldOrder) \in Nat \ {0} /\ 1 \in 1 .. Len(FieldOrder)
  BY Batches
<1>1. UNCHANGED <<current_config, fromDongle, dongle, bounds>>
  BY DEF Resume
<1>2. /\ pc' \in DOMAIN Awaited /\ answer' \in {"pending", "ok", "failed"}
      /\ awaiting' \in 0 .. Len(FieldOrder)
      /\ future_state' \in {"none", "asked", "subscribed", "done", "failed"}
      /\ toDongle' \in Seq(Requests)
      /\ Awaits'
  <2>1. CASE pc = "startup" /\ pc' = "state" /\ answer' = StateAnswer(future_state)
             /\ UNCHANGED <<awaiting, toDongle, future_state>>
    BY <2>1 DEF TypeOK, Awaits, StateAnswer
  <2>2. CASE StartZdo
    <3> DEFINE b == <<Req("state"), Req("startup")>>
    <3>1. b \in Seq(Requests)
      BY RequestTypes
    <3> HIDE DEF b
    <3>2. toDongle \o b \in Seq(Requests)
      BY <3>1, ConcatProperties DEF TypeOK
    <3> QED BY <2>2, <3>2, <1>0 DEF StartZdo, Awaits, b
  <2>3. CASE pc = "register" /\ pc' = "ready" /\ UNCHANGED <<answer, awaiting, toDongle, future_state>>
    BY <2>3 DEF TypeOK, Awaits
  <2>4. ASSUME NEW next \in DOMAIN Awaited, NEW b \in Seq(Requests), Await(next, b),
               Len(b) \in 1 .. Len(FieldOrder), UNCHANGED future_state
        PROVE  <1>2!1 /\ <1>2!2 /\ <1>2!3 /\ <1>2!4 /\ <1>2!5
    BY <2>4, <1>0, ConcatProperties DEF TypeOK, Awaits, Await
  <2> QED
    BY <2>1, <2>2, <2>3, <2>4, ResumeCases
<1> QED BY <1>1, <1>2 DEF TypeOK, dongle, bounds

\* What the dongle makes of the first request: a reset, one answer, or the two
\* frames of ZdoStartupFromApp.
ResetInd == [op |-> "resetind", ok |-> TRUE]
Forgets ==
  /\ nv' = IF nv["startup_option"] = "clear" THEN Factory ELSE nv
  /\ dev' = "HOLD" /\ registered' = FALSE /\ permit' \in BOOLEAN
  /\ fromDongle' = Append(fromDongle, ResetInd)
Answers(r, f) ==
  \/ ~f.ok /\ UNCHANGED dongle
  \/ f.ok /\ r.op = "startup" /\ UNCHANGED dongle
  \/ /\ f.ok /\ r.op \in {"ieee", "read", "state"} /\ UNCHANGED dongle
     /\ r.op = "read" => f.field = r.field /\ f.value = nv[r.field]
     /\ r.op = "state" => f.value = dev
  \/ /\ f.ok /\ r.op = "write" /\ nv' = [nv EXCEPT ![r.field] = r.value]
     /\ UNCHANGED <<dev, registered, permit>>
  \/ f.ok /\ r.op = "permit" /\ permit' = FALSE /\ UNCHANGED <<nv, dev, registered>>
  \/ /\ r.op = "register" /\ registered' = TRUE /\ f.ok = ~registered
     /\ UNCHANGED <<nv, dev, permit>>
Starts ==
  /\ dev' = "COORD_STARTING" /\ UNCHANGED <<nv, registered, permit>>
  /\ fromDongle' = Append(Append(fromDongle, [op |-> "startup", ok |-> TRUE]),
                          [op |-> "stateind", ok |-> TRUE, value |-> "COORD_STARTING"])

\* The dongle reads the first request, and does one of these with it.
LEMMA ServeCases ==
  ASSUME TypeOK, DongleServe
  PROVE  /\ toDongle # <<>> /\ UNCHANGED <<host, crashes, boots>>
         /\ fails' \in 0 .. MaxFails /\ leaves' \in 0 .. MaxLeaves
         /\ \E r \in Requests :
              /\ r = Head(toDongle)
              /\ \/ r.op = "reset" /\ Forgets /\ toDongle' \in {<<>>, Tail(toDongle)}
                 \/ /\ r.op # "reset" /\ toDongle' = Tail(toDongle)
                    /\ \/ r.op = "startup" /\ Starts
                       \/ \E f \in Frames : /\ f.op = r.op /\ fromDongle' = Append(fromDongle, f)
                                            /\ Answers(r, f)
<1>1. toDongle # <<>> /\ UNCHANGED <<host, crashes, boots>>
  BY DEF DongleServe
<1>2. PICK r \in Requests : r = Head(toDongle)
  BY <1>1, HeadTailProperties DEF TypeOK
<1>3. fails' \in 0 .. MaxFails /\ leaves' \in 0 .. MaxLeaves
  BY BoundsAssumption DEF DongleServe, Declines, Fails, TypeOK
<1>4. CASE r.op = "reset"
  BY <1>1, <1>2, <1>3, <1>4 DEF DongleServe, Reset, Put, Forgets, ResetInd
<1>5. CASE r.op # "reset" /\ Grants(r) /\ toDongle' = Tail(toDongle)
  <2>1. CASE r.op = "startup"
    <3>1. fromDongle \o <<[op |-> "startup", ok |-> TRUE],
             [op |-> "stateind", ok |-> TRUE, value |-> "COORD_STARTING"]>>
          = Append(Append(fromDongle, [op |-> "startup", ok |-> TRUE]),
                   [op |-> "stateind", ok |-> TRUE, value |-> "COORD_STARTING"])
      <4> DEFINE a == [op |-> "startup", ok |-> TRUE]
                 b == [op |-> "stateind", ok |-> TRUE, value |-> "COORD_STARTING"]
      <4>1. a \in Frames /\ b \in Frames /\ fromDongle \in Seq(Frames)
        BY FrameTypes DEF TypeOK, DeviceStates
      <4> HIDE DEF a, b
      <4>2. fromDongle \o <<a, b>> = Append(Append(fromDongle, a), b)
        BY <4>1
      <4> QED BY <4>2 DEF a, b
    <3>2. /\ dev' = "COORD_STARTING" /\ UNCHANGED <<nv, registered, permit>>
          /\ fromDongle' = fromDongle \o <<[op |-> "startup", ok |-> TRUE],
                             [op |-> "stateind", ok |-> TRUE, value |-> "COORD_STARTING"]>>
      BY <1>5, <2>1 DEF Grants
    <3> QED BY <1>1, <1>2, <1>3, <1>5, <2>1, <3>1, <3>2 DEF Starts
  <2>2. CASE r.op \in {"ieee", "read", "state"}
    <3> DEFINE f == [op |-> r.op, ok |-> TRUE,
                     field |-> IF r.op = "read" THEN r.field ELSE "none",
                     value |-> CASE r.op = "read" -> nv[r.field] [] r.op = "state" -> dev
                                 [] OTHER -> "none"]
    <3>1. fromDongle' = Append(fromDongle, f) /\ UNCHANGED dongle
      BY <1>5, <2>2 DEF Grants, Put
    <3>2. CASE r.op = "read"
      <4>1. r.field \in Fields /\ nv[r.field] \in Values[r.field]
        BY <3>2, RequestShape, ConfigTypes DEF TypeOK
      <4>2. f = [op |-> "read", ok |-> TRUE, field |-> r.field, value |-> nv[r.field]]
        BY <3>2
      <4>3. f \in Frames
        BY <4>1, <4>2, FrameTypes
      <4> HIDE DEF f
      <4>4. Answers(r, f)
        BY <3>1, <3>2, <4>2 DEF Answers
      <4> QED BY <1>1, <1>2, <1>3, <1>5, <3>1, <3>2, <4>2, <4>3, <4>4
    <3>3. CASE r.op \in {"ieee", "state"}
      <4>1. f = [op |-> r.op, ok |-> TRUE, field |-> "none",
                 value |-> IF r.op = "state" THEN dev ELSE "none"]
        BY <3>3
      <4>2. f \in Frames
        BY <3>3, <4>1, FrameTypes DEF TypeOK
      <4> HIDE DEF f
      <4>3. Answers(r, f)
        BY <3>1, <3>3, <4>1 DEF Answers
      <4> QED BY <1>1, <1>2, <1>3, <1>5, <3>1, <3>3, <4>1, <4>2, <4>3
    <3> QED BY <2>2, <3>2, <3>3
  <2>3. CASE r.op \in {"write", "permit", "register"}
    <3> DEFINE f == [op |-> r.op, ok |-> r.op = "register" => ~registered]
    <3>1. f.op = r.op /\ f \in Frames
      BY <2>3, FrameTypes DEF TypeOK
    <3>2. fromDongle' = Append(fromDongle, f) /\ Answers(r, f)
      BY <1>5, <2>3 DEF Grants, Put, Answers, TypeOK
    <3> QED BY <1>1, <1>2, <1>3, <1>5, <2>3, <3>1, <3>2
  <2> QED BY <1>5, <2>1, <2>2, <2>3 DEF Grants
<1>6. CASE r.op # "reset" /\ toDongle' = Tail(toDongle) /\ (Declines(r) \/ Fails(r))
  <2>1. CASE Declines(r)
    <3> DEFINE e == [op |-> "startup", ok |-> TRUE]
    <3>1. e \in Frames /\ e.op = r.op /\ e.ok /\ r.op = "startup"
      BY <2>1, FrameTypes DEF Declines
    <3>2. fromDongle' = Append(fromDongle, e) /\ UNCHANGED dongle
      BY <2>1 DEF Declines, Put
    <3> HIDE DEF e
    <3>3. Answers(r, e)
      BY <3>1, <3>2 DEF Answers
    <3> QED BY <1>1, <1>2, <1>3, <1>6, <3>1, <3>2, <3>3
  <2>2. CASE Fails(r)
    <3> DEFINE e == [op |-> r.op, ok |-> FALSE]
    <3>1. e \in Frames /\ e.op = r.op /\ ~e.ok
      BY <1>6, RequestShape, FrameTypes
    <3>2. fromDongle' = Append(fromDongle, e) /\ UNCHANGED dongle
      BY <2>2 DEF Fails, Put
    <3> HIDE DEF e
    <3>3. Answers(r, e)
      BY <3>1, <3>2 DEF Answers
    <3> QED BY <1>1, <1>2, <1>3, <1>6, <3>1, <3>2, <3>3
  <2> QED BY <1>6, <2>1, <2>2
<1>7. \/ r.op = "reset"
      \/ r.op # "reset" /\ toDongle' = Tail(toDongle) /\ (Grants(r) \/ Declines(r) \/ Fails(r))
  BY <1>1, <1>2 DEF DongleServe
<1> QED BY <1>4, <1>5, <1>6, <1>7

\* The first frame, and what is done with it.
LEMMA FrameCases ==
  ASSUME TypeOK, OnFrame
  PROVE  /\ pc # "exited" /\ fromDongle # <<>> /\ fromDongle' = Tail(fromDongle)
         /\ fromDongle' \in Seq(Frames) /\ UNCHANGED <<pc, toDongle, dongle, bounds>>
         /\ \E f \in Frames : /\ f = Head(fromDongle)
                              /\ Answered(f) \/ StateFrame(f) \/ Unhandled(f)
BY HeadTailProperties DEF OnFrame, TypeOK

\* A frame changes what the host waits for and knows within their types.
LEMMA TypeFrame ==
  ASSUME TypeOK, Awaits, OnFrame
  PROVE  (TypeOK /\ Awaits)'
<1>1. PICK f \in Frames : f = Head(fromDongle) /\ (Answered(f) \/ StateFrame(f) \/ Unhandled(f))
  BY FrameCases
<1>2. fromDongle' \in Seq(Frames) /\ UNCHANGED <<pc, toDongle, dongle, bounds>>
  BY FrameCases
<1>3. /\ answer' \in {"pending", "ok", "failed"} /\ awaiting' \in 0 .. Len(FieldOrder)
      /\ current_config' \in Configs
      /\ future_state' \in {"none", "asked", "subscribed", "done", "failed"}
      /\ Awaits'
  <2>0. Len(FieldOrder) \in Nat
    BY Batches
  <2>1. CASE Answered(f)
    <3>1. pc # "state"
      BY <2>1, FrameShape DEF Answered, Awaited
    <3>2. awaiting \in 1 .. Len(FieldOrder)
      BY <2>1, <3>1 DEF Answered, Awaits, TypeOK
    <3>3. current_config' \in Configs
      <4>1. CASE f.op = "read" /\ f.ok
        <5>1. f.field \in Fields /\ f.value \in Values[f.field]
          BY <4>1, FrameShape
        <5>2. current_config' = [current_config EXCEPT ![f.field] = f.value]
          BY <2>1, <4>1 DEF Answered
        <5> QED BY <5>1, <5>2, ConfigTypes DEF TypeOK
      <4>2. CASE ~(f.op = "read" /\ f.ok)
        BY <2>1, <4>2 DEF Answered, TypeOK
      <4> QED BY <4>1, <4>2
    <3> QED BY <2>0, <2>1, <1>2, <3>1, <3>2, <3>3 DEF Answered, TypeOK, Awaits
  <2>2. CASE StateFrame(f)
    BY <2>2, <1>2 DEF StateFrame, OnStateChange, WaitForState, StateAnswer, TypeOK, Awaits
  <2>3. CASE Unhandled(f)
    BY <2>3, <1>2 DEF Unhandled, TypeOK, Awaits
  <2> QED BY <1>1, <2>1, <2>2, <2>3
<1> QED BY <1>2, <1>3 DEF TypeOK, dongle, bounds

\* So does what the dongle does.
LEMMA TypeDongle ==
  ASSUME TypeOK, Awaits, DongleServe \/ DongleForms \/ DongleReboots
  PROVE  (TypeOK /\ Awaits)'
<1>1. UNCHANGED <<host, crashes>>
  BY DEF DongleServe, DongleForms, DongleReboots
<1>2. ASSUME Forgets
      PROVE  /\ nv' \in Configs /\ dev' \in DeviceStates /\ registered' \in BOOLEAN
             /\ permit' \in BOOLEAN /\ fromDongle' \in Seq(Frames)
  <2>1. Append(fromDongle, ResetInd) \in Seq(Frames)
    BY FrameTypes, AppendProperties DEF TypeOK, ResetInd
  <2> QED BY <1>2, <2>1, ConfigTypes DEF Forgets, TypeOK, DeviceStates
<1>3. CASE DongleServe
  <2>1. PICK r \in Requests :
          /\ r = Head(toDongle)
          /\ \/ r.op = "reset" /\ Forgets /\ toDongle' \in {<<>>, Tail(toDongle)}
             \/ /\ r.op # "reset" /\ toDongle' = Tail(toDongle)
                /\ \/ r.op = "startup" /\ Starts
                   \/ \E f \in Frames : /\ f.op = r.op /\ fromDongle' = Append(fromDongle, f)
                                        /\ Answers(r, f)
    BY <1>3, ServeCases
  <2>2. /\ toDongle' \in Seq(Requests) /\ UNCHANGED boots
        /\ fails' \in 0 .. MaxFails /\ leaves' \in 0 .. MaxLeaves
    BY <1>3, <2>1, ServeCases, EmptySeq, HeadTailProperties DEF TypeOK
  <2>3. CASE Forgets
    BY <1>1, <1>2, <2>2, <2>3 DEF TypeOK, Awaits, host
  <2>4. CASE Starts
    <3>1. fromDongle' \in Seq(Frames)
      BY <2>4, FrameTypes, AppendProperties DEF Starts, TypeOK, DeviceStates
    <3> QED BY <1>1, <2>2, <2>4, <3>1 DEF Starts, TypeOK, Awaits, host, DeviceStates
  <2>5. ASSUME NEW f \in Frames, f.op = r.op, fromDongle' = Append(fromDongle, f), Answers(r, f)
        PROVE  (TypeOK /\ Awaits)'
    <3>1. fromDongle' \in Seq(Frames)
      BY <2>5, AppendProperties DEF TypeOK
    <3>2. nv' \in Configs /\ dev' \in DeviceStates /\ registered' \in BOOLEAN /\ permit' \in BOOLEAN
      <4>1. CASE r.op = "write" /\ nv' = [nv EXCEPT ![r.field] = r.value]
                 /\ UNCHANGED <<dev, registered, permit>>
        <5>1. r.field \in Fields /\ r.value \in Values[r.field]
          BY <4>1, RequestShape
        <5>2. nv' \in Configs
          BY <4>1, <5>1, ConfigTypes DEF TypeOK
        <5> QED BY <4>1, <5>2 DEF TypeOK
      <4> QED BY <2>5, <4>1 DEF Answers, TypeOK, dongle
    <3> QED BY <1>1, <2>2, <3>1, <3>2 DEF TypeOK, Awaits, host
  <2> QED BY <2>1, <2>3, <2>4, <2>5
<1>4. CASE DongleForms
  <2>1. PICK s \in {"ZB_COORD", "NWK_ORPHAN"} :
          /\ dev' = s
          /\ fromDongle' = Append(fromDongle, [op |-> "stateind", ok |-> TRUE, value |-> s])
          /\ s = "NWK_ORPHAN" => fails < MaxFails
          /\ fails' = IF s = "NWK_ORPHAN" THEN fails + 1 ELSE fails
    BY <1>4 DEF DongleForms, Put
  <2>2. s \in DeviceStates
    BY DEF DeviceStates
  <2>3. fromDongle' \in Seq(Frames)
    BY <2>1, <2>2, FrameTypes, AppendProperties DEF TypeOK
  <2>4. fails' \in 0 .. MaxFails
    BY <2>1, BoundsAssumption DEF TypeOK
  <2> QED BY <1>1, <1>4, <2>1, <2>2, <2>3, <2>4 DEF DongleForms, TypeOK, Awaits, host
<1>5. CASE DongleReboots
  <2>1. Forgets
    BY <1>5 DEF DongleReboots, Reset, Put, Forgets, ResetInd
  <2>2. toDongle' \in Seq(Requests)
    BY <1>5, EmptySeq DEF DongleReboots
  <2>3. boots' \in 0 .. MaxBoots
    BY <1>5, BoundsAssumption DEF DongleReboots, TypeOK
  <2> QED BY <1>1, <1>2, <1>5, <2>1, <2>2, <2>3 DEF DongleReboots, TypeOK, Awaits, host
<1> QED BY <1>3, <1>4, <1>5

\* A restart cuts what is on the line.
LEMMA TypeRestart ==
  ASSUME TypeOK, Restart
  PROVE  (TypeOK /\ Awaits)'
<1>1. PICK k \in 0 .. Len(toDongle) : toDongle' = SubSeq(toDongle, 1, k)
  BY DEF Restart
<1>2. toDongle' \in Seq(Requests)
  <2>1. \A i \in 1 .. k : toDongle[i] \in Requests
    BY ElementOfSeq, LenProperties DEF TypeOK
  <2> QED BY <1>1, <2>1, SubSeqProperties, LenProperties DEF TypeOK
<1>3. fromDongle' \in Seq(Frames)
  BY EmptySeq DEF Restart, TypeOK
<1>4. crashes' \in 0 .. MaxCrashes
  BY BoundsAssumption DEF Restart, TypeOK
<1>5. Len(FieldOrder) \in Nat
  BY Batches
<1> QED BY <1>2, <1>3, <1>4, <1>5, ConfigTypes DEF Restart, TypeOK, Awaits, dongle, Awaited

\* The types and the count of a future are kept by every step.
LEMMA TypeStep == TypeOK /\ Awaits /\ [Next]_vars => (TypeOK /\ Awaits)'
<1> SUFFICES ASSUME TypeOK, Awaits, [Next]_vars
             PROVE  (TypeOK /\ Awaits)'
  OBVIOUS
<1>1. CASE Exit
  BY <1>1 DEF Exit, TypeOK, Awaits, dongle, bounds, Awaited
<1>2. CASE UNCHANGED vars
  BY <1>2 DEF TypeOK, Awaits, vars, host, dongle, bounds
<1> QED BY <1>1, <1>2, TypeResume, TypeFrame, TypeDongle, TypeRestart DEF Next

\* A dongle just powered and a program just started have their types.
LEMMA InitTypes == Init => TypeOK /\ Awaits
<1> SUFFICES ASSUME Init
             PROVE  TypeOK /\ Awaits
  OBVIOUS
<1>1. toDongle \in Seq(Requests) /\ fromDongle \in Seq(Frames)
  BY EmptySeq DEF Init
<1>2. current_config \in Configs /\ nv \in Configs
  BY ConfigTypes DEF Init
<1>3. awaiting \in 0 .. Len(FieldOrder)
  BY Batches DEF Init
<1>4. /\ fails \in 0 .. MaxFails /\ leaves \in 0 .. MaxLeaves
      /\ crashes \in 0 .. MaxCrashes /\ boots \in 0 .. MaxBoots
  BY BoundsAssumption DEF Init
<1> QED BY <1>1, <1>2, <1>3, <1>4 DEF Init, TypeOK, Awaits, Awaited, DeviceStates

\* Type correctness of the start of the dongle: the configuration read, what is on
\* the line and the counts of the future always make sense.
THEOREM TypeCorrect == Spec => []TypeOK
<1>1. Init => TypeOK /\ Awaits
  BY InitTypes
<1> QED BY <1>1, TypeStep, PTL DEF Spec

-----------------------------------------------------------------------------
(* A registration comes behind a reset.                                     *)

\* Requests that register nothing change nothing of it.
LEMMA ResetFirstConcat ==
  ASSUME NEW t \in Seq(Requests), NEW b \in Seq(Requests), NEW reg,
         \A x \in Range(b) : x.op # "register"
  PROVE  /\ Separated(t, reg) => Separated(t \o b, reg)
         /\ Undone(t, reg) => Undone(t \o b, reg)
<1> DEFINE u == t \o b
           n == Len(t)
           m == Len(b)
<1>1. /\ n \in Nat /\ m \in Nat /\ Len(u) = n + m
      /\ \A i \in 1 .. n + m : u[i] = IF i <= n THEN t[i] ELSE b[i - n]
  BY ConcatProperties, LenProperties
<1>2. \A i \in 1 .. m : b[i].op # "register"
  BY RangeElement
<1> HIDE DEF u, n, m
<1>3. \A i \in 1 .. n : i \in 1 .. n + m /\ u[i] = t[i]
  BY <1>1
<1>4. \A i \in 1 .. n + m : u[i].op = "register" => i \in 1 .. n
  <2>1. ASSUME NEW i \in 1 .. n + m, ~(i <= n)
        PROVE  u[i].op # "register"
    <3>1. i - n \in 1 .. m
      BY <1>1, <2>1
    <3> QED BY <1>1, <1>2, <2>1, <3>1
  <2> QED BY <1>1, <2>1
<1>5. \A k \in 0 .. n + m : RegistersAt(u, reg, k) => k \in 0 .. n /\ RegistersAt(t, reg, k)
  BY <1>1, <1>3, <1>4 DEF RegistersAt, n
<1>6. Separated(t, reg) => Separated(u, reg)
  <2>1. ASSUME Separated(t, reg), NEW k \in 0 .. n + m, NEW i \in 1 .. n + m,
               k < i, RegistersAt(u, reg, k), u[i].op = "register"
        PROVE  \E j \in 1 .. n + m : k < j /\ j < i /\ u[j].op = "reset"
    <3>1. k \in 0 .. n /\ RegistersAt(t, reg, k) /\ i \in 1 .. n /\ t[i].op = "register"
      BY <1>3, <1>4, <1>5, <2>1
    <3>2. PICK j \in 1 .. n : k < j /\ j < i /\ t[j].op = "reset"
      BY <2>1, <3>1 DEF Separated, n
    <3> QED BY <1>3, <3>2
  <2> QED BY <1>1, <2>1 DEF Separated
<1>7. Undone(t, reg) => Undone(u, reg)
  BY <1>1, <1>3, <1>5 DEF Undone, n
<1> QED BY <1>6, <1>7 DEF u

\* A reset undoes what is before it.
LEMMA ResetUndoes ==
  ASSUME NEW t \in Seq(Requests), NEW reg
  PROVE  Undone(t \o <<Req("reset")>>, reg)
<1> DEFINE r == Req("reset")
           u == t \o <<r>>
           n == Len(t)
<1>1. r \in Requests /\ r.op = "reset"
  BY RequestTypes
<1> HIDE DEF r
<1>2. /\ n \in Nat /\ Len(u) = n + 1
      /\ u[n + 1] = r
  BY <1>1, OneRequest, ConcatProperties, LenProperties
<1> HIDE DEF u, n
<1>3. ~RegistersAt(u, reg, n + 1) /\ n + 1 \in 1 .. Len(u)
  BY <1>1, <1>2 DEF RegistersAt
<1>4. \A k \in 0 .. Len(u) : k = n + 1 \/ k < n + 1
  BY <1>2
<1>5. Undone(u, reg)
  BY <1>1, <1>2, <1>3, <1>4 DEF Undone
<1> QED BY <1>5 DEF u, r

\* A registration may follow when all earlier ones are undone.
LEMMA RegisterFollows ==
  ASSUME NEW t \in Seq(Requests), NEW reg, Separated(t, reg), Undone(t, reg)
  PROVE  Separated(t \o <<Req("register")>>, reg)
<1> DEFINE r == Req("register")
           u == t \o <<r>>
           n == Len(t)
<1>1. r \in Requests /\ r.op = "register"
  BY RequestTypes
<1> HIDE DEF r
<1>2. /\ n \in Nat /\ Len(u) = n + 1
      /\ u[n + 1] = r
      /\ \A i \in 1 .. n : i \in 1 .. n + 1 /\ u[i] = t[i]
  BY <1>1, OneRequest, ConcatProperties, LenProperties
<1> HIDE DEF u, n
<1> SUFFICES ASSUME NEW k \in 0 .. n + 1, NEW i \in 1 .. n + 1, k < i,
                    RegistersAt(u, reg, k), u[i].op = "register"
             PROVE  \E j \in 1 .. n + 1 : k < j /\ j < i /\ u[j].op = "reset"
  BY <1>2 DEF Separated, u, r
<1>3. k \in 0 .. n /\ RegistersAt(t, reg, k)
  BY <1>2 DEF RegistersAt, n
<1>4. CASE i \in 1 .. n
  BY <1>2, <1>3, <1>4 DEF Separated, n
<1>5. CASE i = n + 1
  <2>1. PICK j \in 1 .. n : k < j /\ t[j].op = "reset"
    BY <1>3 DEF Undone, n
  <2> QED BY <1>2, <1>5, <2>1
<1> QED BY <1>2, <1>4, <1>5

\* Once the first request is served, reg may hold only because it held before and
\* that was not a reset, or because that was a registration.
LEMMA ResetFirstTail ==
  ASSUME NEW t \in Seq(Requests), t # <<>>, NEW reg, NEW new,
         new => (reg /\ Head(t).op # "reset") \/ Head(t).op = "register"
  PROVE  /\ Separated(t, reg) => Separated(Tail(t), new)
         /\ Undone(t, reg) => Undone(Tail(t), new)
<1> DEFINE u == Tail(t)
           n == Len(u)
<1>1. /\ n \in Nat /\ Len(t) = n + 1 /\ Head(t) = t[1]
      /\ \A i \in 1 .. n : i + 1 \in 1 .. n + 1 /\ u[i] = t[i + 1]
  BY HeadTail, LenProperties
<1> HIDE DEF u, n
\* Position k of the rest stands for a position of t before all others of the rest.
<1>2. ASSUME NEW k \in 0 .. n, RegistersAt(u, new, k)
      PROVE  \E h \in 0 .. n + 1 : /\ RegistersAt(t, reg, h) /\ h <= k + 1
                                   /\ \A j \in 1 .. n + 1 : h < j /\ t[j].op = "reset" => k + 1 < j
  <2>1. CASE k \in 1 .. n
    <3>1. RegistersAt(t, reg, k + 1) /\ k + 1 \in 0 .. n + 1
      BY <1>1, <1>2, <2>1 DEF RegistersAt, n
    <3> QED BY <3>1
  <2>2. CASE k = 0 /\ Head(t).op = "register"
    <3>1. RegistersAt(t, reg, 1) /\ 1 \in 0 .. n + 1
      BY <1>1, <2>2 DEF RegistersAt
    <3> QED BY <2>2, <3>1
  <2>3. CASE k = 0 /\ reg /\ Head(t).op # "reset"
    <3>1. RegistersAt(t, reg, 0) /\ 0 \in 0 .. n + 1
      BY <1>1, <2>3 DEF RegistersAt
    <3>2. \A j \in 1 .. n + 1 : t[j].op = "reset" => 1 < j
      BY <1>1, <2>3
    <3>3. k + 1 = 1 /\ 0 <= k + 1
      BY <2>3
    <3> QED BY <3>1, <3>2, <3>3
  <2>4. k \in 1 .. n \/ (k = 0 /\ new)
    BY <1>1, <1>2 DEF RegistersAt, n
  <2> QED BY <2>1, <2>2, <2>3, <2>4
<1>3. ASSUME Separated(t, reg)
      PROVE  Separated(u, new)
  <2> SUFFICES ASSUME NEW k \in 0 .. n, NEW i \in 1 .. n, k < i,
                      RegistersAt(u, new, k), u[i].op = "register"
               PROVE  \E j \in 1 .. n : k < j /\ j < i /\ u[j].op = "reset"
    BY DEF Separated, n
  <2>1. PICK h \in 0 .. n + 1 : /\ RegistersAt(t, reg, h) /\ h <= k + 1
                                /\ \A j \in 1 .. n + 1 : h < j /\ t[j].op = "reset" => k + 1 < j
    BY <1>2
  <2>2. i + 1 \in 1 .. n + 1 /\ h < i + 1 /\ t[i + 1].op = "register"
    BY <1>1, <2>1
  <2>3. PICK j \in 1 .. n + 1 : h < j /\ j < i + 1 /\ t[j].op = "reset"
    BY <1>1, <1>3, <2>1, <2>2 DEF Separated
  <2>4. j - 1 \in 1 .. n /\ k < j - 1 /\ j - 1 < i /\ (j - 1) + 1 = j
    BY <1>1, <2>1, <2>3
  <2>5. u[j - 1].op = "reset"
    BY <1>1, <2>3, <2>4
  <2> QED BY <2>4, <2>5
<1>4. ASSUME Undone(t, reg)
      PROVE  Undone(u, new)
  <2> SUFFICES ASSUME NEW k \in 0 .. n, RegistersAt(u, new, k)
               PROVE  \E j \in 1 .. n : k < j /\ u[j].op = "reset"
    BY DEF Undone, n
  <2>1. PICK h \in 0 .. n + 1 : /\ RegistersAt(t, reg, h) /\ h <= k + 1
                                /\ \A j \in 1 .. n + 1 : h < j /\ t[j].op = "reset" => k + 1 < j
    BY <1>2
  <2>2. PICK j \in 1 .. n + 1 : h < j /\ t[j].op = "reset"
    BY <1>1, <1>4, <2>1 DEF Undone
  <2>3. j - 1 \in 1 .. n /\ k < j - 1 /\ (j - 1) + 1 = j
    BY <1>1, <2>1, <2>2
  <2>4. u[j - 1].op = "reset"
    BY <1>1, <2>2, <2>3
  <2> QED BY <2>3, <2>4
<1> QED BY <1>3, <1>4 DEF u

\* What is left of the requests when the others are lost is separated too.
LEMMA SeparatedPrefix ==
  ASSUME NEW t \in Seq(Requests), NEW k \in 0 .. Len(t), NEW reg, Separated(t, reg)
  PROVE  Separated(SubSeq(t, 1, k), reg)
<1> DEFINE u == SubSeq(t, 1, k)
<1>1. Len(t) \in Nat /\ Len(u) = k /\ \A i \in 1 .. k : i \in 1 .. Len(t) /\ u[i] = t[i]
  <2>1. Len(t) \in Nat /\ \A i \in 1 .. k : t[i] \in Requests
    BY LenProperties, ElementOfSeq
  <2>2. Len(u) = (IF 1 <= k THEN k - 1 + 1 ELSE 0) /\ \A i \in 1 .. k - 1 + 1 : u[i] = t[1 + i - 1]
    BY <2>1, SubSeqProperties
  <2> HIDE DEF u
  <2> QED BY <2>1, <2>2
<1> HIDE DEF u
<1>2. \A i \in 0 .. k : RegistersAt(u, reg, i) => RegistersAt(t, reg, i) /\ i \in 0 .. Len(t)
  BY <1>1 DEF RegistersAt
<1>3. Separated(u, reg)
  <2> SUFFICES ASSUME NEW h \in 0 .. k, NEW i \in 1 .. k, h < i,
                      RegistersAt(u, reg, h), u[i].op = "register"
               PROVE  \E j \in 1 .. k : h < j /\ j < i /\ u[j].op = "reset"
    BY <1>1 DEF Separated
  <2>1. PICK j \in 1 .. Len(t) : h < j /\ j < i /\ t[j].op = "reset"
    BY <1>1, <1>2 DEF Separated
  <2>2. j \in 1 .. k
    BY <1>1, <2>1
  <2> QED BY <1>1, <2>1, <2>2
<1> QED BY <1>3 DEF u

\* Nothing is left to register when all requests are lost to a reset.
LEMMA NothingRegisters == Separated(<<>>, FALSE) /\ Undone(<<>>, FALSE)
<1>1. Len(<<>>) = 0
  BY EmptySeq
<1> QED BY <1>1 DEF Separated, Undone, RegistersAt

\* Every step keeps a reset between two registrations.
LEMMA ResetFirstStep == TypeOK /\ Awaits /\ ResetFirst /\ [Next]_vars => ResetFirst'
<1> SUFFICES ASSUME TypeOK, Awaits, ResetFirst, [Next]_vars
             PROVE  ResetFirst'
  OBVIOUS
<1>0. toDongle \in Seq(Requests)
  BY DEF TypeOK
<1>1. CASE Resume
  <2>1. UNCHANGED registered
    BY <1>1 DEF Resume, dongle
  <2>2. ASSUME NEW b \in Seq(Requests), \A x \in Range(b) : x.op # "register",
               toDongle' = toDongle \o b, pc \notin {"start", "register", "ready", "exited"}
        PROVE  ResetFirst'
    BY <1>0, <2>1, <2>2, ResetFirstConcat DEF ResetFirst
  <2>3. CASE StartZdo /\ pc \in {"read", "write"}
    <3> DEFINE b == <<Req("state"), Req("startup")>>
    <3>1. b \in Seq(Requests) /\ Len(b) = 2 /\ b[1].op = "state" /\ b[2].op = "startup"
      BY RequestTypes
    <3> HIDE DEF b
    <3>2. \A x \in Range(b) : x.op # "register"
      BY <3>1, RangeElement
    <3> QED BY <2>2, <2>3, <3>1, <3>2 DEF StartZdo, b
  <2>4. ASSUME NEW next \in DOMAIN Awaited, NEW b \in Seq(Requests), Await(next, b),
               pc \in {"reset", "ieee", "read", "clear", "reset2", "state"}, next # "start",
               \/ \E r \in Requests : b = <<r>> /\ r.op # "register"
               \/ b = Reads \/ b = Writes
        PROVE  ResetFirst'
    <3>1. \A x \in Range(b) : x.op # "register"
      <4>1. ASSUME NEW r \in Requests, b = <<r>>, r.op # "register"
            PROVE  \A x \in Range(b) : x.op # "register"
        BY <4>1, OneRequest
      <4> QED BY <2>4, <4>1, Batches DEF Write
    <3> QED BY <2>2, <2>4, <3>1 DEF Await
  <2>5. CASE pc = "start" /\ Await("reset", <<Req("reset")>>)
    <3>1. \A x \in Range(<<Req("reset")>>) : x.op # "register"
      BY RequestTypes, OneRequest
    <3>2. Separated(toDongle', registered) /\ Undone(toDongle', registered)
      BY <1>0, <2>5, <3>1, ResetUndoes, ResetFirstConcat, RequestTypes, OneRequest
      DEF Await, ResetFirst
    <3> QED BY <2>1, <3>2 DEF ResetFirst
  <2>6. CASE pc = "permit" /\ Await("register", <<Req("register")>>)
    BY <1>0, <2>1, <2>6, RegisterFollows DEF Await, ResetFirst
  <2>7. CASE UNCHANGED toDongle /\ ((pc = "startup" /\ pc' = "state") \/ pc' = "ready")
    BY <2>1, <2>7 DEF ResetFirst
  <2> QED
    <3>1. CASE \E next \in DOMAIN Awaited : \E b \in Seq(Requests) :
                 /\ Await(next, b)
                 /\ \/ pc = "start"  /\ next = "reset"    /\ b = <<Req("reset")>>
                    \/ pc = "reset"  /\ next = "ieee"     /\ b = <<Req("ieee")>>
                    \/ pc = "ieee"   /\ next = "read"     /\ b = Reads
                    \/ pc = "read"   /\ next = "clear"    /\ b = <<Write("startup_option", "clear")>>
                    \/ pc = "clear"  /\ next = "reset2"   /\ b = <<Req("reset")>>
                    \/ pc = "reset2" /\ next = "write"    /\ b = Writes
                    \/ pc = "state"  /\ next = "permit"   /\ b = <<Req("permit")>>
                    \/ pc = "permit" /\ next = "register" /\ b = <<Req("register")>>
      <4>1. /\ \A o \in {"reset", "ieee", "permit"} : Req(o) \in Requests /\ Req(o).op # "register"
            /\ Write("startup_option", "clear") \in Requests
            /\ Write("startup_option", "clear").op # "register"
        BY RequestTypes, ConfigTypes DEF Write
      <4> QED BY <3>1, <2>4, <2>5, <2>6, <4>1
    <3> QED BY <1>1, <2>3, <2>7, <3>1, ResumeCases
<1>2. CASE OnFrame \/ Exit
  <2>1. UNCHANGED <<toDongle, registered>> /\ (pc' = pc \/ pc' = "exited")
    BY <1>2 DEF OnFrame, Exit, dongle
  <2> QED BY <2>1 DEF ResetFirst
<1>3. CASE Restart
  <2>1. PICK k \in 0 .. Len(toDongle) : toDongle' = SubSeq(toDongle, 1, k)
    BY <1>3 DEF Restart
  <2>2. pc' = "start" /\ UNCHANGED registered
    BY <1>3 DEF Restart, dongle
  <2> QED BY <1>0, <2>1, <2>2, SeparatedPrefix DEF ResetFirst
<1>4. CASE DongleServe
  <2>1. toDongle # <<>> /\ UNCHANGED pc
    BY <1>4, ServeCases DEF host
  <2>2. PICK r \in Requests :
          /\ r = Head(toDongle)
          /\ \/ r.op = "reset" /\ Forgets /\ toDongle' \in {<<>>, Tail(toDongle)}
             \/ /\ r.op # "reset" /\ toDongle' = Tail(toDongle)
                /\ \/ r.op = "startup" /\ Starts
                   \/ \E f \in Frames : Answers(r, f)
    BY <1>4, ServeCases
  <2>3. toDongle' \in {<<>>, Tail(toDongle)}
    BY <2>2
  <2>4. registered' => (registered /\ r.op # "reset") \/ r.op = "register"
    BY <2>2 DEF Forgets, Starts, Answers, dongle
  <2>5. CASE toDongle' = Tail(toDongle)
    <3>1. /\ Separated(toDongle, registered) => Separated(Tail(toDongle), registered')
          /\ Undone(toDongle, registered) => Undone(Tail(toDongle), registered')
      BY <1>0, <2>1, <2>2, <2>4, ResetFirstTail
    <3> QED BY <2>1, <2>5, <3>1 DEF ResetFirst
  <2>6. CASE toDongle' = <<>> /\ toDongle' # Tail(toDongle)
    <3>1. registered' = FALSE
      BY <2>2, <2>6 DEF Forgets
    <3> QED BY <2>6, <3>1, NothingRegisters DEF ResetFirst
  <2> QED BY <2>3, <2>5, <2>6
<1>5. CASE DongleReboots
  <2>1. toDongle' = <<>> /\ registered' = FALSE
    BY <1>5 DEF DongleReboots, Reset
  <2> QED BY <2>1, NothingRegisters DEF ResetFirst
<1>6. CASE DongleForms \/ UNCHANGED vars
  <2>1. UNCHANGED <<toDongle, registered, pc>>
    BY <1>6 DEF DongleForms, vars, host, dongle
  <2> QED BY <2>1 DEF ResetFirst
<1> QED BY <1>1, <1>2, <1>3, <1>4, <1>5, <1>6 DEF Next

\* The dongle is never asked to register an endpoint it has registered, however the
\* program is killed and what of its requests is still answered (RegisterIsFresh).
THEOREM FreshRegister == Spec => []RegisterIsFresh
<1>1. Init => TypeOK /\ Awaits /\ ResetFirst
  <2>1. Init => ResetFirst
    BY NothingRegisters DEF Init, ResetFirst
  <2> QED BY <2>1, InitTypes
<1>2. TypeOK /\ Awaits /\ ResetFirst /\ [Next]_vars => (TypeOK /\ Awaits /\ ResetFirst)'
  BY TypeStep, ResetFirstStep
<1>3. TypeOK /\ ResetFirst => RegisterIsFresh
  <2> SUFFICES ASSUME TypeOK, ResetFirst, toDongle # <<>>, Head(toDongle).op = "register", registered
               PROVE  FALSE
    BY DEF RegisterIsFresh
  <2>1. Len(toDongle) \in Nat /\ 1 \in 1 .. Len(toDongle) /\ toDongle[1].op = "register"
    BY HeadTail DEF TypeOK
  <2>2. RegistersAt(toDongle, registered, 0) /\ 0 \in 0 .. Len(toDongle)
    BY <2>1 DEF RegistersAt
  <2>3. Separated(toDongle, registered)
    BY DEF ResetFirst
  <2>4. \E j \in 1 .. Len(toDongle) : 0 < j /\ j < 1 /\ toDongle[j].op = "reset"
    <3> DEFINE k == 0
               i == 1
    <3>1. k \in 0 .. Len(toDongle) /\ i \in 1 .. Len(toDongle) /\ k < i
      BY <2>1
    <3>2. RegistersAt(toDongle, registered, k) /\ toDongle[i].op = "register"
      BY <2>1, <2>2
    <3> HIDE DEF k, i
    <3>3. \E j \in 1 .. Len(toDongle) : k < j /\ j < i /\ toDongle[j].op = "reset"
      BY <2>3, <3>1, <3>2 DEF Separated
    <3> QED BY <3>3 DEF k, i
  <2> QED BY <2>4
<1> QED BY <1>1, <1>2, <1>3, PTL DEF Spec

-----------------------------------------------------------------------------
(* What is on the line.                                                     *)

\* The kinds of the empty list, and of a list of one request.
LEMMA OpsOfLists ==
  /\ Range(<<>>) = {} /\ Ops(<<>>) = {}
  /\ \A r \in Requests : <<r>> \in Seq(Requests) /\ Range(<<r>>) = {r} /\ Ops(<<r>>) = {r.op}
<1>1. Range(<<>>) = {}
  BY DEF Range
<1>2. \A r \in Requests : <<r>> \in Seq(Requests) /\ Range(<<r>>) = {r}
  BY OneRequest
<1> QED BY <1>1, <1>2 DEF Ops

\* ... as its first element is taken,
LEMMA OpsTail ==
  ASSUME NEW S, NEW s \in Seq(S), s # <<>>
  PROVE  /\ Tail(s) \in Seq(S)
         /\ Range(s) = {Head(s)} \cup Range(Tail(s)) /\ Ops(s) = {Head(s).op} \cup Ops(Tail(s))
<1>1. Tail(s) \in Seq(S) /\ Range(s) = {Head(s)} \cup Range(Tail(s))
  BY HeadTail
<1> QED BY <1>1 DEF Ops

\* ... as an element is put behind it,
LEMMA OpsAppend ==
  ASSUME NEW S, NEW s \in Seq(S), NEW e \in S
  PROVE  /\ Append(s, e) \in Seq(S)
         /\ Range(Append(s, e)) = Range(s) \cup {e} /\ Ops(Append(s, e)) = Ops(s) \cup {e.op}
<1>1. Append(s, e) \in Seq(S) /\ Range(Append(s, e)) = Range(s) \cup {e}
  BY RangeAppend
<1> QED BY <1>1 DEF Ops

\* ... and as a list is put behind it.
LEMMA OpsConcat ==
  ASSUME NEW S, NEW s \in Seq(S), NEW t \in Seq(S)
  PROVE  /\ s \o t \in Seq(S)
         /\ Range(s \o t) = Range(s) \cup Range(t) /\ Ops(s \o t) = Ops(s) \cup Ops(t)
<1>1. s \o t \in Seq(S) /\ Range(s \o t) = Range(s) \cup Range(t)
  BY ConcatProperties, RangeConcatenation
<1> QED BY <1>1 DEF Ops

\* An order holds of a list without the one or the other; it survives what is put
\* behind the list, if that may come after all of it, and what is cut off.
LEMMA OrderOfLists ==
  ASSUME NEW S, NEW s \in Seq(S), NEW A, NEW B
  PROVE  /\ Range(s) \cap A = {} \/ Range(s) \cap B = {} => NoneAfter(s, A, B)
         /\ \A e \in S : /\ NoneAfter(s, A, B) /\ (e \in B => Range(s) \cap A = {})
                         => NoneAfter(Append(s, e), A, B)
         /\ \A k \in 0 .. Len(s) : NoneAfter(s, A, B) => NoneAfter(SubSeq(s, 1, k), A, B)
<1>1. Len(s) \in Nat /\ \A x : x \in Range(s) <=> \E i \in 1 .. Len(s) : s[i] = x
  BY RangeElement, LenProperties
<1>2. Range(s) \cap A = {} \/ Range(s) \cap B = {} => NoneAfter(s, A, B)
  BY <1>1 DEF NoneAfter
<1>3. ASSUME NEW e \in S, NoneAfter(s, A, B), e \in B => Range(s) \cap A = {}
      PROVE  NoneAfter(Append(s, e), A, B)
  <2> DEFINE u == Append(s, e)
             n == Len(s)
  <2>1. Len(u) = n + 1 /\ u[n + 1] = e /\ \A i \in 1 .. n : u[i] = s[i]
    BY AppendProperties
  <2> HIDE DEF u
  <2>2. ASSUME NEW i \in 1 .. n + 1, NEW j \in 1 .. n + 1, i < j, u[i] \in A, u[j] \in B
        PROVE  FALSE
    <3>1. i \in 1 .. n
      BY <1>1, <2>2
    <3>2. CASE j \in 1 .. n
      BY <1>3, <2>1, <2>2, <3>1, <3>2 DEF NoneAfter
    <3>3. CASE j = n + 1
      BY <1>1, <1>3, <2>1, <2>2, <3>1, <3>3
    <3> QED BY <1>1, <3>2, <3>3
  <2>3. NoneAfter(u, A, B)
    BY <2>1, <2>2 DEF NoneAfter
  <2> QED BY <2>3 DEF u
<1>4. ASSUME NEW k \in 0 .. Len(s), NoneAfter(s, A, B)
      PROVE  NoneAfter(SubSeq(s, 1, k), A, B)
  <2> DEFINE u == SubSeq(s, 1, k)
  <2>1. \A i \in 1 .. k : s[i] \in S
    BY <1>1, ElementOfSeq
  <2>2. Len(u) = (IF 1 <= k THEN k - 1 + 1 ELSE 0) /\ \A i \in 1 .. k - 1 + 1 : u[i] = s[1 + i - 1]
    BY <1>1, <2>1, SubSeqProperties
  <2> HIDE DEF u
  <2>3. Len(u) = k /\ \A i \in 1 .. k : u[i] = s[i] /\ i \in 1 .. Len(s)
    BY <1>1, <2>2
  <2>4. NoneAfter(u, A, B)
    BY <1>4, <2>3 DEF NoneAfter
  <2> QED BY <2>4 DEF u
<1> QED BY <1>2, <1>3, <1>4

\* What is cut off a list was in it.
LEMMA OpsPrefix ==
  ASSUME NEW S, NEW s \in Seq(S), NEW k \in 0 .. Len(s)
  PROVE  /\ SubSeq(s, 1, k) \in Seq(S)
         /\ Range(SubSeq(s, 1, k)) \subseteq Range(s) /\ Ops(SubSeq(s, 1, k)) \subseteq Ops(s)
<1> DEFINE u == SubSeq(s, 1, k)
<1>1. Len(s) \in Nat /\ \A i \in 1 .. k : s[i] \in S
  BY ElementOfSeq, LenProperties
<1>2. u \in Seq(S) /\ Len(u) = (IF 1 <= k THEN k - 1 + 1 ELSE 0)
      /\ \A i \in 1 .. k - 1 + 1 : u[i] = s[1 + i - 1]
  BY <1>1, SubSeqProperties
<1> HIDE DEF u
<1>3. Len(u) = k /\ \A i \in 1 .. k : u[i] = s[i] /\ i \in 1 .. Len(s)
  BY <1>1, <1>2
<1>4. Range(u) \subseteq Range(s)
  <2>1. /\ \A x : x \in Range(u) <=> \E i \in 1 .. k : u[i] = x
        /\ \A x : x \in Range(s) <=> \E i \in 1 .. Len(s) : s[i] = x
    BY <1>2, <1>3, RangeElement
  <2> QED BY <1>3, <2>1
<1> QED BY <1>2, <1>4 DEF u, Ops

\* A kind is counted in a list if and only if it is there.
LEMMA CountOfKind ==
  ASSUME NEW o
  PROVE  /\ \A s \in Seq(Frames) : /\ Count(s, FrameOf(o)) \in Nat
                                   /\ Count(s, FrameOf(o)) = 0 <=> o \notin Ops(s)
         /\ \A s \in Seq(Requests) : /\ Count(s, RequestOf(o)) \in Nat
                                     /\ Count(s, RequestOf(o)) = 0 <=> o \notin Ops(s)
<1>1. ASSUME NEW s \in Seq(Frames)
      PROVE  /\ Count(s, FrameOf(o)) \in Nat
             /\ Count(s, FrameOf(o)) = 0 <=> o \notin Ops(s)
  <2>1. Range(s) \subseteq Frames
    BY RangeElement
  <2>2. Range(s) \cap FrameOf(o) = {} <=> o \notin Ops(s)
    BY <2>1 DEF FrameOf, Ops
  <2> QED BY <2>2, CountNone, CountAppend
<1>2. ASSUME NEW s \in Seq(Requests)
      PROVE  /\ Count(s, RequestOf(o)) \in Nat
             /\ Count(s, RequestOf(o)) = 0 <=> o \notin Ops(s)
  <2>1. Range(s) \subseteq Requests
    BY RangeElement
  <2>2. Range(s) \cap RequestOf(o) = {} <=> o \notin Ops(s)
    BY <2>1 DEF RequestOf, Ops
  <2> QED BY <2>2, CountNone, CountAppend
<1> QED BY <1>1, <1>2

\* A list of one kind without that kind is empty.
LEMMA NothingLeft ==
  ASSUME NEW S, NEW s \in Seq(S), Ops(s) = {}
  PROVE  s = <<>>
<1> SUFFICES ASSUME s # <<>>
             PROVE  FALSE
  OBVIOUS
<1> QED BY OpsTail

\* The orders kept on the way to the dongle, in terms of the kinds of requests.
LEMMA RequestLine ==
  ASSUME NEW t \in Seq(Requests)
  PROVE  /\ \A o : o \notin Ops(t) <=> Range(t) \cap RequestOf(o) = {}
         /\ \A a, b : a \notin Ops(t) \/ b \notin Ops(t) => NoneAfter(t, RequestOf(a), RequestOf(b))
         /\ \A u \in Seq(Requests) : \A a, b :
              NoneAfter(t, RequestOf(a), RequestOf(b)) /\ b \notin Ops(u)
                => NoneAfter(t \o u, RequestOf(a), RequestOf(b))
         /\ t # <<>> => \A a, b : NoneAfter(t, RequestOf(a), RequestOf(b)) =>
              /\ NoneAfter(Tail(t), RequestOf(a), RequestOf(b))
              /\ Head(t).op = a => b \notin Ops(Tail(t))
         /\ \A k \in 0 .. Len(t) : \A a, b : NoneAfter(t, RequestOf(a), RequestOf(b))
              => NoneAfter(SubSeq(t, 1, k), RequestOf(a), RequestOf(b))
<1>1. ASSUME NEW u \in Seq(Requests), NEW o
      PROVE  o \notin Ops(u) <=> Range(u) \cap RequestOf(o) = {}
  <2>1. Range(u) \subseteq Requests
    BY RangeElement
  <2> QED BY <2>1 DEF Ops, RequestOf
<1>2. \A a, b : a \notin Ops(t) \/ b \notin Ops(t) => NoneAfter(t, RequestOf(a), RequestOf(b))
  BY <1>1, OrderOfLists
<1>3. ASSUME NEW u \in Seq(Requests), NEW a, NEW b,
             NoneAfter(t, RequestOf(a), RequestOf(b)), b \notin Ops(u)
      PROVE  NoneAfter(t \o u, RequestOf(a), RequestOf(b))
  BY <1>1, <1>3, NoneAfterConcat
<1>4. ASSUME t # <<>>, NEW a, NEW b, NoneAfter(t, RequestOf(a), RequestOf(b))
      PROVE  /\ NoneAfter(Tail(t), RequestOf(a), RequestOf(b))
             /\ Head(t).op = a => b \notin Ops(Tail(t))
  <2>1. Tail(t) \in Seq(Requests) /\ Head(t) \in Requests
    BY <1>4, HeadTail
  <2>2. NoneAfter(Tail(t), RequestOf(a), RequestOf(b))
        /\ (Head(t) \in RequestOf(a) => Range(Tail(t)) \cap RequestOf(b) = {})
    BY <1>4, NoneAfterTail
  <2> QED BY <1>1, <2>1, <2>2 DEF RequestOf
<1>5. \A k \in 0 .. Len(t) : \A a, b : NoneAfter(t, RequestOf(a), RequestOf(b))
        => NoneAfter(SubSeq(t, 1, k), RequestOf(a), RequestOf(b))
  BY OrderOfLists
<1> QED BY <1>1, <1>2, <1>3, <1>4, <1>5

\* The same on the way back.
LEMMA FrameLine ==
  ASSUME NEW s \in Seq(Frames)
  PROVE  /\ \A o : o \notin Ops(s) <=> Range(s) \cap FrameOf(o) = {}
         /\ \A a : \A B : a \notin Ops(s) => NoneAfter(s, FrameOf(a), B)
         /\ \A f \in Frames : \A a : \A B :
              NoneAfter(s, FrameOf(a), B) /\ (f \notin B \/ a \notin Ops(s))
                => NoneAfter(Append(s, f), FrameOf(a), B)
         /\ s # <<>> => \A a : \A B : NoneAfter(s, FrameOf(a), B) =>
              /\ NoneAfter(Tail(s), FrameOf(a), B)
              /\ Head(s).op = a => Range(Tail(s)) \cap B = {}
<1>1. \A o : o \notin Ops(s) <=> Range(s) \cap FrameOf(o) = {}
  <2>1. Range(s) \subseteq Frames
    BY RangeElement
  <2> QED BY <2>1 DEF Ops, FrameOf
<1>2. \A a : \A B : a \notin Ops(s) => NoneAfter(s, FrameOf(a), B)
  BY <1>1, OrderOfLists
<1>3. ASSUME NEW f \in Frames, NEW a, NEW B, NoneAfter(s, FrameOf(a), B),
             f \notin B \/ a \notin Ops(s)
      PROVE  NoneAfter(Append(s, f), FrameOf(a), B)
  BY <1>1, <1>3, OrderOfLists
<1>4. ASSUME s # <<>>, NEW a, NEW B, NoneAfter(s, FrameOf(a), B)
      PROVE  /\ NoneAfter(Tail(s), FrameOf(a), B)
             /\ Head(s).op = a => Range(Tail(s)) \cap B = {}
  <2>1. Head(s) \in Frames
    BY <1>4, HeadTail
  <2>2. NoneAfter(Tail(s), FrameOf(a), B)
        /\ (Head(s) \in FrameOf(a) => Range(Tail(s)) \cap B = {})
    BY <1>4, NoneAfterTail
  <2> QED BY <2>1, <2>2 DEF FrameOf
<1> QED BY <1>1, <1>2, <1>3, <1>4

\* The counts of a kind as the lists change.
LEMMA CountsOfKind ==
  ASSUME NEW o
  PROVE  /\ \A s \in Seq(Frames) : \A f \in Frames :
              Count(Append(s, f), FrameOf(o)) = Count(s, FrameOf(o)) + (IF f.op = o THEN 1 ELSE 0)
         /\ \A s \in Seq(Frames) : s # <<>> =>
              Count(s, FrameOf(o)) = Count(Tail(s), FrameOf(o)) + (IF Head(s).op = o THEN 1 ELSE 0)
         /\ \A s \in Seq(Requests) : s # <<>> =>
              Count(s, RequestOf(o)) = Count(Tail(s), RequestOf(o)) + (IF Head(s).op = o THEN 1 ELSE 0)
         /\ \A r \in Requests : Count(<<r>>, RequestOf(o)) = IF r.op = o THEN 1 ELSE 0
         /\ Count(<<>>, RequestOf(o)) = 0
<1>1. ASSUME NEW s \in Seq(Frames), NEW f \in Frames
      PROVE  Count(Append(s, f), FrameOf(o)) = Count(s, FrameOf(o)) + (IF f.op = o THEN 1 ELSE 0)
  <2>1. f \in FrameOf(o) <=> f.op = o
    BY DEF FrameOf
  <2> QED BY <2>1, CountAppend
<1>2. ASSUME NEW s \in Seq(Frames), s # <<>>
      PROVE  Count(s, FrameOf(o)) = Count(Tail(s), FrameOf(o)) + (IF Head(s).op = o THEN 1 ELSE 0)
  <2>1. Head(s) \in FrameOf(o) <=> Head(s).op = o
    BY <1>2, HeadTail DEF FrameOf
  <2>2. /\ Count(s, FrameOf(o)) = (IF Head(s) \in FrameOf(o) THEN 1 ELSE 0) + Count(Tail(s), FrameOf(o))
        /\ Count(Tail(s), FrameOf(o)) \in Nat
    BY <1>2, CountHead
  <2> QED BY <2>1, <2>2
<1>3. ASSUME NEW s \in Seq(Requests), s # <<>>
      PROVE  Count(s, RequestOf(o)) = Count(Tail(s), RequestOf(o)) + (IF Head(s).op = o THEN 1 ELSE 0)
  <2>1. Head(s) \in RequestOf(o) <=> Head(s).op = o
    BY <1>3, HeadTail DEF RequestOf
  <2>2. /\ Count(s, RequestOf(o)) = (IF Head(s) \in RequestOf(o) THEN 1 ELSE 0) + Count(Tail(s), RequestOf(o))
        /\ Count(Tail(s), RequestOf(o)) \in Nat
    BY <1>3, CountHead
  <2> QED BY <2>1, <2>2
<1>4. Count(<<>>, RequestOf(o)) = 0
  <2>1. <<>> \in Seq(Requests)
    BY EmptySeq
  <2> QED BY <2>1, CountOfKind, OpsOfLists
<1>5. ASSUME NEW r \in Requests
      PROVE  Count(<<r>>, RequestOf(o)) = IF r.op = o THEN 1 ELSE 0
  <2> DEFINE w == <<r>>
  <2>1. w \in Seq(Requests) /\ w # <<>> /\ Head(w) = r /\ Tail(w) = <<>>
    OBVIOUS
  <2> HIDE DEF w
  <2>2. Count(w, RequestOf(o)) = Count(Tail(w), RequestOf(o)) + (IF Head(w).op = o THEN 1 ELSE 0)
    BY <1>3, <2>1
  <2> QED BY <1>4, <2>1, <2>2 DEF w
<1> QED BY <1>1, <1>2, <1>3, <1>4, <1>5

-----------------------------------------------------------------------------
(* Every step keeps ConfigInv.                                              *)

\* A start that ended waits for nothing.
LEMMA ConfigExit ==
  ASSUME ConfigInv, TypeOK', Awaits', Exit
  PROVE  ConfigInv'
<1>1. pc' = "exited" /\ UNCHANGED <<toDongle, fromDongle, nv, dev>>
  BY DEF Exit, dongle
<1>2. Guarded'
  BY <1>1 DEF ConfigInv, Guarded, Configured
<1>3. /\ Leftovers' /\ Sent' /\ Received' /\ Counted' /\ Still' /\ ReadsTrue' /\ WritesTrue'
  BY <1>1 DEF Leftovers, Sent, Received, Counted, Still, ReadsTrue, WritesTrue
<1> QED BY <1>2, <1>3 DEF ConfigInv

\* A new start finds what is left of the line of an earlier one.
LEMMA ConfigRestart ==
  ASSUME ConfigInv, TypeOK', Awaits', Restart, Settled
  PROVE  ConfigInv'
<1>0. toDongle \in Seq(Requests) /\ fromDongle \in Seq(Frames)
  BY DEF ConfigInv, TypeOK
<1>1. pc' = "start" /\ UNCHANGED <<nv, dev>> /\ fromDongle' \in {<<>>, fromDongle}
  BY DEF Restart, dongle
<1>2. PICK k \in 0 .. Len(toDongle) : toDongle' = SubSeq(toDongle, 1, k)
  BY DEF Restart
<1>3. Ops(toDongle') \subseteq Ops(toDongle) /\ Ops(fromDongle') \subseteq Ops(fromDongle)
  BY <1>0, <1>1, <1>2, OpsPrefix, OpsOfLists
<1>4. \A a, b : NoneAfter(toDongle, RequestOf(a), RequestOf(b)) =>
                NoneAfter(toDongle', RequestOf(a), RequestOf(b))
  BY <1>0, <1>2, RequestLine
<1>5. NoneAfter(fromDongle', FrameOf("resetind"), FrameOf("ieee"))
  <2>1. CASE fromDongle' = fromDongle
    BY <2>1 DEF Settled
  <2>2. CASE fromDongle' = <<>>
    <3>1. fromDongle' \in Seq(Frames) /\ "resetind" \notin Ops(fromDongle')
      BY <2>2, OpsOfLists, EmptySeq
    <3> QED BY <3>1, FrameLine
  <2> QED BY <1>1, <2>1, <2>2
<1>6. Settled'
  BY <1>3, <1>4, <1>5 DEF Settled
<1>7. Guarded'
  BY <1>1, <1>3, <1>4 DEF ConfigInv, Guarded, Configured
<1>8. /\ Leftovers' /\ Sent' /\ Received' /\ Counted' /\ Still' /\ ReadsTrue' /\ WritesTrue'
  BY <1>1, <1>6 DEF Leftovers, Sent, Received, Counted, Still, ReadsTrue, WritesTrue
<1> QED BY <1>7, <1>8 DEF ConfigInv

\* The dongle says that its state changed; it was running, so its options are set.
LEMMA ConfigForms ==
  ASSUME ConfigInv, TypeOK', Awaits', DongleForms
  PROVE  ConfigInv'
<1>0. toDongle \in Seq(Requests) /\ fromDongle \in Seq(Frames)
  BY DEF ConfigInv, TypeOK
<1>1. /\ dev = "COORD_STARTING" /\ dev' # "HOLD"
      /\ UNCHANGED <<pc, answer, awaiting, current_config, toDongle, nv>>
  BY DEF DongleForms, host
<1>2. PICK f \in Frames : f.op = "stateind" /\ fromDongle' = Append(fromDongle, f)
  <2>1. PICK s \in {"ZB_COORD", "NWK_ORPHAN"} :
          fromDongle' = Append(fromDongle, [op |-> "stateind", ok |-> TRUE, value |-> s])
    BY DEF DongleForms, Put
  <2> QED BY <2>1, FrameTypes DEF DeviceStates
<1>3. Ops(fromDongle') = Ops(fromDongle) \cup {"stateind"}
  BY <1>0, <1>2, OpsAppend
<1>4. pc \notin {"read", "clear", "reset2", "write"}
  BY <1>1 DEF ConfigInv, Still
<1>5. pc = "reset" \/ pc = "ieee" => "reset" \in Ops(toDongle)
  BY <1>1 DEF ConfigInv, Leftovers
<1>6. pc = "ieee" => toDongle # <<>> /\ "ieee" \notin Ops(fromDongle) /\ answer # "ok"
  BY <1>5, OpsOfLists DEF ConfigInv, Leftovers
<1>7. Settled => Settled'
  <2>1. f \notin FrameOf("ieee")
    BY <1>2 DEF FrameOf
  <2>2. NoneAfter(fromDongle, FrameOf("resetind"), FrameOf("ieee")) =>
          NoneAfter(fromDongle', FrameOf("resetind"), FrameOf("ieee"))
    BY <1>0, <1>2, <2>1, FrameLine
  <2> QED BY <1>1, <1>3, <2>2 DEF Settled
<1>8. Leftovers'
  <2>1. pc = "ieee" => NoneAfter(fromDongle', FrameOf("ieee"), Frames \ FrameOf("resetind"))
    BY <1>0, <1>2, <1>6, FrameLine DEF ConfigInv, Leftovers
  <2> QED BY <1>1, <1>3, <1>5, <1>6, <1>7, <2>1 DEF ConfigInv, Leftovers
<1>9. Sent'
  BY <1>1 DEF ConfigInv, Sent
<1>10. Received'
  BY <1>1, <1>3, <1>4 DEF ConfigInv, Received
<1>11. Counted'
  <2>1. Awaited[pc] # "stateind"
    BY DEF ConfigInv, TypeOK, Awaited
  <2>2. Count(fromDongle', FrameOf(Awaited[pc])) = Count(fromDongle, FrameOf(Awaited[pc]))
    BY <1>0, <1>2, <2>1, CountsOfKind, CountOfKind
  <2>3. Outstanding' = Outstanding
    BY <1>1, <2>2 DEF Outstanding
  <2> QED BY <1>1, <2>3 DEF ConfigInv, Counted
<1>12. Still' /\ ReadsTrue' /\ WritesTrue'
  BY <1>1, <1>4 DEF Still, ReadsTrue, WritesTrue
<1>13. Guarded'
  BY <1>1 DEF ConfigInv, Guarded, Configured
<1> QED BY <1>8, <1>9, <1>10, <1>11, <1>12, <1>13 DEF ConfigInv

\* What was still to be answered, and what was sent, is of the kind that is awaited.
LEMMA SentKinds ==
  ASSUME ConfigInv
  PROVE  /\ pc \in {"read", "clear", "permit", "register"} /\ toDongle # <<>> =>
              Ops(toDongle) = {Awaited[pc]}
         /\ pc = "reset2" /\ toDongle # <<>> => toDongle = <<Req("reset")>>
         /\ pc = "write" /\ toDongle # <<>> =>
              /\ "write" \in Ops(toDongle) /\ Ops(toDongle) \subseteq {"reset", "write"}
              /\ \/ toDongle = <<Req("reset")>> \o Writes
                 \/ Range(toDongle) \subseteq Range(Writes) /\ "reset" \notin Ops(toDongle)
         /\ pc = "startup" /\ toDongle # <<>> =>
              "startup" \in Ops(toDongle) /\ Ops(toDongle) \subseteq {"state", "startup"}
         /\ pc \in {"state", "ready"} => toDongle = <<>>
<1>0. toDongle \in Seq(Requests) /\ Sent
  BY DEF ConfigInv, TypeOK
<1>1. /\ \A o \in {"reset", "state", "startup", "permit", "register"} :
           Req(o) \in Requests /\ Req(o).op = o /\ Ops(<<Req(o)>>) = {o}
      /\ Write("startup_option", "clear") \in Requests
      /\ Write("startup_option", "clear").op = "write"
      /\ Ops(<<Write("startup_option", "clear")>>) = {"write"}
  BY RequestTypes, ConfigTypes, OpsOfLists DEF Write
<1>2. toDongle # <<>> => Ops(toDongle) # {}
  BY <1>0, NothingLeft
<1>3. CASE pc \in {"read", "clear", "permit", "register"}
  BY <1>0, <1>1, <1>2, <1>3 DEF Sent, Awaited
<1>4. CASE pc = "write"
  <2>1. /\ Writes \in Seq(Requests) /\ Ops(Writes) = {"write"}
    <3>1. Range(Writes) = {Write(f, desired_config[f]) : f \in Fields} /\ Fields # {}
      BY Batches, ConfigTypes
    <3>2. \A x \in Range(Writes) : x.op = "write"
      BY <3>1 DEF Write
    <3>3. Range(Writes) # {}
      BY <3>1
    <3> QED BY <3>2, <3>3, Batches DEF Ops
  <2>2. Ops(<<Req("reset")>> \o Writes) = {"reset", "write"}
    <3> DEFINE w == <<Req("reset")>>
    <3>1. w \in Seq(Requests) /\ Ops(w) = {"reset"}
      BY <1>1, OpsOfLists
    <3> HIDE DEF w
    <3>2. Ops(w \o Writes) = Ops(w) \cup Ops(Writes)
      BY <2>1, <3>1, OpsConcat
    <3> QED BY <2>1, <3>1, <3>2 DEF w
  <2>3. Range(toDongle) \subseteq Range(Writes) => Ops(toDongle) \subseteq {"write"}
    BY <2>1 DEF Ops
  <2> QED BY <1>0, <1>2, <1>4, <2>2, <2>3 DEF Sent
<1>5. CASE pc = "startup"
  <2>1. Ops(<<Req("state"), Req("startup")>>) = {"state", "startup"}
    <3> DEFINE v == <<Req("state")>>
    <3>1. v \in Seq(Requests) /\ Ops(v) = {"state"} /\ Req("startup") \in Requests
      BY <1>1, OpsOfLists
    <3>2. <<Req("state"), Req("startup")>> = Append(v, Req("startup"))
      OBVIOUS
    <3> HIDE DEF v
    <3>3. Ops(Append(v, Req("startup"))) = Ops(v) \cup {Req("startup").op}
      BY <3>1, OpsAppend
    <3> QED BY <1>1, <3>1, <3>2, <3>3
  <2> QED BY <1>0, <1>1, <1>5, <2>1 DEF Sent
<1>6. CASE pc \in {"reset2", "state", "ready"}
  BY <1>0, <1>6 DEF Sent
<1> QED BY <1>3, <1>4, <1>5, <1>6

\* The dongle resets on its own: what it had not read will never be answered.
LEMMA ConfigReboots ==
  ASSUME ConfigInv, TypeOK', Awaits', DongleReboots
  PROVE  ConfigInv'
<1>0. toDongle \in Seq(Requests) /\ fromDongle \in Seq(Frames) /\ ResetInd \in Frames
      /\ ResetInd.op = "resetind"
  BY FrameTypes DEF ConfigInv, TypeOK, ResetInd
<1>1. /\ toDongle' = <<>> /\ dev' = "HOLD" /\ fromDongle' = Append(fromDongle, ResetInd)
      /\ nv' = IF nv["startup_option"] = "clear" THEN Factory ELSE nv
      /\ UNCHANGED <<pc, answer, awaiting, current_config>>
  BY DEF DongleReboots, Reset, Put, host, ResetInd
<1>2. Ops(fromDongle') = Ops(fromDongle) \cup {"resetind"} /\ Ops(toDongle') = {}
      /\ Range(fromDongle') = Range(fromDongle) \cup {ResetInd} /\ toDongle' \in Seq(Requests)
  BY <1>0, <1>1, OpsAppend, OpsOfLists, EmptySeq
<1>3. \A a, b : NoneAfter(toDongle', RequestOf(a), RequestOf(b))
  BY <1>2, RequestLine
<1>4. Leftovers'
  <2>1. Settled => Settled'
    <3>1. ResetInd \notin FrameOf("ieee")
      BY <1>0 DEF FrameOf
    <3>2. NoneAfter(fromDongle, FrameOf("resetind"), FrameOf("ieee")) =>
            NoneAfter(fromDongle', FrameOf("resetind"), FrameOf("ieee"))
      BY <1>0, <1>1, <3>1, FrameLine
    <3> QED BY <1>2, <1>3, <3>2 DEF Settled
  <2>2. pc = "ieee" => NoneAfter(fromDongle', FrameOf("ieee"), Frames \ FrameOf("resetind"))
    <3>1. ResetInd \notin Frames \ FrameOf("resetind")
      BY <1>0 DEF FrameOf
    <3> QED BY <1>0, <1>1, <3>1, FrameLine DEF ConfigInv, Leftovers
  <2>3. NoneAfter(toDongle', RequestOf("ieee"), Requests)
    BY <1>1, <1>2, OrderOfLists, OpsOfLists
  <2> QED BY <1>1, <1>2, <2>1, <2>2, <2>3 DEF ConfigInv, Leftovers
<1>5. Sent'
  BY <1>1, <1>2, OpsOfLists DEF Sent
<1>6. Received'
  BY <1>1, <1>2 DEF ConfigInv, Received
<1>7. /\ Outstanding' = Count(fromDongle, FrameOf(Awaited[pc])) \/ Awaited[pc] = "resetind"
      /\ Outstanding' \in Nat
      /\ Outstanding = Count(fromDongle, FrameOf(Awaited[pc])) + Count(toDongle, RequestOf(Awaited[pc]))
      /\ Count(fromDongle, FrameOf(Awaited[pc])) \in Nat
      /\ Count(toDongle, RequestOf(Awaited[pc])) \in Nat
      /\ Awaited[pc] \in Ops(toDongle) => Count(toDongle, RequestOf(Awaited[pc])) >= 1
  <2>1. Count(toDongle', RequestOf(Awaited[pc])) = 0
    BY <1>1, CountsOfKind
  <2>2. Count(fromDongle', FrameOf(Awaited[pc])) =
          Count(fromDongle, FrameOf(Awaited[pc])) + (IF "resetind" = Awaited[pc] THEN 1 ELSE 0)
    BY <1>0, <1>1, CountsOfKind
  <2>3. /\ Count(fromDongle, FrameOf(Awaited[pc])) \in Nat
        /\ Count(toDongle, RequestOf(Awaited[pc])) \in Nat
        /\ Awaited[pc] \in Ops(toDongle) => Count(toDongle, RequestOf(Awaited[pc])) # 0
    BY <1>0, CountOfKind
  <2>4. Outstanding' = Count(fromDongle', FrameOf(Awaited[pc])) + Count(toDongle', RequestOf(Awaited[pc]))
    BY <1>1 DEF Outstanding
  <2> QED BY <2>1, <2>2, <2>3, <2>4 DEF Outstanding
<1>8. Counted'
  <2>1. pc \in {"read", "clear", "write", "startup", "permit", "register"} => Awaited[pc] # "resetind"
    BY DEF Awaited
  <2>2. awaiting \in Nat
    BY Batches DEF ConfigInv, TypeOK
  <2> HIDE DEF Awaited
  <2> QED BY <1>1, <1>7, <2>1, <2>2 DEF ConfigInv, Counted
<1>9. ASSUME pc \in {"read", "write"}, answer # "failed", Doomed \/ Awaited[pc] \in Ops(toDongle)
      PROVE  Doomed'
  <2>0. awaiting \in Nat /\ Awaited[pc] # "resetind"
    BY <1>9, Batches DEF ConfigInv, TypeOK, Awaited
  <2>1. CASE Doomed
    <3>1. Outstanding < awaiting => Outstanding' < awaiting
      BY <1>7, <2>0
    <3> QED BY <1>1, <1>2, <2>1, <3>1 DEF Doomed
  <2>2. CASE Awaited[pc] \in Ops(toDongle)
    <3>1. Outstanding # 0
      BY <1>7, <2>2
    <3>2. answer = "pending" /\ Outstanding <= awaiting
      BY <1>9, <3>1 DEF ConfigInv, Counted, TypeOK
    <3>3. Outstanding' < awaiting
      BY <1>7, <2>0, <2>2, <3>2
    <3> QED BY <1>1, <3>2, <3>3 DEF Doomed
  <2> QED BY <1>9, <2>1, <2>2
<1>10. ReadsTrue'
  <2> SUFFICES ASSUME pc = "read", answer # "failed", ~Doomed'
               PROVE  WillClear' \/ AsRead'
    BY <1>1 DEF ReadsTrue
  <2>1. ~Doomed /\ "read" \notin Ops(toDongle)
    BY <1>9 DEF Awaited
  <2>2. toDongle = <<>>
    BY <1>0, <2>1, SentKinds DEF Awaited
  <2>3. \A f : f \in Range(fromDongle') /\ f.op = "read" <=> f \in Range(fromDongle) /\ f.op = "read"
    BY <1>0, <1>2
  <2>4. CASE WillClear
    BY <1>1, <2>3, <2>4 DEF WillClear
  <2>5. CASE AsRead /\ nv["startup_option"] = "clear"
    <3>1. \A f \in Range(fromDongle) :
            f.op = "read" /\ f.ok /\ f.field = "startup_option" => f.value = "clear"
      BY <2>5 DEF AsRead
    <3>2. \/ \E f \in Range(fromDongle) : f.op = "read" /\ f.ok /\ f.field = "startup_option"
          \/ current_config["startup_option"] = "clear"
      BY <2>2, <2>5, ConfigTypes, OpsOfLists DEF AsRead
    <3> QED BY <1>1, <2>3, <3>1, <3>2 DEF WillClear
  <2>6. CASE AsRead /\ nv["startup_option"] # "clear"
    <3>1. nv' = nv
      BY <1>1, <2>6
    <3> QED BY <1>1, <2>2, <2>3, <2>6, <3>1 DEF AsRead
  <2> QED BY <2>1, <2>4, <2>5, <2>6 DEF ConfigInv, ReadsTrue
<1>11. WritesTrue'
  <2> SUFFICES ASSUME pc = "write", answer # "failed", ~Doomed'
               PROVE  \A g \in Fields : nv'[g] = desired_config[g]
    BY <1>1 DEF WritesTrue
  <2>1. ~Doomed /\ "write" \notin Ops(toDongle)
    BY <1>9 DEF Awaited
  <2>2. toDongle = <<>>
    BY <2>1, SentKinds
  <2>3. \A g \in Fields : nv[g] = desired_config[g]
    BY <2>1, <2>2, OpsOfLists DEF ConfigInv, WritesTrue
  <2>4. nv["startup_option"] = "none"
    BY <2>3, ConfigTypes DEF desired_config
  <2> QED BY <1>1, <2>3, <2>4
<1>12. Still' /\ Guarded'
  BY <1>1, <1>2, <1>3 DEF Still, Guarded
<1> QED BY <1>4, <1>5, <1>6, <1>8, <1>10, <1>11, <1>12 DEF ConfigInv

\* One received frame: an answer to what is awaited, or one nobody counts.
LEMMA FrameCounts ==
  ASSUME ConfigInv, OnFrame, pc # "state"
  PROVE  /\ Outstanding \in Nat /\ Outstanding' \in Nat /\ awaiting \in Nat /\ awaiting' \in Nat
         /\ \E f \in Frames :
              /\ f = Head(fromDongle)
              /\ \/ /\ answer = "pending" /\ Awaited[pc] = f.op
                    /\ Outstanding = Outstanding' + 1 /\ awaiting = awaiting' + 1
                    /\ answer' = IF ~f.ok THEN "failed" ELSE IF awaiting = 1 THEN "ok" ELSE "pending"
                    /\ f.op = "read" /\ f.ok =>
                         /\ f.field \in Fields
                         /\ current_config' = [current_config EXCEPT ![f.field] = f.value]
                    /\ ~f.ok => current_config' = current_config
                 \/ /\ answer # "pending" \/ Awaited[pc] # f.op
                    /\ Awaited[pc] # f.op => Outstanding = Outstanding'
                    /\ Outstanding' <= Outstanding
                    /\ UNCHANGED <<answer, awaiting, current_config>>
<1>0. toDongle \in Seq(Requests) /\ fromDongle \in Seq(Frames) /\ TypeOK /\ Awaits
  BY DEF ConfigInv, TypeOK
<1>1. /\ fromDongle # <<>> /\ fromDongle' = Tail(fromDongle) /\ fromDongle' \in Seq(Frames)
      /\ UNCHANGED <<pc, toDongle>>
  BY <1>0, FrameCases
<1>2. PICK f \in Frames : f = Head(fromDongle) /\ (Answered(f) \/ StateFrame(f) \/ Unhandled(f))
  BY <1>0, FrameCases
<1> DEFINE o == Awaited[pc]
<1>3. /\ Count(fromDongle, FrameOf(o)) = Count(fromDongle', FrameOf(o)) + (IF f.op = o THEN 1 ELSE 0)
      /\ Count(fromDongle', FrameOf(o)) \in Nat /\ Count(fromDongle, FrameOf(o)) \in Nat
      /\ Count(toDongle, RequestOf(o)) \in Nat
  BY <1>0, <1>1, <1>2, CountsOfKind, CountOfKind
<1>4. /\ Outstanding = Count(fromDongle, FrameOf(o)) + Count(toDongle, RequestOf(o))
      /\ Outstanding' = Count(fromDongle', FrameOf(o)) + Count(toDongle, RequestOf(o))
  BY <1>1 DEF Outstanding
<1>5. awaiting \in Nat /\ awaiting' \in Nat
  <2>1. Len(FieldOrder) \in Nat /\ TypeOK'
    BY <1>0, Batches, TypeFrame
  <2> QED BY <1>0, <2>1 DEF TypeOK
<1>6. o \notin {"state", "stateind"}
  BY DEF Awaited, ConfigInv, TypeOK
<1> HIDE DEF o
<1>7. /\ f.op = o => Outstanding = Outstanding' + 1
      /\ f.op # o => Outstanding = Outstanding'
      /\ Outstanding \in Nat /\ Outstanding' \in Nat /\ Outstanding' <= Outstanding
  <2> DEFINE a == Count(fromDongle', FrameOf(o))
             b == Count(fromDongle, FrameOf(o))
             c == Count(toDongle, RequestOf(o))
  <2>1. /\ a \in Nat /\ b \in Nat /\ c \in Nat
        /\ f.op = o => b = a + 1
        /\ f.op # o => b = a
        /\ Outstanding = b + c /\ Outstanding' = a + c
    BY <1>3, <1>4
  <2> HIDE DEF a, b, c
  <2> QED BY <2>1
<1>8. CASE Answered(f)
  <2>1. o = f.op /\ awaiting' = awaiting - 1 /\ answer = "pending"
    BY <1>8 DEF Answered, o
  <2>2. answer' = IF ~f.ok THEN "failed" ELSE IF awaiting = 1 THEN "ok" ELSE "pending"
    BY <1>8 DEF Answered
  <2>3. awaiting = awaiting' + 1
    BY <1>5, <2>1
  <2>4. /\ f.op = "read" /\ f.ok => /\ f.field \in Fields
                                    /\ current_config' = [current_config EXCEPT ![f.field] = f.value]
        /\ ~f.ok => current_config' = current_config
    BY <1>8, FrameShape DEF Answered
  <2> QED BY <1>2, <1>5, <1>7, <2>1, <2>2, <2>3, <2>4 DEF o
<1>9. CASE StateFrame(f) \/ Unhandled(f)
  <2>1. UNCHANGED <<answer, awaiting, current_config>> /\ (answer # "pending" \/ o # f.op)
    BY <1>6, <1>9 DEF StateFrame, Unhandled, o
  <2> QED BY <1>2, <1>5, <1>7, <2>1 DEF o
<1> QED BY <1>2, <1>8, <1>9

\* What is doomed stays so until the future fails.
LEMMA DoomedFrame ==
  ASSUME ConfigInv, OnFrame, Doomed, pc \in {"read", "write"}
  PROVE  answer' = "failed" \/ Doomed'
<1>0. fromDongle \in Seq(Frames) /\ fromDongle # <<>> /\ fromDongle' = Tail(fromDongle)
      /\ fromDongle' \in Seq(Frames) /\ pc' = pc /\ toDongle \in Seq(Requests) /\ toDongle' = toDongle
  BY FrameCases DEF ConfigInv, TypeOK
<1>1. Range(fromDongle) = {Head(fromDongle)} \cup Range(fromDongle')
  BY <1>0, HeadTail
<1>2. answer = "pending" /\ Outstanding <= awaiting
  BY DEF ConfigInv, Counted, Doomed
<1>3. Outstanding \in Nat /\ Outstanding' \in Nat /\ awaiting \in Nat /\ awaiting' \in Nat
  BY FrameCounts
<1>4. PICK f \in Frames :
        /\ f = Head(fromDongle)
        /\ \/ /\ Awaited[pc] = f.op
              /\ Outstanding = Outstanding' + 1 /\ awaiting = awaiting' + 1
              /\ answer' = IF ~f.ok THEN "failed" ELSE IF awaiting = 1 THEN "ok" ELSE "pending"
           \/ /\ Awaited[pc] # f.op /\ Outstanding = Outstanding'
              /\ UNCHANGED <<answer, awaiting>>
  BY <1>2, FrameCounts
<1>5. CASE Awaited[pc] # f.op
  BY <1>0, <1>1, <1>2, <1>4, <1>5 DEF Doomed
<1>6. CASE Awaited[pc] = f.op /\ f.ok
  <2>1. Outstanding = Outstanding' + 1 /\ awaiting = awaiting' + 1
        /\ answer' = IF awaiting = 1 THEN "ok" ELSE "pending"
    BY <1>4, <1>6
  <2>0. \A a, b, c, d \in Nat : a = b + 1 /\ c = d + 1 =>
          (a < c => c # 1 /\ b < d) /\ (a <= c /\ b # 0 => c # 1)
    OBVIOUS
  <2>2. CASE Outstanding < awaiting
    <3>1. awaiting # 1 /\ Outstanding' < awaiting'
      BY <1>3, <2>1, <2>2, <2>0
    <3> QED BY <2>1, <3>1 DEF Doomed
  <2>3. ASSUME NEW g \in Range(fromDongle), g.op = Awaited[pc], ~g.ok
        PROVE  Doomed'
    <3>1. g \in Range(fromDongle')
      BY <1>1, <1>4, <1>6, <2>3
    <3>2. Awaited[pc] \in Ops(fromDongle')
      BY <2>3, <3>1 DEF Ops
    <3>3. Outstanding' # 0
      <4>1. /\ Count(fromDongle', FrameOf(Awaited[pc])) \in Nat \ {0}
            /\ Count(toDongle, RequestOf(Awaited[pc])) \in Nat
        BY <1>0, <3>2, CountOfKind
      <4>2. Outstanding' = Count(fromDongle', FrameOf(Awaited[pc])) + Count(toDongle, RequestOf(Awaited[pc]))
        BY <1>0 DEF Outstanding
      <4> QED BY <4>1, <4>2
    <3>4. awaiting # 1
      BY <1>2, <1>3, <2>1, <2>0, <3>3
    <3> QED BY <1>0, <2>1, <2>3, <3>1, <3>4 DEF Doomed
  <2> QED BY <2>2, <2>3 DEF Doomed
<1>7. CASE Awaited[pc] = f.op /\ ~f.ok
  BY <1>4, <1>7
<1> QED BY <1>5, <1>6, <1>7

\* A frame is received.
LEMMA ConfigFrame ==
  ASSUME ConfigInv, TypeOK', Awaits', OnFrame
  PROVE  ConfigInv'
<1>0. toDongle \in Seq(Requests) /\ fromDongle \in Seq(Frames)
  BY DEF ConfigInv, TypeOK
<1>1. /\ fromDongle # <<>> /\ fromDongle' = Tail(fromDongle) /\ fromDongle' \in Seq(Frames)
      /\ UNCHANGED <<pc, toDongle, nv, dev>>
  BY FrameCases DEF dongle, ConfigInv
<1>2. /\ Range(fromDongle) = {Head(fromDongle)} \cup Range(fromDongle')
      /\ Ops(fromDongle) = {Head(fromDongle).op} \cup Ops(fromDongle')
  BY <1>0, <1>1, OpsTail
<1>3. \A a : \A B : NoneAfter(fromDongle, FrameOf(a), B) =>
                    /\ NoneAfter(fromDongle', FrameOf(a), B)
                    /\ Head(fromDongle).op = a => Range(fromDongle') \cap B = {}
  BY <1>0, <1>1, FrameLine
<1>4. ASSUME pc # "state"
      PROVE  \/ UNCHANGED answer
             \/ answer = "pending" /\ Head(fromDongle).op = Awaited[pc]
  BY <1>4, FrameCounts
<1>5. Leftovers'
  <2>1. Settled => Settled'
    BY <1>1, <1>2, <1>3 DEF Settled
  <2>2. pc = "start" \/ (pc = "reset" /\ answer' = "pending") => Settled
    BY <1>4 DEF ConfigInv, Leftovers, TypeOK
  <2>3. ASSUME pc = "reset", answer' = "ok"
        PROVE  "ieee" \notin Ops(fromDongle') \cup Ops(toDongle)
    <3>1. CASE answer = "ok"
      BY <1>2, <2>3, <3>1 DEF ConfigInv, Leftovers
    <3>2. CASE answer # "ok"
      <4>1. answer = "pending" /\ Head(fromDongle).op = "resetind"
        BY <1>4, <2>3, <3>2 DEF Awaited
      <4>2. Settled
        BY <2>3, <4>1 DEF ConfigInv, Leftovers
      <4>3. "ieee" \notin Ops(toDongle)
        BY <1>2, <4>1, <4>2 DEF Settled
      <4>4. Range(fromDongle') \cap FrameOf("ieee") = {}
        BY <1>3, <4>1, <4>2 DEF Settled
      <4> QED BY <1>1, <4>3, <4>4, FrameLine
    <3> QED BY <3>1, <3>2
  <2>4. ASSUME pc = "ieee", answer' = "ok"
        PROVE  toDongle = <<>> /\ Ops(fromDongle') \subseteq {"resetind"}
    <3>1. CASE answer = "ok"
      BY <1>2, <2>4, <3>1 DEF ConfigInv, Leftovers
    <3>2. CASE answer # "ok"
      <4>1. Head(fromDongle).op = "ieee"
        BY <1>4, <2>4, <3>2 DEF Awaited
      <4>2. toDongle = <<>>
        BY <1>2, <2>4, <4>1 DEF ConfigInv, Leftovers
      <4>3. Range(fromDongle') \cap (Frames \ FrameOf("resetind")) = {}
        BY <1>3, <2>4, <4>1 DEF ConfigInv, Leftovers
      <4>4. Range(fromDongle') \subseteq FrameOf("resetind")
        BY <1>1, <4>3, RangeElement
      <4> QED BY <4>2, <4>4 DEF Ops, FrameOf
    <3> QED BY <3>1, <3>2
  <2> QED BY <1>1, <1>2, <1>3, <2>1, <2>2, <2>3, <2>4 DEF ConfigInv, Leftovers
<1>6. Sent' /\ Still' /\ Guarded'
  BY <1>1 DEF ConfigInv, Sent, Still, Guarded, Configured
<1>7. Received'
  BY <1>1, <1>2 DEF ConfigInv, Received
<1>8. Counted'
  <2> SUFFICES ASSUME pc \in {"read", "clear", "write", "startup", "permit", "register"}
               PROVE  /\ answer' = "pending" => Outstanding' <= awaiting'
                      /\ answer' = "ok" => Outstanding' = 0
    BY <1>1 DEF Counted
  <2>1. /\ answer = "pending" => Outstanding <= awaiting
        /\ answer = "ok" => Outstanding = 0
    BY DEF ConfigInv, Counted
  <2>2. \A a, b, c, d \in Nat : /\ a = b + 1 /\ c = d + 1 /\ a <= c => b <= d /\ (c = 1 => b = 0)
                                /\ b <= a /\ a = 0 => b = 0
                                /\ b <= a /\ a <= c => b <= c
    OBVIOUS
  <2>3. Outstanding \in Nat /\ Outstanding' \in Nat /\ awaiting \in Nat /\ awaiting' \in Nat
    BY FrameCounts
  <2>4. CASE answer = "pending" /\ Outstanding = Outstanding' + 1 /\ awaiting = awaiting' + 1
             /\ (answer' = "ok" => awaiting = 1)
    BY <2>1, <2>2, <2>3, <2>4
  <2>5. CASE Outstanding' <= Outstanding /\ UNCHANGED <<answer, awaiting>>
    BY <2>1, <2>2, <2>3, <2>5
  <2> QED BY <2>4, <2>5, FrameCounts
<1>9. ReadsTrue'
  <2> SUFFICES ASSUME pc = "read", answer' # "failed", ~Doomed'
               PROVE  WillClear' \/ AsRead'
    BY <1>1 DEF ReadsTrue
  <2>1. ~Doomed
    BY DoomedFrame
  <2>2. PICK f \in Frames :
          /\ f = Head(fromDongle)
          /\ \/ /\ f.op = "read" /\ f.ok /\ f.field \in Fields
                /\ current_config' = [current_config EXCEPT ![f.field] = f.value]
             \/ /\ answer # "pending" \/ f.op # "read"
                /\ UNCHANGED <<answer, current_config>>
    BY FrameCounts DEF Awaited
  <2>3. answer # "failed"
    <3>1. answer = "failed" => answer' = "failed"
      BY FrameCounts
    <3> QED BY <3>1
  <2>4. answer = "ok" => "read" \notin Ops(fromDongle)
    <3>1. answer = "ok" => Outstanding = 0
      BY DEF ConfigInv, Counted
    <3>2. /\ Count(fromDongle, FrameOf("read")) \in Nat /\ Count(toDongle, RequestOf("read")) \in Nat
          /\ Count(fromDongle, FrameOf("read")) = 0 => "read" \notin Ops(fromDongle)
      BY <1>0, CountOfKind
    <3>3. Outstanding = Count(fromDongle, FrameOf("read")) + Count(toDongle, RequestOf("read"))
      BY DEF Outstanding, Awaited
    <3> QED BY <3>1, <3>2, <3>3
  <2>5. CASE f.op # "read"
    <3>1. UNCHANGED <<answer, current_config>>
      BY <2>2, <2>5
    <3>2. \A x : x \in Range(fromDongle') /\ x.op = "read" <=> x \in Range(fromDongle) /\ x.op = "read"
      BY <1>2, <2>2, <2>5
    <3>3. WillClear => WillClear'
      BY <1>1, <3>1, <3>2 DEF WillClear
    <3>4. AsRead => AsRead'
      BY <1>1, <3>1, <3>2 DEF AsRead
    <3> QED BY <2>1, <2>3, <3>3, <3>4 DEF ConfigInv, ReadsTrue
  <2>6. CASE f.op = "read"
    <3>1. answer = "pending"
      BY <1>2, <2>2, <2>3, <2>4, <2>6 DEF ConfigInv, TypeOK
    <3>2. /\ f.ok /\ f.field \in Fields
          /\ current_config' = [current_config EXCEPT ![f.field] = f.value]
      BY <2>2, <2>6, <3>1
    <3>3. /\ f \in Range(fromDongle)
          /\ \A x \in Range(fromDongle) : x = f \/ x \in Range(fromDongle')
      BY <1>2, <2>2
    <3>4. /\ current_config'[f.field] = f.value
          /\ \A g \in Fields \ {f.field} : current_config'[g] = current_config[g]
      BY <3>2, ConfigTypes DEF ConfigInv, TypeOK
    <3>5. CASE WillClear
      <4>1. f.field = "startup_option" => current_config'["startup_option"] = "clear"
        BY <2>6, <3>2, <3>3, <3>4, <3>5 DEF WillClear
      <4>2. \/ \E x \in Range(fromDongle') : x.op = "read" /\ x.ok /\ x.field = "startup_option"
            \/ current_config'["startup_option"] = "clear"
        BY <3>3, <3>4, <3>5, <4>1, ConfigTypes DEF WillClear
      <4> QED BY <1>1, <1>2, <3>5, <4>2 DEF WillClear
    <3>6. CASE AsRead
      <4>1. f.value = nv[f.field]
        BY <2>6, <3>2, <3>3, <3>6 DEF AsRead
      <4>2. ASSUME NEW g \in Fields
            PROVE  \/ [op |-> "read", field |-> g] \in Range(toDongle)
                   \/ \E x \in Range(fromDongle') : x.op = "read" /\ x.ok /\ x.field = g
                   \/ current_config'[g] = nv[g]
        BY <3>3, <3>4, <3>6, <4>1 DEF AsRead
      <4> QED BY <1>1, <1>2, <3>6, <4>2 DEF AsRead
    <3> QED BY <2>1, <2>3, <3>5, <3>6 DEF ConfigInv, ReadsTrue
  <2> QED BY <2>5, <2>6
<1>10. WritesTrue'
  <2> SUFFICES ASSUME pc = "write", answer' # "failed", ~Doomed'
               PROVE  \A g \in Fields : \/ Write(g, desired_config[g]) \in Range(toDongle)
                                        \/ nv[g] = desired_config[g]
    BY <1>1 DEF WritesTrue
  <2>1. ~Doomed
    BY DoomedFrame
  <2>2. answer = "failed" => answer' = "failed"
    BY FrameCounts
  <2> QED BY <2>1, <2>2 DEF ConfigInv, WritesTrue
<1> QED BY <1>5, <1>6, <1>7, <1>8, <1>9, <1>10 DEF ConfigInv

\* The dongle resets, as it was asked to.
LEMMA ConfigServesReset ==
  ASSUME ConfigInv, TypeOK', Awaits', UNCHANGED host, toDongle # <<>>, NEW r \in Requests,
         r = Head(toDongle), r.op = "reset", Forgets, toDongle' \in {<<>>, Tail(toDongle)}
  PROVE  ConfigInv'
<1>0. toDongle \in Seq(Requests) /\ fromDongle \in Seq(Frames) /\ ResetInd \in Frames
      /\ ResetInd.op = "resetind" /\ UNCHANGED <<pc, answer, awaiting, current_config>>
  BY FrameTypes DEF ConfigInv, TypeOK, ResetInd, host
<1>1. dev' = "HOLD" /\ fromDongle' = Append(fromDongle, ResetInd)
  BY DEF Forgets
<1>2. /\ Ops(fromDongle') = Ops(fromDongle) \cup {"resetind"} /\ "reset" \in Ops(toDongle)
      /\ Range(fromDongle') = Range(fromDongle) \cup {ResetInd} /\ toDongle' \in Seq(Requests)
      /\ Ops(toDongle') \subseteq Ops(toDongle)
  <2>1. /\ Ops(fromDongle') = Ops(fromDongle) \cup {"resetind"}
        /\ Range(fromDongle') = Range(fromDongle) \cup {ResetInd}
    BY <1>0, <1>1, OpsAppend
  <2>2. Tail(toDongle) \in Seq(Requests) /\ Ops(toDongle) = {"reset"} \cup Ops(Tail(toDongle))
    BY <1>0, OpsTail
  <2>3. CASE toDongle' = <<>>
    BY <2>1, <2>2, <2>3, OpsOfLists, EmptySeq
  <2>4. CASE toDongle' = Tail(toDongle)
    BY <2>1, <2>2, <2>4
  <2> QED BY <2>3, <2>4
<1>3. \A a, b : NoneAfter(toDongle, RequestOf(a), RequestOf(b)) =>
                /\ NoneAfter(toDongle', RequestOf(a), RequestOf(b))
                /\ a = "reset" => b \notin Ops(toDongle')
  <2>1. CASE toDongle' = <<>>
    BY <1>2, <2>1, RequestLine, OpsOfLists
  <2>2. CASE toDongle' = Tail(toDongle)
    BY <1>0, <2>2, RequestLine
  <2> QED BY <2>1, <2>2
<1>4. NoneAfter(toDongle, RequestOf("reset"), RequestOf("startup")) /\ "startup" \notin Ops(toDongle')
  BY <1>3 DEF ConfigInv, Guarded
<1>5. Leftovers'
  <2>1. Settled => Settled'
    <3>1. ResetInd \notin FrameOf("ieee")
      BY <1>0 DEF FrameOf
    <3>2. NoneAfter(fromDongle, FrameOf("resetind"), FrameOf("ieee")) =>
            NoneAfter(fromDongle', FrameOf("resetind"), FrameOf("ieee"))
      BY <1>0, <1>1, <3>1, FrameLine
    <3> QED BY <1>3, <3>2 DEF Settled
  <2>2. pc = "ieee" => NoneAfter(fromDongle', FrameOf("ieee"), Frames \ FrameOf("resetind"))
    <3>1. ResetInd \notin Frames \ FrameOf("resetind")
      BY <1>0 DEF FrameOf
    <3> QED BY <1>0, <1>1, <3>1, FrameLine DEF ConfigInv, Leftovers
  <2>3. pc = "ieee" => NoneAfter(toDongle', RequestOf("ieee"), Requests)
    <3>1. CASE toDongle' = <<>>
      BY <1>2, <3>1, OrderOfLists, OpsOfLists
    <3>2. CASE toDongle' = Tail(toDongle)
      BY <1>0, <3>2, NoneAfterTail DEF ConfigInv, Leftovers
    <3> QED BY <3>1, <3>2
  <2>4. pc = "ieee" => answer # "ok" /\ "ieee" \notin Ops(fromDongle)
    BY DEF ConfigInv, Leftovers
  <2> QED BY <1>0, <1>1, <1>2, <1>4, <2>1, <2>2, <2>3, <2>4 DEF ConfigInv, Leftovers
<1>6. /\ pc \notin {"read", "clear", "startup", "state", "permit", "register", "ready"}
      /\ pc = "reset2" => toDongle' = <<>>
      /\ pc = "write" => toDongle = <<Req("reset")>> \o Writes
  <2>1. pc = "reset2" => toDongle' = <<>>
    BY <1>0, SentKinds
  <2>2. pc = "write" => toDongle = <<Req("reset")>> \o Writes
    BY <1>2, SentKinds
  <2> QED BY <1>2, <2>1, <2>2, SentKinds DEF Awaited
<1>7. pc = "write" => toDongle' \in {<<>>, Writes}
  <2> DEFINE w == <<Req("reset")>>
  <2>1. w \in Seq(Requests) /\ w # <<>> /\ Tail(w) = <<>> /\ Writes \in Seq(Requests)
    BY RequestTypes, Batches
  <2>2. Tail(w \o Writes) = Writes
    <3>1. Len(w) = 1 /\ w \o Writes = w \o Writes /\ <<>> \o Writes = Writes
      BY <2>1, ConcatEmptySeq
    <3> HIDE DEF w
    <3>2. Tail(w \o Writes) = Tail(w) \o Writes
      BY <2>1, HeadTailProperties, ConcatProperties
    <3> QED BY <2>1, <3>1, <3>2
  <2> QED BY <1>6, <2>2
<1>8. /\ Outstanding \in Nat /\ Outstanding' \in Nat /\ awaiting \in Nat
      /\ pc = "write" => /\ Outstanding' <= Outstanding
                         /\ Outstanding' < Outstanding \/ toDongle' = Writes
  <2> DEFINE o == Awaited[pc]
  <2>1. awaiting \in Nat
    BY Batches DEF ConfigInv, TypeOK
  <2>2. /\ Count(fromDongle, FrameOf(o)) \in Nat /\ Count(fromDongle', FrameOf(o)) \in Nat
        /\ Count(toDongle, RequestOf(o)) \in Nat /\ Count(toDongle', RequestOf(o)) \in Nat
        /\ fromDongle' \in Seq(Frames)
    BY <1>0, <1>1, <1>2, CountOfKind, OpsAppend
  <2>3. o # "resetind" => Count(fromDongle', FrameOf(o)) = Count(fromDongle, FrameOf(o))
    BY <1>0, <1>1, <2>2, CountsOfKind
  <2>4. o # "reset" =>
          Count(toDongle, RequestOf(o)) = Count(Tail(toDongle), RequestOf(o))
    <3>1. Tail(toDongle) \in Seq(Requests)
      BY <1>0, OpsTail
    <3>2. Count(Tail(toDongle), RequestOf(o)) \in Nat
      BY <3>1, CountOfKind
    <3>3. o # "reset" => Count(toDongle, RequestOf(o)) = Count(Tail(toDongle), RequestOf(o)) + 0
      BY <1>0, CountsOfKind
    <3> QED BY <3>2, <3>3
  <2>5. toDongle' = <<>> => Count(toDongle', RequestOf(o)) = 0
    BY CountsOfKind
  <2>6. o \in Ops(toDongle) => Count(toDongle, RequestOf(o)) # 0
    BY <1>0, CountOfKind
  <2>7. pc = "write" => o = "write" /\ o \in Ops(toDongle)
    BY SentKinds DEF Awaited
  <2>8. /\ Outstanding = Count(fromDongle, FrameOf(o)) + Count(toDongle, RequestOf(o))
        /\ Outstanding' = Count(fromDongle', FrameOf(o)) + Count(toDongle', RequestOf(o))
    BY <1>0 DEF Outstanding
  <2> DEFINE a == Count(fromDongle, FrameOf(o))
             b == Count(fromDongle', FrameOf(o))
             c == Count(toDongle, RequestOf(o))
             d == Count(toDongle', RequestOf(o))
  <2>9. /\ a \in Nat /\ b \in Nat /\ c \in Nat /\ d \in Nat
        /\ Outstanding = a + c /\ Outstanding' = b + d
    BY <2>2, <2>8
  <2>10. pc = "write" => b = a /\ c # 0 /\ (d = 0 \/ (d = c /\ toDongle' = Writes))
    <3>1. CASE toDongle' = <<>>
      BY <2>3, <2>5, <2>6, <2>7, <3>1
    <3>2. CASE toDongle' = Tail(toDongle) /\ toDongle' # <<>>
      BY <1>7, <2>3, <2>4, <2>6, <2>7, <3>2
    <3> QED BY <3>1, <3>2
  <2> HIDE DEF a, b, c, d
  <2> QED BY <2>1, <2>9, <2>10
<1>9. Sent'
  <2>1. pc = "write" => Range(toDongle') \subseteq Range(Writes)
    BY <1>7, OpsOfLists
  <2> QED BY <1>0, <1>6, <2>1 DEF Sent
<1>10. Received'
  BY <1>0, <1>2 DEF ConfigInv, Received
<1>11. Counted'
  <2> SUFFICES ASSUME pc = "write"
               PROVE  /\ answer = "pending" => Outstanding' <= awaiting
                      /\ answer = "ok" => Outstanding' = 0
    BY <1>0, <1>6 DEF Counted
  <2>1. /\ answer = "pending" => Outstanding <= awaiting
        /\ answer = "ok" => Outstanding = 0
    BY DEF ConfigInv, Counted
  <2>2. \A a, b, c \in Nat : /\ b <= a /\ a <= c => b <= c
                             /\ b <= a /\ a = 0 => b = 0
    OBVIOUS
  <2> QED BY <1>8, <2>1, <2>2
<1>12. WritesTrue'
  <2> SUFFICES ASSUME pc = "write", answer # "failed", ~Doomed', toDongle' # Writes
               PROVE  FALSE
    <3>1. toDongle' = Writes => \A g \in Fields : Write(g, desired_config[g]) \in Range(toDongle')
      BY Batches
    <3> QED BY <1>0, <3>1 DEF WritesTrue
  <2>1. Outstanding' < Outstanding
    BY <1>8
  <2>2. \A a, b, c \in Nat : b < a => a # 0 /\ (a <= c => b < c)
    OBVIOUS
  <2>3. answer = "pending" /\ Outstanding <= awaiting
    BY <1>8, <2>1, <2>2 DEF ConfigInv, Counted, TypeOK
  <2>4. Outstanding' < awaiting
    BY <1>8, <2>1, <2>2, <2>3
  <2> QED BY <1>0, <2>3, <2>4 DEF Doomed
<1>13. Still' /\ ReadsTrue' /\ Guarded'
  BY <1>0, <1>1, <1>3, <1>4, <1>6 DEF ConfigInv, Still, ReadsTrue, Guarded
<1> QED BY <1>5, <1>9, <1>10, <1>11, <1>12, <1>13 DEF ConfigInv

\* The dongle starts its network, and says so twice.
LEMMA ConfigServesStartup ==
  ASSUME ConfigInv, TypeOK', Awaits', UNCHANGED host, toDongle # <<>>, NEW r \in Requests,
         r = Head(toDongle), r.op = "startup", Starts, toDongle' = Tail(toDongle)
  PROVE  ConfigInv'
<1> DEFINE e == [op |-> "startup", ok |-> TRUE]
           c == [op |-> "stateind", ok |-> TRUE, value |-> "COORD_STARTING"]
           F == Append(fromDongle, e)
<1>0. toDongle \in Seq(Requests) /\ fromDongle \in Seq(Frames)
      /\ UNCHANGED <<pc, answer, awaiting, current_config>>
  BY DEF ConfigInv, TypeOK, host
<1>1. /\ e \in Frames /\ c \in Frames /\ e.op = "startup" /\ c.op = "stateind"
  BY FrameTypes DEF DeviceStates
<1>2. dev' # "HOLD" /\ nv' = nv /\ fromDongle' = Append(F, c)
  BY DEF Starts
<1> HIDE DEF e, c
<1>3. F \in Seq(Frames) /\ Ops(F) = Ops(fromDongle) \cup {"startup"}
  BY <1>0, <1>1, OpsAppend
<1>4. \A a : \A B : /\ NoneAfter(fromDongle, FrameOf(a), B)
                    /\ a \notin Ops(fromDongle) \cup {"startup"} \/ (e \notin B /\ c \notin B)
                    => NoneAfter(fromDongle', FrameOf(a), B)
  <2>1. \A a : \A B : /\ NoneAfter(fromDongle, FrameOf(a), B)
                      /\ a \notin Ops(fromDongle) \/ e \notin B
                      => NoneAfter(F, FrameOf(a), B)
    BY <1>0, <1>1, FrameLine
  <2> HIDE DEF F
  <2>2. \A a : \A B : /\ NoneAfter(F, FrameOf(a), B)
                      /\ a \notin Ops(F) \/ c \notin B
                      => NoneAfter(fromDongle', FrameOf(a), B)
    BY <1>1, <1>2, <1>3, FrameLine
  <2> QED BY <1>3, <2>1, <2>2
<1>5. \A o : o # "stateind" => Count(fromDongle', FrameOf(o)) =
               Count(fromDongle, FrameOf(o)) + (IF "startup" = o THEN 1 ELSE 0)
  <2>1. \A o : Count(F, FrameOf(o)) = Count(fromDongle, FrameOf(o)) + (IF "startup" = o THEN 1 ELSE 0)
    BY <1>0, <1>1, CountsOfKind
  <2> HIDE DEF F
  <2>2. \A o : o # "stateind" => Count(fromDongle', FrameOf(o)) = Count(F, FrameOf(o)) + 0
    BY <1>1, <1>2, <1>3, CountsOfKind
  <2>3. \A o : Count(F, FrameOf(o)) \in Nat
    BY <1>3, CountOfKind
  <2> QED BY <2>1, <2>2, <2>3
<1>6. Ops(fromDongle') = Ops(fromDongle) \cup {"startup", "stateind"}
  <2> HIDE DEF F
  <2>1. Ops(fromDongle') = Ops(F) \cup {"stateind"}
    BY <1>1, <1>2, <1>3, OpsAppend
  <2> QED BY <1>3, <2>1
<1> HIDE DEF F
<1>7. /\ Ops(toDongle) = {"startup"} \cup Ops(toDongle') /\ toDongle' \in Seq(Requests)
      /\ \A a, b : NoneAfter(toDongle, RequestOf(a), RequestOf(b)) =>
                   NoneAfter(toDongle', RequestOf(a), RequestOf(b))
  BY <1>0, OpsTail, RequestLine
<1>8. pc \notin {"read", "clear", "reset2", "write", "state", "permit", "register", "ready"}
  <2>1. Req("reset") \in Requests /\ Req("reset").op = "reset"
    BY RequestTypes
  <2>2. pc = "reset2" => Ops(toDongle) = {"reset"}
    BY <2>1, SentKinds, OpsOfLists
  <2>3. pc = "write" => Ops(toDongle) \subseteq {"reset", "write"}
    BY SentKinds
  <2>4. pc \in {"read", "clear", "permit", "register"} => Ops(toDongle) \in {{"read"}, {"write"},
                                                              {"permit"}, {"register"}}
    BY SentKinds DEF Awaited
  <2>5. pc \notin {"state", "ready"}
    BY SentKinds
  <2> QED BY <1>7, <2>2, <2>3, <2>4, <2>5
<1>9. pc = "ieee" => answer # "ok" /\ "ieee" \notin Ops(fromDongle)
  BY DEF ConfigInv, Leftovers
<1>10. Leftovers'
  <2>1. Settled => Settled'
    <3>1. e \notin FrameOf("ieee") /\ c \notin FrameOf("ieee")
      BY <1>1 DEF FrameOf
    <3>2. NoneAfter(fromDongle, FrameOf("resetind"), FrameOf("ieee")) =>
            NoneAfter(fromDongle', FrameOf("resetind"), FrameOf("ieee"))
      BY <1>4, <3>1
    <3> QED BY <1>6, <1>7, <3>2 DEF Settled
  <2>2. pc = "ieee" => NoneAfter(fromDongle', FrameOf("ieee"), Frames \ FrameOf("resetind"))
    BY <1>4, <1>9 DEF ConfigInv, Leftovers
  <2>3. pc = "ieee" => NoneAfter(toDongle', RequestOf("ieee"), Requests)
    BY <1>0, NoneAfterTail DEF ConfigInv, Leftovers
  <2> QED BY <1>0, <1>6, <1>7, <1>9, <2>1, <2>2, <2>3 DEF ConfigInv, Leftovers
<1>11. Sent'
  <2>1. pc = "startup" => toDongle' = <<>>
    <3>1. Req("state").op = "state"
      BY RequestTypes
    <3> QED BY <1>7, <3>1 DEF ConfigInv, Sent
  <2> QED BY <1>0, <1>8, <2>1 DEF Sent
<1>12. Received'
  BY <1>0, <1>6, <1>8 DEF ConfigInv, Received, Awaited
<1>13. Counted'
  <2> SUFFICES ASSUME pc = "startup"
               PROVE  Outstanding' = Outstanding
    BY <1>0, <1>8 DEF ConfigInv, Counted
  <2>1. /\ Outstanding = Count(fromDongle, FrameOf("startup")) + Count(toDongle, RequestOf("startup"))
        /\ Outstanding' = Count(fromDongle', FrameOf("startup")) + Count(toDongle', RequestOf("startup"))
    BY <1>0 DEF Outstanding, Awaited
  <2>2. /\ Count(fromDongle', FrameOf("startup")) = Count(fromDongle, FrameOf("startup")) + 1
        /\ Count(toDongle, RequestOf("startup")) = Count(toDongle', RequestOf("startup")) + 1
        /\ Count(fromDongle, FrameOf("startup")) \in Nat /\ Count(toDongle', RequestOf("startup")) \in Nat
    BY <1>0, <1>5, <1>7, CountsOfKind, CountOfKind
  <2> QED BY <2>1, <2>2
<1>14. Guarded'
  BY <1>2, <1>7 DEF ConfigInv, Guarded, Configured
<1>15. Still' /\ ReadsTrue' /\ WritesTrue'
  BY <1>0, <1>8 DEF Still, ReadsTrue, WritesTrue
<1> QED BY <1>10, <1>11, <1>12, <1>13, <1>14, <1>15 DEF ConfigInv

\* The dongle answers another request, or fails it.
LEMMA ConfigAnswers ==
  ASSUME ConfigInv, TypeOK', Awaits', UNCHANGED host, toDongle # <<>>, NEW r \in Requests,
         r = Head(toDongle), r.op # "reset", NEW f \in Frames, f.op = r.op, Answers(r, f),
         toDongle' = Tail(toDongle), fromDongle' = Append(fromDongle, f)
  PROVE  ConfigInv'
<1>0. toDongle \in Seq(Requests) /\ fromDongle \in Seq(Frames)
      /\ UNCHANGED <<pc, answer, awaiting, current_config>>
  BY DEF ConfigInv, TypeOK, host
<1>1. dev' = dev /\ ((r.op = "write" /\ f.ok) \/ nv' = nv)
  BY DEF Answers, dongle
<1>2. r.op \notin {"resetind", "reset", "stateind"}
  BY RequestShape
<1>3. /\ Ops(toDongle) = {r.op} \cup Ops(toDongle') /\ toDongle' \in Seq(Requests)
      /\ Range(toDongle) = {r} \cup Range(toDongle')
      /\ Ops(fromDongle') = Ops(fromDongle) \cup {r.op} /\ fromDongle' \in Seq(Frames)
      /\ Range(fromDongle') = Range(fromDongle) \cup {f}
  BY <1>0, OpsTail, OpsAppend
<1>4. \A a, b : NoneAfter(toDongle, RequestOf(a), RequestOf(b)) =>
                NoneAfter(toDongle', RequestOf(a), RequestOf(b))
  BY <1>0, RequestLine
<1>5. pc = "ieee" => answer # "ok" /\ "ieee" \notin Ops(fromDongle)
  BY DEF ConfigInv, Leftovers
<1>6. Leftovers'
  <2>1. Settled => Settled'
    <3>1. r.op = "ieee" /\ Settled => "resetind" \notin Ops(fromDongle)
      BY <1>3 DEF Settled
    <3>2. r.op # "ieee" => f \notin FrameOf("ieee")
      BY DEF FrameOf
    <3>3. Settled => NoneAfter(fromDongle', FrameOf("resetind"), FrameOf("ieee"))
      BY <1>0, <3>1, <3>2, FrameLine DEF Settled
    <3> QED BY <1>2, <1>3, <1>4, <3>3 DEF Settled
  <2>2. pc = "ieee" => NoneAfter(fromDongle', FrameOf("ieee"), Frames \ FrameOf("resetind"))
    BY <1>0, <1>5, FrameLine DEF ConfigInv, Leftovers
  <2>3. pc = "ieee" => /\ NoneAfter(toDongle', RequestOf("ieee"), Requests)
                       /\ r.op = "ieee" => toDongle' = <<>>
    <3>1. pc = "ieee" => /\ NoneAfter(toDongle', RequestOf("ieee"), Requests)
                         /\ r \in RequestOf("ieee") => Range(toDongle') \cap Requests = {}
      BY <1>0, NoneAfterTail DEF ConfigInv, Leftovers
    <3>2. Range(toDongle') \cap Requests = {} => Ops(toDongle') = {}
      <4>1. Range(toDongle') \subseteq Requests
        BY <1>3, RangeElement
      <4> QED BY <4>1 DEF Ops
    <3> QED BY <1>3, <3>1, <3>2, NothingLeft DEF RequestOf
  <2>4. pc = "reset" /\ answer = "ok" => r.op # "ieee"
    BY <1>3 DEF ConfigInv, Leftovers
  <2> QED BY <1>0, <1>1, <1>2, <1>3, <1>5, <2>1, <2>2, <2>3, <2>4 DEF ConfigInv, Leftovers
<1>7. /\ pc \in {"read", "clear", "write", "permit", "register"} => r.op = Awaited[pc]
      /\ pc = "startup" => r.op \in {"state", "startup"}
      /\ pc \notin {"reset2", "state", "ready"}
      /\ pc = "write" => Range(toDongle) \subseteq Range(Writes)
  <2>1. pc \in {"read", "clear", "permit", "register"} => r.op = Awaited[pc]
    BY <1>3, SentKinds
  <2>2. pc # "reset2"
    <3>1. Req("reset") \in Requests /\ Req("reset").op = "reset"
      BY RequestTypes
    <3>2. pc = "reset2" => Ops(toDongle) = {"reset"}
      BY <3>1, SentKinds, OpsOfLists
    <3> QED BY <1>3, <3>2
  <2>3. pc = "write" => r.op = "write" /\ Range(toDongle) \subseteq Range(Writes)
    <3>1. toDongle # <<Req("reset")>> \o Writes
      <4> DEFINE w == <<Req("reset")>>
      <4>1. w \in Seq(Requests) /\ Len(w) = 1 /\ w[1] = Req("reset") /\ w[1].op = "reset"
            /\ Writes \in Seq(Requests) /\ Len(Writes) \in Nat
        BY RequestTypes, Batches
      <4> HIDE DEF w
      <4>2. (w \o Writes)[1] = w[1]
        BY <4>1, ConcatProperties
      <4>3. r = toDongle[1]
        BY <1>0, HeadTail
      <4> QED BY <4>1, <4>2, <4>3 DEF w
    <3>2. pc = "write" => Ops(toDongle) \subseteq {"reset", "write"}
      BY SentKinds
    <3> QED BY <1>3, <3>1, <3>2, SentKinds
  <2>4. pc = "startup" => r.op \in {"state", "startup"}
    BY <1>3, SentKinds
  <2>5. pc \notin {"state", "ready"}
    BY SentKinds
  <2> QED BY <2>1, <2>2, <2>3, <2>4, <2>5 DEF Awaited
<1>8. /\ Outstanding' = Outstanding /\ Outstanding \in Nat
      /\ r.op = Awaited[pc] => Outstanding # 0
  <2> DEFINE o == Awaited[pc]
             a == Count(fromDongle, FrameOf(o))
             b == Count(fromDongle', FrameOf(o))
             c == Count(toDongle, RequestOf(o))
             d == Count(toDongle', RequestOf(o))
  <2>1. /\ a \in Nat /\ b \in Nat /\ c \in Nat /\ d \in Nat
    BY <1>0, <1>3, CountOfKind
  <2>2. Outstanding = a + c /\ Outstanding' = b + d
    BY <1>0 DEF Outstanding
  <2>3. b = a + (IF r.op = o THEN 1 ELSE 0)
    BY <1>0, CountsOfKind
  <2>4. c = d + (IF r.op = o THEN 1 ELSE 0)
    BY <1>0, CountsOfKind
  <2> HIDE DEF o, a, b, c, d
  <2>5. CASE r.op = o
    BY <2>1, <2>2, <2>3, <2>4, <2>5 DEF o
  <2>6. CASE r.op # o
    BY <2>1, <2>2, <2>3, <2>4, <2>6 DEF o
  <2> QED BY <2>5, <2>6
<1>9. Sent'
  <2>0. \A x, y \in Requests : Tail(<<x>>) = <<>> /\ Tail(<<x, y>>) = <<y>>
    OBVIOUS
  <2>1. pc = "clear" \/ pc = "permit" \/ pc = "register" => toDongle' = <<>>
    <3>1. /\ Write("startup_option", "clear") \in Requests
          /\ Req("permit") \in Requests /\ Req("register") \in Requests
      BY RequestTypes, ConfigTypes
    <3>2. pc = "clear" => toDongle' = <<>>
      BY <2>0, <3>1 DEF ConfigInv, Sent
    <3>3. pc = "permit" \/ pc = "register" => toDongle' = <<>>
      BY <2>0, <3>1 DEF ConfigInv, Sent
    <3> QED BY <3>2, <3>3
  <2>2. pc = "startup" => toDongle' \in {<<>>, <<Req("startup")>>}
    BY <2>0, RequestTypes DEF ConfigInv, Sent
  <2> QED BY <1>0, <1>3, <1>7, <2>1, <2>2 DEF ConfigInv, Sent
<1>10. Received'
  <2>1. r.op \in {Awaited[pc], "state"} \/ pc \in {"start", "reset", "ieee", "exited"}
    BY <1>7 DEF ConfigInv, TypeOK, Awaited
  <2> QED BY <1>0, <1>3, <1>7, <2>1 DEF ConfigInv, Received
<1>11. Counted' /\ Still'
  BY <1>0, <1>1, <1>8 DEF ConfigInv, Counted, Still
<1>12. ASSUME pc \in {"read", "write"}
       PROVE  /\ answer # "ok"
              /\ answer # "failed" /\ (Doomed \/ ~f.ok) => Doomed'
  <2>1. answer # "ok"
    BY <1>7, <1>8, <1>12 DEF ConfigInv, Counted
  <2>2. r.op = Awaited[pc]
    BY <1>7, <1>12
  <2>3. answer # "failed" /\ ~f.ok => Doomed'
    BY <1>0, <1>3, <2>1, <2>2 DEF ConfigInv, TypeOK, Doomed
  <2>4. Doomed => Doomed'
    BY <1>0, <1>3, <1>8 DEF Doomed
  <2> QED BY <2>1, <2>3, <2>4
<1>13. ReadsTrue'
  <2> SUFFICES ASSUME pc = "read", answer # "failed", ~Doomed'
               PROVE  AsRead'
    BY <1>0 DEF ReadsTrue
  <2>1. AsRead
    BY <1>12 DEF ConfigInv, ReadsTrue, WillClear
  <2>2. r.op = "read" /\ f.ok /\ nv' = nv
    BY <1>1, <1>7, <1>12 DEF Awaited
  <2>3. /\ f.field = r.field /\ f.value = nv[r.field]
        /\ r = [op |-> "read", field |-> r.field]
    BY <2>2, RequestShape DEF Answers
  <2>4. \A x \in Range(fromDongle') : x.op = "read" /\ x.ok => x.value = nv[x.field]
    BY <1>3, <2>1, <2>3 DEF AsRead
  <2>5. ASSUME NEW g \in Fields
        PROVE  \/ [op |-> "read", field |-> g] \in Range(toDongle')
               \/ \E x \in Range(fromDongle') : x.op = "read" /\ x.ok /\ x.field = g
               \/ current_config[g] = nv[g]
    <3>1. CASE [op |-> "read", field |-> g] = r
      <4>1. r.field = g
        BY <3>1
      <4>2. f \in Range(fromDongle') /\ f.op = "read" /\ f.ok /\ f.field = g
        BY <1>3, <2>2, <2>3, <4>1
      <4> QED BY <4>2
    <3>2. CASE [op |-> "read", field |-> g] # r
      BY <1>3, <2>1, <3>2 DEF AsRead
    <3> QED BY <3>1, <3>2
  <2> QED BY <1>0, <2>2, <2>4, <2>5 DEF AsRead
<1>14. WritesTrue'
  <2> SUFFICES ASSUME pc = "write", answer # "failed", ~Doomed'
               PROVE  \A g \in Fields : \/ Write(g, desired_config[g]) \in Range(toDongle')
                                        \/ nv'[g] = desired_config[g]
    BY <1>0 DEF WritesTrue
  <2>1. \A g \in Fields : \/ Write(g, desired_config[g]) \in Range(toDongle)
                          \/ nv[g] = desired_config[g]
    BY <1>12 DEF ConfigInv, WritesTrue
  <2>2. r.op = "write" /\ f.ok
    BY <1>7, <1>12 DEF Awaited
  <2>3. nv' = [nv EXCEPT ![r.field] = r.value]
    BY <2>2 DEF Answers
  <2>4. PICK h \in Fields : r = Write(h, desired_config[h])
    <3>1. r \in Range(Writes)
      BY <1>3, <1>7
    <3>2. Range(Writes) = {Write(h, desired_config[h]) : h \in Fields}
      BY Batches
    <3> QED BY <3>1, <3>2
  <2>5. r.field = h /\ r.value = desired_config[h]
    BY <2>4 DEF Write
  <2>6. nv'[h] = desired_config[h] /\ \A g \in Fields \ {h} : nv'[g] = nv[g]
    BY <2>3, <2>5, ConfigTypes DEF ConfigInv, TypeOK
  <2>7. ASSUME NEW g \in Fields, g # h
        PROVE  Write(g, desired_config[g]) # r
    BY <2>5, <2>7 DEF Write
  <2> QED BY <1>3, <2>1, <2>6, <2>7
<1>15. Guarded'
  <2>1. dev # "HOLD" \/ "startup" \in Ops(toDongle') => nv' = nv
    BY <1>1, <1>3 DEF ConfigInv, Guarded
  <2> QED BY <1>1, <1>3, <1>4, <2>1 DEF ConfigInv, Guarded, Configured
<1> QED BY <1>6, <1>9, <1>10, <1>11, <1>13, <1>14, <1>15 DEF ConfigInv

\* The dongle handles a request.
LEMMA ConfigServe ==
  ASSUME ConfigInv, TypeOK', Awaits', DongleServe
  PROVE  ConfigInv'
<1>1. TypeOK
  BY DEF ConfigInv
<1> QED BY <1>1, ServeCases, ConfigServesReset, ConfigServesStartup, ConfigAnswers

\* When its answers have come, what was sent for them is read, and nothing more of
\* the kind is on its way.
LEMMA AllAnswered ==
  ASSUME ConfigInv, answer = "ok"
  PROVE  /\ pc \in {"read", "clear", "write", "startup", "permit", "register"} =>
              toDongle = <<>> /\ Awaited[pc] \notin Ops(fromDongle)
         /\ pc \in {"read", "clear", "write"} => Ops(fromDongle) \subseteq {"resetind"}
         /\ pc \in {"startup", "state", "permit", "register"} =>
              Ops(fromDongle) \subseteq {"resetind", "state", "stateind"}
<1>0. toDongle \in Seq(Requests) /\ fromDongle \in Seq(Frames)
  BY DEF ConfigInv, TypeOK
<1>1. ASSUME pc \in {"read", "clear", "write", "startup", "permit", "register"}
      PROVE  Awaited[pc] \notin Ops(toDongle) /\ Awaited[pc] \notin Ops(fromDongle)
  <2>1. Outstanding = 0
    BY <1>1 DEF ConfigInv, Counted
  <2>2. /\ Count(fromDongle, FrameOf(Awaited[pc])) \in Nat
        /\ Count(toDongle, RequestOf(Awaited[pc])) \in Nat
        /\ Count(fromDongle, FrameOf(Awaited[pc])) = 0 => Awaited[pc] \notin Ops(fromDongle)
        /\ Count(toDongle, RequestOf(Awaited[pc])) = 0 => Awaited[pc] \notin Ops(toDongle)
    BY <1>0, CountOfKind
  <2>3. Count(fromDongle, FrameOf(Awaited[pc])) + Count(toDongle, RequestOf(Awaited[pc])) = 0
    BY <2>1 DEF Outstanding
  <2> QED BY <2>2, <2>3
<1>2. pc \in {"read", "clear", "write", "startup", "permit", "register"} => toDongle = <<>>
  <2>1. CASE pc \in {"read", "clear", "permit", "register"}
    BY <1>1, <2>1, SentKinds
  <2>2. CASE pc \in {"write", "startup"}
    BY <1>1, <2>2, SentKinds DEF Awaited
  <2> QED BY <2>1, <2>2
<1>3. pc \in {"read", "clear", "write"} => Ops(fromDongle) \subseteq {"resetind"}
  BY <1>1 DEF ConfigInv, Received
<1>4. pc \in {"startup", "state", "permit", "register"} =>
        Ops(fromDongle) \subseteq {"resetind", "state", "stateind"}
  <2>1. CASE pc \in {"startup", "permit", "register"}
    BY <1>1, <2>1 DEF ConfigInv, Received
  <2>2. CASE pc = "state"
    <3>1. "none" \notin Ops(fromDongle)
      <4>1. Range(fromDongle) \subseteq Frames
        BY <1>0, RangeElement
      <4> QED BY <4>1, FrameShape DEF Ops
    <3> QED BY <2>2, <3>1 DEF ConfigInv, Received, Awaited
  <2> QED BY <2>1, <2>2
<1> QED BY <1>1, <1>2, <1>3, <1>4

\* The network is started only when the options are as desired.
LEMMA ConfigStarts ==
  ASSUME ConfigInv, TypeOK', Awaits', answer = "ok", pc \in {"read", "write"}, StartZdo,
         pc = "read" => Matches(current_config, desired_config),
         UNCHANGED <<current_config, fromDongle, nv, dev>>
  PROVE  ConfigInv'
<1>0. toDongle \in Seq(Requests) /\ fromDongle \in Seq(Frames)
  BY DEF ConfigInv, TypeOK
<1>1. toDongle = <<>> /\ Ops(fromDongle) \subseteq {"resetind"}
  BY AllAnswered
<1> DEFINE w == <<Req("state"), Req("startup")>>
<1>2. /\ w \in Seq(Requests) /\ Ops(w) = {"state", "startup"} /\ <<>> \o w = w
      /\ Count(w, RequestOf("startup")) = 1
  <2> DEFINE v == <<Req("state")>>
  <2>1. /\ v \in Seq(Requests) /\ Ops(v) = {"state"} /\ Count(v, RequestOf("startup")) = 0
        /\ Req("startup") \in Requests /\ Req("startup").op = "startup"
    BY RequestTypes, OpsOfLists, CountsOfKind
  <2>2. w = Append(v, Req("startup")) /\ w \in Seq(Requests) /\ <<>> \o w = w
    BY RequestTypes
  <2>3. Req("startup") \in RequestOf("startup")
    BY <2>1 DEF RequestOf
  <2> HIDE DEF v, w
  <2>4. Ops(Append(v, Req("startup"))) = Ops(v) \cup {"startup"}
    BY <2>1, OpsAppend
  <2>5. Count(Append(v, Req("startup")), RequestOf("startup")) = 0 + 1
    BY <2>1, <2>3, CountAppend
  <2> QED BY <2>1, <2>2, <2>4, <2>5
<1>3. toDongle' = w /\ pc' = "startup" /\ answer' = "pending" /\ awaiting' = 1
  BY <1>1, <1>2 DEF StartZdo
<1>4. Configured
  <2>1. CASE pc = "read"
    <3>1. \A f \in Range(fromDongle) : f.op # "read"
      BY <1>1 DEF Ops
    <3>2. \A f \in Fields \ {"pan_id"} : current_config[f] = desired_config[f]
      BY <2>1 DEF Matches
    <3>3. ~WillClear
      <4>1. current_config["startup_option"] = "none"
        BY <3>2, ConfigTypes DEF desired_config
      <4> QED BY <3>1, <4>1 DEF WillClear
    <3>4. AsRead
      BY <2>1, <3>3 DEF ConfigInv, ReadsTrue, Doomed
    <3>5. \A g \in Fields : current_config[g] = nv[g]
      BY <1>1, <3>1, <3>4, OpsOfLists DEF AsRead
    <3> QED BY <3>2, <3>5 DEF Configured
  <2>2. CASE pc = "write"
    BY <1>1, <2>2, OpsOfLists DEF ConfigInv, WritesTrue, Doomed, Configured
  <2> QED BY <2>1, <2>2
<1> HIDE DEF w
<1>5. Sent'
  BY <1>3 DEF Sent, w
<1>6. Received'
  BY <1>1, <1>3 DEF Received
<1>7. Counted'
  <2>1. Count(fromDongle, FrameOf("startup")) = 0
    BY <1>0, <1>1, CountOfKind
  <2>2. Outstanding' = Count(fromDongle, FrameOf("startup")) + Count(w, RequestOf("startup"))
    BY <1>3 DEF Outstanding, Awaited
  <2>3. Outstanding' <= awaiting'
    BY <1>2, <1>3, <2>1, <2>2
  <2> QED BY <1>3, <2>3 DEF Counted
<1>8. Guarded'
  <2>1. NoneAfter(w, RequestOf("reset"), RequestOf("startup"))
    BY <1>2, RequestLine
  <2> QED BY <1>2, <1>3, <1>4, <2>1 DEF Guarded, Configured
<1>9. Leftovers' /\ Still' /\ ReadsTrue' /\ WritesTrue'
  BY <1>3 DEF Leftovers, Still, ReadsTrue, WritesTrue
<1> QED BY <1>5, <1>6, <1>7, <1>8, <1>9 DEF ConfigInv

\* The reset that begins a start, and the request for the IEEE address behind it.
LEMMA ConfigResets ==
  ASSUME ConfigInv, TypeOK', Awaits', answer = "ok", UNCHANGED <<current_config, fromDongle, nv, dev>>,
         \/ pc = "start" /\ Await("reset", <<Req("reset")>>)
         \/ pc = "reset" /\ Await("ieee", <<Req("ieee")>>)
  PROVE  ConfigInv'
<1>0. toDongle \in Seq(Requests) /\ fromDongle \in Seq(Frames)
  BY DEF ConfigInv, TypeOK
<1>1. PICK o \in {"reset", "ieee"} :
        /\ o = "reset" => pc = "start" /\ pc' = "reset"
        /\ o = "ieee" => pc = "reset" /\ pc' = "ieee"
        /\ toDongle' = toDongle \o <<Req(o)>> /\ answer' = "pending"
  BY DEF Await
<1> DEFINE w == <<Req(o)>>
<1>2. w \in Seq(Requests) /\ Ops(w) = {o} /\ Range(w) = {Req(o)} /\ Req(o) \in Requests /\ Req(o).op = o
  BY RequestTypes, OpsOfLists
<1>3. toDongle' = toDongle \o w
  BY <1>1
<1> HIDE DEF w
<1>4. Ops(toDongle') = Ops(toDongle) \cup {o}
  BY <1>0, <1>2, <1>3, OpsConcat
<1>5. \A a, b : NoneAfter(toDongle, RequestOf(a), RequestOf(b)) /\ b # o =>
                NoneAfter(toDongle', RequestOf(a), RequestOf(b))
  BY <1>0, <1>2, <1>3, RequestLine
<1>6. Leftovers'
  <2>1. CASE o = "reset"
    <3>1. Settled'
      BY <1>1, <1>4, <1>5, <2>1 DEF ConfigInv, Leftovers, Settled
    <3> QED BY <1>1, <1>4, <2>1, <3>1 DEF Leftovers
  <2>2. CASE o = "ieee"
    <3>1. "ieee" \notin Ops(fromDongle) /\ "ieee" \notin Ops(toDongle)
      BY <1>1, <2>2 DEF ConfigInv, Leftovers
    <3>2. NoneAfter(fromDongle', FrameOf("ieee"), Frames \ FrameOf("resetind"))
      BY <1>0, <3>1, FrameLine
    <3>3. NoneAfter(toDongle', RequestOf("ieee"), Requests)
      <4>1. toDongle' = Append(toDongle, Req("ieee"))
        BY <1>0, <1>1, <1>2, <2>2
      <4>2. Range(toDongle) \cap RequestOf("ieee") = {}
        BY <1>0, <3>1, RequestLine
      <4>3. NoneAfter(toDongle, RequestOf("ieee"), Requests)
        BY <1>0, <4>2, OrderOfLists
      <4> QED BY <1>0, <1>2, <2>2, <4>1, <4>2, <4>3, OrderOfLists
    <3> QED BY <1>1, <1>4, <2>2, <3>1, <3>2, <3>3 DEF ConfigInv, Leftovers
  <2> QED BY <2>1, <2>2
<1>7. Guarded'
  BY <1>4, <1>5 DEF ConfigInv, Guarded, Configured
<1>8. Sent' /\ Received' /\ Counted' /\ Still' /\ ReadsTrue' /\ WritesTrue'
  BY <1>1 DEF Sent, Received, Counted, Still, ReadsTrue, WritesTrue
<1> QED BY <1>6, <1>7, <1>8 DEF ConfigInv

\* The network is up, or is not to be waited for any more.
LEMMA ConfigGoesOn ==
  ASSUME ConfigInv, TypeOK', Awaits', answer = "ok",
         UNCHANGED <<toDongle, current_config, fromDongle, nv, dev>>,
         \/ pc = "startup" /\ pc' = "state"
         \/ pc = "register" /\ pc' = "ready"
  PROVE  ConfigInv'
<1>1. toDongle = <<>> /\ Ops(fromDongle) \subseteq {"resetind", "state", "stateind"}
  BY AllAnswered
<1>2. Guarded'
  BY DEF ConfigInv, Guarded, Configured
<1>3. Leftovers' /\ Sent' /\ Received' /\ Counted' /\ Still' /\ ReadsTrue' /\ WritesTrue'
  BY <1>1 DEF Leftovers, Sent, Received, Counted, Still, ReadsTrue, WritesTrue
<1> QED BY <1>2, <1>3 DEF ConfigInv

\* One request is sent on an empty line.
LEMMA ConfigAsks ==
  ASSUME ConfigInv, TypeOK', Awaits', answer = "ok", UNCHANGED <<current_config, fromDongle, nv, dev>>,
         NEW q \in Requests,
         \/ /\ pc = "read" /\ Await("clear", <<q>>)
            /\ q = Write("startup_option", "clear") /\ q.op = "write"
         \/ pc = "clear" /\ Await("reset2", <<q>>) /\ q = Req("reset") /\ q.op = "reset"
         \/ pc = "state" /\ Await("permit", <<q>>) /\ q = Req("permit") /\ q.op = "permit"
         \/ pc = "permit" /\ Await("register", <<q>>) /\ q = Req("register") /\ q.op = "register"
  PROVE  ConfigInv'
<1> DEFINE w == <<q>>
<1>0. toDongle \in Seq(Requests) /\ fromDongle \in Seq(Frames)
  BY DEF ConfigInv, TypeOK
<1>1. toDongle = <<>>
  BY AllAnswered, SentKinds
<1>2. w \in Seq(Requests) /\ Ops(w) = {q.op} /\ Len(w) = 1 /\ <<>> \o w = w
  BY OpsOfLists
<1>3. /\ toDongle' = w /\ answer' = "pending" /\ awaiting' = 1
      /\ pc' \in {"clear", "reset2", "permit", "register"}
  BY <1>1, <1>2 DEF Await
<1>4. \A o : Count(w, RequestOf(o)) = IF q.op = o THEN 1 ELSE 0
  BY CountsOfKind
<1>5. \/ pc = "read" /\ pc' = "clear" /\ q.op = "write" /\ w = <<Write("startup_option", "clear")>>
      \/ pc = "clear" /\ pc' = "reset2" /\ q.op = "reset" /\ w = <<Req("reset")>>
      \/ pc = "state" /\ pc' = "permit" /\ q.op = "permit" /\ w = <<Req("permit")>>
      \/ pc = "permit" /\ pc' = "register" /\ q.op = "register" /\ w = <<Req("register")>>
  BY DEF Await
<1> HIDE DEF w
<1>6. Sent'
  BY <1>3, <1>5 DEF Sent
<1>7. /\ pc \in {"read", "clear"} => Ops(fromDongle) \subseteq {"resetind"}
      /\ pc \in {"state", "permit"} => Ops(fromDongle) \subseteq {"resetind", "state", "stateind"}
  BY AllAnswered
<1>8. Received'
  BY <1>5, <1>7 DEF Received
<1>9. Counted'
  <2> SUFFICES ASSUME pc' # "reset2"
               PROVE  Outstanding' <= awaiting'
    BY <1>3 DEF Counted
  <2>1. q.op = Awaited[pc'] /\ q.op \notin Ops(fromDongle)
    BY <1>5, <1>7 DEF Awaited
  <2>2. Count(fromDongle, FrameOf(q.op)) = 0 /\ Count(w, RequestOf(q.op)) = 1
    BY <1>0, <1>4, <2>1, CountOfKind
  <2>3. Outstanding' = Count(fromDongle, FrameOf(q.op)) + Count(w, RequestOf(q.op))
    BY <1>3, <2>1 DEF Outstanding
  <2> QED BY <1>3, <2>2, <2>3
<1>10. Guarded'
  <2>1. NoneAfter(w, RequestOf("reset"), RequestOf("startup"))
    BY <1>2, <1>5, RequestLine
  <2>2. q.op = "write" => dev = "HOLD"
    BY <1>5 DEF ConfigInv, Still
  <2> QED BY <1>1, <1>2, <1>3, <1>5, <2>1, <2>2 DEF ConfigInv, Guarded, Configured
<1>11. Still'
  BY <1>5 DEF ConfigInv, Still
<1>12. Leftovers' /\ ReadsTrue' /\ WritesTrue'
  BY <1>5 DEF Leftovers, ReadsTrue, WritesTrue
<1> QED BY <1>6, <1>8, <1>9, <1>10, <1>11, <1>12 DEF ConfigInv

\* The options are all asked for at once, when nothing else is on the line.
LEMMA ConfigReads ==
  ASSUME ConfigInv, TypeOK', Awaits', answer = "ok", UNCHANGED <<current_config, fromDongle, nv, dev>>,
         pc = "ieee", Await("read", Reads)
  PROVE  ConfigInv'
<1>0. toDongle \in Seq(Requests) /\ fromDongle \in Seq(Frames)
  BY DEF ConfigInv, TypeOK
<1>1. toDongle = <<>> /\ Ops(fromDongle) \subseteq {"resetind"} /\ dev = "HOLD"
  BY OpsOfLists DEF ConfigInv, Leftovers
<1>2. /\ Reads \in Seq(Requests) /\ Len(Reads) = Len(FieldOrder) /\ Len(Reads) \in Nat
      /\ Range(Reads) = {[op |-> "read", field |-> f] : f \in Fields}
  BY Batches
<1>3. Ops(Reads) \subseteq {"read"}
  BY <1>2 DEF Ops
<1>4. toDongle' = Reads /\ answer' = "pending" /\ awaiting' = Len(Reads) /\ pc' = "read"
  <2>1. <<>> \o Reads = Reads
    BY <1>2, ConcatEmptySeq
  <2> QED BY <1>1, <2>1 DEF Await
<1>5. Counted'
  <2>1. Count(fromDongle, FrameOf("read")) = 0
    BY <1>0, <1>1, CountOfKind
  <2>2. Count(Reads, RequestOf("read")) = Len(Reads)
    <3>1. \A r \in Range(Reads) : r \in RequestOf("read")
      <4>1. Range(Reads) \subseteq Requests
        BY <1>2, RangeElement
      <4> QED BY <1>2, <4>1 DEF RequestOf
    <3>2. Reads \in Seq(RequestOf("read"))
      <4>1. \A i \in 1 .. Len(Reads) : Reads[i] \in RequestOf("read")
        BY <1>2, <3>1, RangeElement
      <4>2. Reads \in [1 .. Len(Reads) -> RequestOf("read")]
        BY <1>2, <4>1, LenProperties
      <4> QED BY <1>2, <4>2, SeqDef
    <3> QED BY <3>2, CountAll
  <2>3. Outstanding' = Count(fromDongle, FrameOf("read")) + Count(Reads, RequestOf("read"))
    BY <1>4 DEF Outstanding, Awaited
  <2>4. Outstanding' <= awaiting'
    BY <1>2, <1>4, <2>1, <2>2, <2>3
  <2> QED BY <1>4, <2>4 DEF Counted
<1>6. ReadsTrue'
  <2>1. \A f \in Range(fromDongle) : f.op # "read"
    BY <1>1 DEF Ops
  <2>2. AsRead'
    BY <1>2, <1>4, <2>1 DEF AsRead
  <2> QED BY <2>2 DEF ReadsTrue
<1>7. Guarded'
  <2>1. NoneAfter(Reads, RequestOf("reset"), RequestOf("startup"))
    BY <1>2, <1>3, RequestLine
  <2> QED BY <1>1, <1>3, <1>4, <2>1 DEF Guarded
<1>8. Sent' /\ Received' /\ Still' /\ Leftovers' /\ WritesTrue'
  BY <1>1, <1>3, <1>4 DEF Sent, Received, Still, Leftovers, WritesTrue
<1> QED BY <1>5, <1>6, <1>7, <1>8 DEF ConfigInv

\* The options are all written at once, behind the reset if it is still to be read.
LEMMA ConfigWrites ==
  ASSUME ConfigInv, TypeOK', Awaits', answer = "ok", UNCHANGED <<current_config, fromDongle, nv, dev>>,
         pc = "reset2", Await("write", Writes)
  PROVE  ConfigInv'
<1> DEFINE w == <<Req("reset")>>
<1>0. toDongle \in Seq(Requests) /\ fromDongle \in Seq(Frames)
  BY DEF ConfigInv, TypeOK
<1>1. /\ toDongle \in {<<>>, w} /\ Ops(fromDongle) \subseteq {"resetind"} /\ dev = "HOLD"
      /\ w \in Seq(Requests) /\ Ops(w) = {"reset"}
  BY RequestTypes, OpsOfLists DEF ConfigInv, Sent, Received, Still, Awaited
<1>2. /\ Writes \in Seq(Requests) /\ Len(Writes) = Len(FieldOrder) /\ Len(Writes) \in Nat
      /\ Range(Writes) = {Write(f, desired_config[f]) : f \in Fields}
  BY Batches
<1>3. /\ \A r \in Range(Writes) : r.op = "write"
      /\ Ops(Writes) \subseteq {"write"}
  BY <1>2 DEF Ops, Write
<1>4. toDongle' = toDongle \o Writes /\ answer' = "pending" /\ awaiting' = Len(Writes) /\ pc' = "write"
  BY DEF Await
<1>5. toDongle' \in {Writes, w \o Writes}
  <2>1. <<>> \o Writes = Writes
    BY <1>2, ConcatEmptySeq
  <2> QED BY <1>1, <1>4, <2>1
<1>6. /\ Range(toDongle') = Range(toDongle) \cup Range(Writes)
      /\ Ops(toDongle') \subseteq {"reset", "write"}
  <2>1. /\ Range(toDongle') = Range(toDongle) \cup Range(Writes)
        /\ Ops(toDongle') = Ops(toDongle) \cup Ops(Writes)
    BY <1>0, <1>2, <1>4, OpsConcat
  <2>2. Ops(toDongle) \subseteq {"reset"}
    BY <1>1, OpsOfLists
  <2> QED BY <1>3, <2>1, <2>2
<1>7. Counted'
  <2>1. Count(fromDongle, FrameOf("write")) = 0 /\ Count(toDongle, RequestOf("write")) = 0
    <3>1. "write" \notin Ops(fromDongle) /\ "write" \notin Ops(toDongle)
      BY <1>1, OpsOfLists
    <3> QED BY <1>0, <3>1, CountOfKind
  <2>2. Count(Writes, RequestOf("write")) = Len(Writes)
    <3>1. \A r \in Range(Writes) : r \in RequestOf("write")
      <4>1. Range(Writes) \subseteq Requests
        BY <1>2, RangeElement
      <4> QED BY <1>3, <4>1 DEF RequestOf
    <3>2. Writes \in Seq(RequestOf("write"))
      <4>1. \A i \in 1 .. Len(Writes) : Writes[i] \in RequestOf("write")
        BY <1>2, <3>1, RangeElement
      <4>2. Writes \in [1 .. Len(Writes) -> RequestOf("write")]
        BY <1>2, <4>1, LenProperties
      <4> QED BY <1>2, <4>2, SeqDef
    <3> QED BY <3>2, CountAll
  <2>3. Outstanding' = Count(fromDongle, FrameOf("write")) + Count(toDongle', RequestOf("write"))
    BY <1>4 DEF Outstanding, Awaited
  <2>4. Count(toDongle', RequestOf("write")) = 0 + Len(Writes)
    BY <1>0, <1>2, <1>4, <2>1, <2>2, CountConcat
  <2>5. Outstanding' <= awaiting'
    BY <1>2, <1>4, <2>1, <2>3, <2>4
  <2> QED BY <1>4, <2>5 DEF Counted
<1>8. WritesTrue'
  BY <1>2, <1>6 DEF WritesTrue
<1>9. Guarded'
  <2>1. toDongle' \in Seq(Requests)
    BY <1>0, <1>2, <1>4, OpsConcat
  <2>2. NoneAfter(toDongle', RequestOf("reset"), RequestOf("startup"))
    BY <1>6, <2>1, RequestLine
  <2> QED BY <1>1, <1>6, <2>2 DEF Guarded
<1>10. Sent'
  BY <1>4, <1>5 DEF Sent
<1>11. Received' /\ Still' /\ Leftovers' /\ ReadsTrue'
  BY <1>1, <1>4 DEF Received, Still, Leftovers, ReadsTrue
<1> QED BY <1>7, <1>8, <1>9, <1>10, <1>11 DEF ConfigInv

\* The coroutine goes on.
LEMMA ConfigResume ==
  ASSUME ConfigInv, TypeOK', Awaits', Resume
  PROVE  ConfigInv'
<1>1. answer = "ok" /\ UNCHANGED <<current_config, fromDongle, nv, dev>>
  BY DEF Resume, dongle
<1>2. CASE \/ pc = "startup" /\ pc' = "state" /\ UNCHANGED toDongle
           \/ pc = "register" /\ pc' = "ready" /\ UNCHANGED toDongle
  <2>1. UNCHANGED <<toDongle, current_config, fromDongle, nv, dev>>
    BY <1>1, <1>2
  <2>2. \/ pc = "startup" /\ pc' = "state"
        \/ pc = "register" /\ pc' = "ready"
    BY <1>2
  <2> QED BY <1>1, <2>1, <2>2, ConfigGoesOn
<1>3. CASE pc \in {"read", "write"} /\ StartZdo
           /\ (pc = "read" => Matches(current_config, desired_config))
  BY <1>1, <1>3, ConfigStarts
<1>4. CASE \/ pc = "start" /\ Await("reset", <<Req("reset")>>)
           \/ pc = "reset" /\ Await("ieee", <<Req("ieee")>>)
  BY <1>1, <1>4, ConfigResets
<1>5. CASE pc = "ieee" /\ Await("read", Reads)
  BY <1>1, <1>5, ConfigReads
<1>6. CASE pc = "reset2" /\ Await("write", Writes)
  BY <1>1, <1>6, ConfigWrites
<1>7. CASE \/ pc = "read" /\ Await("clear", <<Write("startup_option", "clear")>>)
           \/ pc = "clear" /\ Await("reset2", <<Req("reset")>>)
           \/ pc = "state" /\ Await("permit", <<Req("permit")>>)
           \/ pc = "permit" /\ Await("register", <<Req("register")>>)
  <2>1. /\ \A o \in {"reset", "permit", "register"} : Req(o) \in Requests /\ Req(o).op = o
        /\ Write("startup_option", "clear") \in Requests
        /\ Write("startup_option", "clear").op = "write"
    BY RequestTypes, ConfigTypes DEF Write
  <2> QED BY <1>1, <1>7, <2>1, ConfigAsks
<1> QED BY <1>2, <1>3, <1>4, <1>5, <1>6, <1>7, ResumeCases

\* Every step keeps ConfigInv, if the program is started again on a settled line.
LEMMA ConfigStep ==
  ConfigInv /\ [Next]_vars /\ [Restart => Settled]_vars => ConfigInv'
<1> SUFFICES ASSUME ConfigInv, [Next]_vars, [Restart => Settled]_vars
             PROVE  ConfigInv'
  OBVIOUS
<1>1. TypeOK' /\ Awaits'
  BY TypeStep DEF ConfigInv
<1>2. CASE Restart
  <2>1. crashes' # crashes
    BY <1>2, BoundsAssumption DEF Restart, ConfigInv, TypeOK
  <2>2. Settled
    BY <1>2, <2>1 DEF vars, bounds
  <2> QED BY <1>1, <1>2, <2>2, ConfigRestart
<1>3. CASE UNCHANGED vars
  <2>1. UNCHANGED <<pc, answer, awaiting, current_config, toDongle, fromDongle, nv, dev>>
    BY <1>3 DEF vars, host, dongle
  <2>2. UNCHANGED Outstanding
    BY <2>1 DEF Outstanding
  <2>3. UNCHANGED <<Leftovers, Sent, Received, Counted, Still, ReadsTrue, WritesTrue, Guarded>>
    BY <2>1, <2>2 DEF Leftovers, Settled, Sent, Received, Counted, Still, ReadsTrue, WritesTrue,
                      Guarded, Configured, Doomed, WillClear, AsRead
  <2> QED BY <1>1, <2>3 DEF ConfigInv
<1> QED BY <1>1, <1>2, <1>3, ConfigResume, ConfigExit, ConfigFrame, ConfigServe, ConfigForms,
           ConfigReboots DEF Next

\* ConfigInv holds when the program is started for the first time.
LEMMA ConfigInit == Init => ConfigInv
<1> SUFFICES ASSUME Init
             PROVE  ConfigInv
  OBVIOUS
<1>1. TypeOK /\ Awaits
  BY InitTypes
<1>2. /\ pc = "start" /\ answer = "ok" /\ dev = "HOLD"
      /\ toDongle = <<>> /\ toDongle \in Seq(Requests) /\ Ops(toDongle) = {}
      /\ fromDongle = <<>> /\ fromDongle \in Seq(Frames) /\ Ops(fromDongle) = {}
  BY <1>1, OpsOfLists DEF Init, TypeOK
<1>3. Settled
  <2>1. NoneAfter(toDongle, RequestOf("reset"), RequestOf("ieee"))
    BY <1>2, RequestLine
  <2>2. NoneAfter(fromDongle, FrameOf("resetind"), FrameOf("ieee"))
    BY <1>2, FrameLine
  <2> QED BY <1>2, <2>1, <2>2 DEF Settled
<1>4. Guarded
  <2>1. NoneAfter(toDongle, RequestOf("reset"), RequestOf("startup"))
    BY <1>2, RequestLine
  <2> QED BY <1>2, <2>1 DEF Guarded
<1>5. Leftovers /\ Sent /\ Received /\ Counted /\ Still /\ ReadsTrue /\ WritesTrue
  BY <1>2, <1>3 DEF Leftovers, Sent, Received, Counted, Still, ReadsTrue, WritesTrue
<1> QED BY <1>1, <1>4, <1>5 DEF ConfigInv

\* The dongle never runs a network with an option other than the one desired
\* (StartsConfigured), whatever is killed, refused or reset between two writes, if no
\* start finds a RESET_IND with an IEEE address behind it on the line.
THEOREM RunsConfigured == Spec /\ [][Restart => Settled]_vars => []StartsConfigured
<1>1. ConfigInv => StartsConfigured
  BY DEF ConfigInv, Guarded, Configured, StartsConfigured, Running
<1> QED BY <1>1, ConfigInit, ConfigStep, PTL DEF Spec

-----------------------------------------------------------------------------
(* What holds as long as the dongle does not reset on its own.              *)

\* A step that leaves the start, or follows a reset of the dongle, has nothing to show.
LEMMA UpElsewhere ==
  ASSUME ConfigInv, Exit \/ Restart \/ DongleReboots
  PROVE  (Undisturbed /\ Informed)'
<1>1. CASE Exit \/ Restart
  <2>1. pc' \in {"exited", "start"}
    BY <1>1 DEF Exit, Restart
  <2> QED BY <2>1 DEF Undisturbed, Informed
<1>2. CASE DongleReboots
  <2>1. boots' # 0
    BY <1>2, BoundsAssumption DEF DongleReboots, ConfigInv, TypeOK
  <2> QED BY <2>1 DEF Undisturbed, Informed
<1> QED BY <1>1, <1>2

\* A frame is read: what it says holds.
LEMMA UpFrame ==
  ASSUME ConfigInv, Undisturbed, Informed, OnFrame
  PROVE  (Undisturbed /\ Informed)'
<1>0. /\ fromDongle \in Seq(Frames) /\ fromDongle # <<>> /\ fromDongle' = Tail(fromDongle)
      /\ fromDongle' \in Seq(Frames)
      /\ UNCHANGED <<pc, toDongle, nv, dev, registered, permit, boots>>
  BY FrameCases DEF ConfigInv, TypeOK, dongle, bounds
<1>1. PICK f \in Frames : f = Head(fromDongle) /\ (Answered(f) \/ StateFrame(f) \/ Unhandled(f))
  BY FrameCases DEF ConfigInv
<1>2. /\ Range(fromDongle) = {f} \cup Range(fromDongle')
      /\ Ops(fromDongle) = {f.op} \cup Ops(fromDongle')
  BY <1>0, <1>1, OpsTail
<1>3. \A a : \A B : NoneAfter(fromDongle, FrameOf(a), B) =>
                    /\ NoneAfter(fromDongle', FrameOf(a), B)
                    /\ f.op = a => Range(fromDongle') \cap B = {}
  BY <1>0, <1>1, FrameLine
<1>4. ASSUME pc # "state"
      PROVE  \/ UNCHANGED <<answer, awaiting>>
             \/ /\ answer = "pending" /\ f.op = Awaited[pc]
                /\ answer' = IF ~f.ok THEN "failed" ELSE IF awaiting = 1 THEN "ok" ELSE "pending"
  BY <1>1, <1>4, FrameCounts
<1>5. Undisturbed'
  <2> SUFFICES ASSUME boots = 0
               PROVE  Undisturbed'
    BY <1>0 DEF Undisturbed
  <2>1. ASSUME pc = "ieee", answer' = "ok"
        PROVE  fromDongle' = <<>>
    <3>1. answer # "ok"
      BY <1>0, <2>1 DEF Undisturbed
    <3>2. f.op = "ieee"
      BY <1>4, <2>1, <3>1 DEF Awaited
    <3>3. Range(fromDongle') \cap Frames = {}
      BY <1>3, <2>1, <3>2 DEF Undisturbed
    <3>4. Ops(fromDongle') = {}
      <4>1. Range(fromDongle') \subseteq Frames
        BY <1>0, RangeElement
      <4> QED BY <3>3, <4>1 DEF Ops
    <3> QED BY <1>0, <3>4, NothingLeft
  <2>2. ASSUME pc = "reset2"
        PROVE  answer' # "pending" /\ toDongle = <<>> /\ fromDongle' = <<>>
    <3>1. answer = "pending" /\ awaiting = 1 /\ toDongle = <<>> /\ Len(fromDongle) = 1
      BY <1>0, <2>2 DEF Undisturbed
    <3>2. f.op = "resetind"
      BY <1>2, <2>2 DEF ConfigInv, Received, Awaited
    <3>3. answer' # "pending"
      <4>1. Awaited[pc] = f.op /\ pc # "state"
        BY <2>2, <3>2 DEF Awaited
      <4>2. ~StateFrame(f) /\ ~Unhandled(f)
        BY <3>1, <3>2, <4>1 DEF StateFrame, Unhandled
      <4> QED BY <1>1, <3>1, <4>2 DEF Answered
    <3>4. fromDongle' = <<>>
      <4>1. Len(fromDongle') = 1 - 1
        BY <1>0, <3>1, HeadTail
      <4> QED BY <1>0, <4>1, EmptySeq
    <3> QED BY <3>1, <3>3, <3>4
  <2> QED BY <1>0, <1>2, <1>3, <2>1, <2>2 DEF Undisturbed
<1>6. Informed'
  <2> SUFFICES ASSUME boots = 0, pc \in {"startup", "state", "permit", "register", "ready"}
               PROVE  Informed'
    BY <1>0 DEF Informed
  <2>1. Informed!2
    BY DEF Informed
  <2>2. f \in Range(fromDongle) /\ \A x \in Range(fromDongle') : x \in Range(fromDongle)
    BY <1>2
  <2>3. future_state' = "done" => dev = "ZB_COORD"
    <3>1. CASE future_state = "done"
      BY <2>1, <3>1
    <3>2. CASE future_state # "done" /\ future_state' = "done"
      <4>1. StateFrame(f)
        BY <1>1, <3>2 DEF Answered, Unhandled
      <4>2. f.op \in {"state", "stateind"} /\ f.ok /\ f.value = "ZB_COORD"
        BY <3>2, <4>1, FrameShape DEF StateFrame, OnStateChange, WaitForState
      <4> QED BY <2>1, <2>2, <4>2
    <3> QED BY <3>1, <3>2
  <2>4. pc = "state" /\ answer' = "ok" => future_state' = "done"
    <3>1. pc = "state" => ~Answered(f)
      BY FrameShape DEF Answered, Awaited
    <3>2. CASE StateFrame(f)
      BY <3>2 DEF StateFrame, StateAnswer
    <3>3. CASE Unhandled(f)
      BY <2>1, <3>3 DEF Unhandled
    <3> QED BY <1>1, <3>1, <3>2, <3>3
  <2>5. pc \in {"permit", "register"} /\ answer' = "ok" =>
          answer = "ok" \/ (f.op = Awaited[pc] /\ f.ok)
    BY <1>4
  <2>6. pc = "permit" /\ answer' = "ok" => ~permit
    BY <2>1, <2>2, <2>5 DEF Awaited
  <2>7. pc = "register" /\ answer' = "ok" => registered
    BY <2>1, <2>2, <2>5 DEF Awaited
  <2> QED BY <1>0, <2>1, <2>2, <2>3, <2>4, <2>6, <2>7 DEF Informed
<1> QED BY <1>5, <1>6

\* The network is formed, or not: nobody was told before that it is up.
LEMMA UpForms ==
  ASSUME ConfigInv, Undisturbed, Informed, DongleForms
  PROVE  (Undisturbed /\ Informed)'
<1>0. /\ toDongle \in Seq(Requests) /\ fromDongle \in Seq(Frames) /\ dev = "COORD_STARTING"
      /\ UNCHANGED <<pc, answer, awaiting, future_state, toDongle, registered, permit, boots>>
  BY DEF ConfigInv, TypeOK, DongleForms, host
<1>1. PICK f \in Frames : /\ f.op = "stateind" /\ f.value = dev'
                          /\ fromDongle' = Append(fromDongle, f)
  <2>1. PICK s \in {"ZB_COORD", "NWK_ORPHAN"} : /\ dev' = s
          /\ fromDongle' = Append(fromDongle, [op |-> "stateind", ok |-> TRUE, value |-> s])
    BY DEF DongleForms, Put
  <2> QED BY <2>1, FrameTypes DEF DeviceStates
<1>2. /\ Ops(fromDongle') = Ops(fromDongle) \cup {"stateind"}
      /\ Range(fromDongle') = Range(fromDongle) \cup {f}
  BY <1>0, <1>1, OpsAppend
<1>3. /\ pc # "reset2"
      /\ pc = "ieee" => answer # "ok" /\ "ieee" \notin Ops(fromDongle)
  <2>1. pc = "ieee" => "reset" \in Ops(toDongle)
    BY <1>0 DEF ConfigInv, Leftovers
  <2>2. pc = "ieee" => toDongle # <<>>
    BY <2>1, OpsOfLists
  <2> QED BY <1>0, <2>2 DEF ConfigInv, Leftovers, Still
<1>4. pc = "ieee" => NoneAfter(fromDongle', FrameOf("ieee"), Frames)
  <2>1. pc = "ieee" => NoneAfter(fromDongle, FrameOf("ieee"), Frames)
    BY <1>0, <1>3, FrameLine
  <2> QED BY <1>0, <1>1, <1>3, <2>1, FrameLine
<1>5. Undisturbed'
  BY <1>0, <1>2, <1>3, <1>4 DEF Undisturbed
<1>6. Informed'
  BY <1>0, <1>1, <1>2 DEF Informed
<1> QED BY <1>5, <1>6

\* A reset that this start asked for is read while it awaits the RESET_IND.
LEMMA UpServesReset ==
  ASSUME ConfigInv, Undisturbed, Informed, UNCHANGED <<host, boots>>, toDongle # <<>>,
         NEW r \in Requests, r = Head(toDongle), r.op = "reset", Forgets,
         toDongle' \in {<<>>, Tail(toDongle)}
  PROVE  (Undisturbed /\ Informed)'
<1>0. /\ toDongle \in Seq(Requests) /\ fromDongle \in Seq(Frames) /\ ResetInd \in Frames
      /\ fromDongle' = Append(fromDongle, ResetInd)
      /\ UNCHANGED <<pc, answer, awaiting, boots>>
  BY FrameTypes DEF ConfigInv, TypeOK, ResetInd, host, Forgets
<1>1. "reset" \in Ops(toDongle)
  BY <1>0, OpsTail
<1> SUFFICES ASSUME boots = 0
             PROVE  (Undisturbed /\ Informed)'
  BY <1>0 DEF Undisturbed, Informed
<1>2. pc \in {"start", "reset", "ieee", "reset2", "exited"}
  BY <1>1 DEF ConfigInv, TypeOK, Awaited, Undisturbed
<1>3. pc = "ieee" => answer # "ok" /\ NoneAfter(fromDongle', FrameOf("ieee"), Frames)
  <2>1. pc = "ieee" => answer # "ok" /\ "ieee" \notin Ops(fromDongle)
    BY DEF ConfigInv, Leftovers
  <2>2. pc = "ieee" => NoneAfter(fromDongle, FrameOf("ieee"), Frames)
    BY <1>0, <2>1, FrameLine
  <2> QED BY <1>0, <2>1, <2>2, FrameLine
<1>4. pc = "reset2" => /\ answer = "pending" /\ awaiting = 1
                       /\ toDongle' = <<>> /\ Len(fromDongle') = 1
  <2>1. ASSUME pc = "reset2"
        PROVE  answer = "pending" /\ awaiting = 1 /\ toDongle = <<Req("reset")>> /\ fromDongle = <<>>
    BY <2>1 DEF Undisturbed
  <2>2. \A q \in Requests : Tail(<<q>>) = <<>>
    OBVIOUS
  <2>3. fromDongle = <<>> => Len(fromDongle') = 1
    <3>1. Len(fromDongle') = Len(fromDongle) + 1
      BY <1>0, AppendProperties
    <3> QED BY <3>1, EmptySeq
  <2> QED BY <2>1, <2>2, <2>3, RequestTypes
<1> QED BY <1>0, <1>2, <1>3, <1>4 DEF Undisturbed, Informed

\* The network is started while nobody believes it to be up.
LEMMA UpServesStartup ==
  ASSUME ConfigInv, Undisturbed, Informed, UNCHANGED <<host, boots>>, toDongle # <<>>,
         NEW r \in Requests, r = Head(toDongle), r.op = "startup", Starts,
         toDongle' = Tail(toDongle)
  PROVE  (Undisturbed /\ Informed)'
<1> DEFINE e == [op |-> "startup", ok |-> TRUE]
           c == [op |-> "stateind", ok |-> TRUE, value |-> "COORD_STARTING"]
           F == Append(fromDongle, e)
<1>0. /\ toDongle \in Seq(Requests) /\ fromDongle \in Seq(Frames)
      /\ UNCHANGED <<pc, answer, awaiting, future_state, boots, registered, permit>>
  BY DEF ConfigInv, TypeOK, host, Starts
<1>1. /\ e \in Frames /\ c \in Frames /\ e.op = "startup" /\ c.op = "stateind"
      /\ c.value = "COORD_STARTING"
  BY FrameTypes DEF DeviceStates
<1>2. fromDongle' = Append(F, c)
  BY DEF Starts
<1> HIDE DEF e, c
<1>3. /\ F \in Seq(Frames) /\ Ops(F) = Ops(fromDongle) \cup {"startup"}
      /\ Range(F) = Range(fromDongle) \cup {e}
  BY <1>0, <1>1, OpsAppend
<1> HIDE DEF F
<1>4. /\ Ops(fromDongle') = Ops(fromDongle) \cup {"startup", "stateind"}
      /\ Range(fromDongle') = Range(fromDongle) \cup {e, c}
  BY <1>1, <1>2, <1>3, OpsAppend
<1>5. Ops(toDongle) = {"startup"} \cup Ops(toDongle')
  BY <1>0, OpsTail
<1>6. pc \notin {"read", "clear", "reset2", "write", "state", "permit", "register", "ready"}
  <2>1. Req("reset") \in Requests /\ Req("reset").op = "reset"
    BY RequestTypes
  <2>2. pc = "reset2" => Ops(toDongle) = {"reset"}
    BY <2>1, SentKinds, OpsOfLists
  <2>3. pc = "write" => Ops(toDongle) \subseteq {"reset", "write"}
    BY SentKinds
  <2>4. pc \in {"read", "clear", "permit", "register"} => Ops(toDongle) \in {{"read"}, {"write"},
                                                              {"permit"}, {"register"}}
    BY SentKinds DEF Awaited
  <2>5. pc \notin {"state", "ready"}
    BY SentKinds
  <2> QED BY <1>5, <2>2, <2>3, <2>4, <2>5
<1>7. pc = "ieee" => answer # "ok" /\ NoneAfter(fromDongle', FrameOf("ieee"), Frames)
  <2>1. pc = "ieee" => answer # "ok" /\ "ieee" \notin Ops(fromDongle)
    BY DEF ConfigInv, Leftovers
  <2>2. pc = "ieee" => "ieee" \notin Ops(fromDongle')
    BY <1>4, <2>1
  <2>3. fromDongle' \in Seq(Frames)
    BY <1>1, <1>2, <1>3, OpsAppend
  <2> QED BY <2>1, <2>2, <2>3, FrameLine
<1>8. Undisturbed'
  BY <1>0, <1>4, <1>5, <1>6, <1>7 DEF Undisturbed
<1>9. Informed'
  <2> SUFFICES ASSUME boots = 0, pc = "startup"
               PROVE  Informed'
    BY <1>0, <1>6 DEF Informed
  <2>1. dev = "HOLD" /\ future_state # "done"
    BY DEF Informed
  <2>2. toDongle' = <<>>
    <3>1. \A x, y \in Requests : Tail(<<x>>) = <<>> /\ Head(<<x, y>>) = x
      OBVIOUS
    <3> QED BY <3>1, RequestTypes DEF ConfigInv, Sent
  <2>3. ASSUME NEW x \in Range(fromDongle'), x.op \in {"state", "stateind"}, x.ok, x.value = "ZB_COORD"
        PROVE  FALSE
    <3>1. x \in Range(fromDongle)
      BY <1>1, <1>4, <2>3
    <3> QED BY <2>1, <2>3, <3>1 DEF Informed
  <2> QED BY <1>0, <2>1, <2>2, <2>3 DEF Informed
<1> QED BY <1>8, <1>9

\* What is answered is so.
LEMMA UpAnswers ==
  ASSUME ConfigInv, Undisturbed, Informed, UNCHANGED <<host, boots>>, toDongle # <<>>,
         NEW r \in Requests, r = Head(toDongle), r.op # "reset", NEW f \in Frames, f.op = r.op,
         Answers(r, f), toDongle' = Tail(toDongle), fromDongle' = Append(fromDongle, f)
  PROVE  (Undisturbed /\ Informed)'
<1>0. /\ toDongle \in Seq(Requests) /\ fromDongle \in Seq(Frames)
      /\ UNCHANGED <<pc, answer, awaiting, future_state, boots, dev>>
  BY DEF ConfigInv, TypeOK, host, Answers, dongle
<1>1. /\ Ops(toDongle) = {r.op} \cup Ops(toDongle')
      /\ Ops(fromDongle') = Ops(fromDongle) \cup {r.op}
      /\ Range(fromDongle') = Range(fromDongle) \cup {f}
  BY <1>0, OpsTail, OpsAppend
<1>2. r.op # "resetind"
  BY RequestShape
<1>3. pc = "ieee" => answer # "ok" /\ NoneAfter(fromDongle', FrameOf("ieee"), Frames)
  <2>1. pc = "ieee" => answer # "ok" /\ "ieee" \notin Ops(fromDongle)
    BY DEF ConfigInv, Leftovers
  <2>2. pc = "ieee" => NoneAfter(fromDongle, FrameOf("ieee"), Frames)
    BY <1>0, <2>1, FrameLine
  <2> QED BY <1>0, <2>1, <2>2, FrameLine
<1>4. /\ pc \in {"permit", "register"} => r.op = Awaited[pc]
      /\ pc \notin {"reset2", "state", "ready"}
      /\ pc = "startup" => r.op \in {"state", "startup"}
  <2>1. pc # "reset2"
    <3>1. Req("reset") \in Requests /\ Req("reset").op = "reset"
      BY RequestTypes
    <3>2. pc = "reset2" => Ops(toDongle) = {"reset"}
      BY <3>1, SentKinds, OpsOfLists
    <3> QED BY <1>1, <3>2
  <2>2. pc \in {"permit", "register"} => r.op = Awaited[pc]
    BY <1>1, SentKinds
  <2>3. pc = "startup" => r.op \in {"state", "startup"}
    BY <1>1, SentKinds
  <2>4. pc \notin {"state", "ready"}
    BY SentKinds
  <2> QED BY <2>1, <2>2, <2>3, <2>4
<1>5. Undisturbed'
  BY <1>0, <1>1, <1>2, <1>3, <1>4 DEF Undisturbed
<1>6. Informed'
  <2> SUFFICES ASSUME boots = 0, pc \in {"startup", "permit", "register"}
               PROVE  Informed'
    BY <1>0, <1>4 DEF Informed
  <2>1. Informed!2
    BY DEF Informed
  <2>2. ASSUME NEW x \in Range(fromDongle'), x.op \in {"state", "stateind"}, x.ok, x.value = "ZB_COORD"
        PROVE  dev = "ZB_COORD"
    <3>1. CASE x \in Range(fromDongle)
      BY <2>1, <2>2, <3>1
    <3>2. CASE x = f
      <4>1. r.op = "state"
        BY <2>2, <3>2, RequestShape
      <4> QED BY <2>2, <3>2, <4>1 DEF Answers
    <3> QED BY <1>1, <3>1, <3>2
  <2>3. CASE pc = "startup"
    <3>1. dev = "HOLD" /\ future_state # "done"
      BY <2>1, <2>3
    <3> QED BY <1>0, <2>2, <2>3, <3>1 DEF Informed
  <2>4. CASE pc = "permit"
    <3>1. r.op = "permit"
      BY <1>4, <2>4 DEF Awaited
    <3>2. (f.ok => ~permit') /\ (permit' => permit)
      BY <3>1 DEF Answers, dongle
    <3>3. ASSUME NEW x \in Range(fromDongle'), x.op = "permit", x.ok
          PROVE  ~permit'
      BY <1>1, <2>1, <2>4, <3>2, <3>3
    <3> QED BY <1>0, <2>1, <2>2, <2>4, <3>2, <3>3 DEF Informed
  <2>5. CASE pc = "register"
    <3>1. r.op = "register"
      BY <1>4, <2>5 DEF Awaited
    <3>2. (f.ok => registered') /\ (registered => registered') /\ permit' = permit
      BY <3>1 DEF Answers, dongle
    <3>3. ASSUME NEW x \in Range(fromDongle'), x.op = "register", x.ok
          PROVE  registered'
      BY <1>1, <2>1, <2>5, <3>2, <3>3
    <3> QED BY <1>0, <2>1, <2>2, <2>5, <3>2, <3>3 DEF Informed
  <2> QED BY <2>3, <2>4, <2>5
<1> QED BY <1>5, <1>6

\* The dongle handles a request.
LEMMA UpServe ==
  ASSUME ConfigInv, Undisturbed, Informed, DongleServe
  PROVE  (Undisturbed /\ Informed)'
<1>1. TypeOK
  BY DEF ConfigInv
<1>2. UNCHANGED <<host, boots>>
  BY <1>1, ServeCases
<1> QED BY <1>1, <1>2, ServeCases, UpServesReset, UpServesStartup, UpAnswers

\* The coroutine goes on: what it sends is no reset but for the two it waits out.
LEMMA UpResume ==
  ASSUME ConfigInv, Undisturbed, Informed, Resume
  PROVE  (Undisturbed /\ Informed)'
<1>0. /\ toDongle \in Seq(Requests) /\ fromDongle \in Seq(Frames) /\ answer = "ok"
      /\ UNCHANGED <<fromDongle, dev, registered, permit, boots>>
  BY DEF ConfigInv, TypeOK, Resume, dongle, bounds
<1> SUFFICES ASSUME boots = 0
             PROVE  (Undisturbed /\ Informed)'
  BY <1>0 DEF Undisturbed, Informed
<1>1. /\ pc \in {"read", "clear", "write", "startup", "permit", "register"} => toDongle = <<>>
      /\ pc \in {"read", "clear", "write"} => Ops(fromDongle) \subseteq {"resetind"}
      /\ pc \in {"startup", "state", "permit", "register"} =>
           Ops(fromDongle) \subseteq {"resetind", "state", "stateind"}
  BY <1>0, AllAnswered
<1>2. ASSUME NEW u \in Seq(Requests), toDongle' = toDongle \o u
      PROVE  Ops(toDongle') = Ops(toDongle) \cup Ops(u)
  BY <1>0, <1>2, OpsConcat
<1>3. CASE pc = "startup" /\ pc' = "state" /\ answer' = StateAnswer(future_state)
           /\ UNCHANGED <<toDongle, future_state>>
  <2>1. answer' = "ok" => future_state = "done"
    BY <1>3 DEF StateAnswer
  <2> QED BY <1>0, <1>3, <2>1 DEF Undisturbed, Informed
<1>4. CASE pc \in {"read", "write"} /\ StartZdo
  <2> DEFINE w == <<Req("state"), Req("startup")>>
  <2>1. w \in Seq(Requests) /\ Ops(w) = {"state", "startup"}
    <3> DEFINE v == <<Req("state")>>
    <3>1. v \in Seq(Requests) /\ Ops(v) = {"state"} /\ Req("startup") \in Requests
          /\ Req("startup").op = "startup"
      BY RequestTypes, OpsOfLists
    <3>2. w = Append(v, Req("startup")) /\ w \in Seq(Requests)
      BY RequestTypes
    <3> HIDE DEF v, w
    <3>3. Ops(Append(v, Req("startup"))) = Ops(v) \cup {"startup"}
      BY <3>1, OpsAppend
    <3> QED BY <3>1, <3>2, <3>3
  <2>2. toDongle' = toDongle \o w /\ pc' = "startup" /\ future_state' = "asked" /\ answer' = "pending"
    BY <1>4 DEF StartZdo
  <2> HIDE DEF w
  <2>3. Ops(toDongle') = Ops(toDongle) \cup {"state", "startup"}
    BY <1>2, <2>1, <2>2
  <2>4. dev = "HOLD"
    BY <1>4 DEF ConfigInv, Still
  <2>5. \A x \in Range(fromDongle) : x.op = "resetind"
    BY <1>1, <1>4 DEF Ops
  <2> QED BY <1>0, <1>4, <2>2, <2>3, <2>4, <2>5 DEF Undisturbed, Informed
<1>5. CASE pc = "register" /\ pc' = "ready" /\ UNCHANGED <<answer, toDongle, future_state>>
  BY <1>0, <1>5 DEF Undisturbed, Informed
<1>6. CASE pc = "start" /\ Await("reset", <<Req("reset")>>)
  BY <1>6 DEF Await, Undisturbed, Informed
<1>7. CASE pc = "reset" /\ Await("ieee", <<Req("ieee")>>)
  <2>1. "ieee" \notin Ops(fromDongle)
    BY <1>0, <1>7 DEF ConfigInv, Leftovers
  <2>2. NoneAfter(fromDongle, FrameOf("ieee"), Frames)
    BY <1>0, <2>1, FrameLine
  <2> QED BY <1>0, <1>7, <2>2 DEF Await, Undisturbed, Informed
<1>8. CASE pc = "ieee" /\ Await("read", Reads)
  <2>1. fromDongle = <<>> /\ toDongle = <<>>
    BY <1>0, <1>8 DEF ConfigInv, Leftovers, Undisturbed
  <2>2. Reads \in Seq(Requests) /\ Ops(Reads) \subseteq {"read"}
    BY Batches DEF Ops
  <2>3. Ops(toDongle') \subseteq {"read"}
    BY <1>2, <1>8, <2>1, <2>2, OpsOfLists DEF Await
  <2> QED BY <1>0, <1>8, <2>1, <2>3, OpsOfLists DEF Await, Undisturbed, Informed
<1>9. CASE pc = "reset2" /\ Await("write", Writes)
  <2>1. fromDongle = <<>> /\ toDongle = <<>>
    BY <1>0, <1>9 DEF Undisturbed
  <2>2. Writes \in Seq(Requests) /\ Ops(Writes) \subseteq {"write"}
    <3>1. \A x \in Range(Writes) : x.op = "write"
      BY Batches DEF Write
    <3> QED BY <3>1, Batches DEF Ops
  <2>3. Ops(toDongle') \subseteq {"write"}
    BY <1>2, <1>9, <2>1, <2>2, OpsOfLists DEF Await
  <2> QED BY <1>0, <1>9, <2>1, <2>3, OpsOfLists DEF Await, Undisturbed, Informed
<1>10. CASE pc = "clear" /\ Await("reset2", <<Req("reset")>>)
  <2>1. toDongle = <<>> /\ Ops(fromDongle) = {}
    BY <1>1, <1>10 DEF Undisturbed
  <2>2. fromDongle = <<>>
    BY <1>0, <2>1, NothingLeft
  <2>3. \A q \in Requests : <<>> \o <<q>> = <<q>> /\ Len(<<q>>) = 1
    OBVIOUS
  <2> QED BY <1>0, <1>10, <2>1, <2>2, <2>3, RequestTypes DEF Await, Undisturbed, Informed
<1>11. CASE pc = "read" /\ Await("clear", <<Write("startup_option", "clear")>>)
  <2>1. /\ <<Write("startup_option", "clear")>> \in Seq(Requests)
        /\ Ops(<<Write("startup_option", "clear")>>) = {"write"}
    BY RequestTypes, ConfigTypes, OpsOfLists DEF Write
  <2>2. Ops(toDongle') = Ops(toDongle) \cup {"write"}
    BY <1>2, <1>11, <2>1 DEF Await
  <2> QED BY <1>0, <1>11, <2>2 DEF Await, Undisturbed, Informed
<1>12. CASE UNCHANGED future_state /\ \/ pc = "state" /\ Await("permit", <<Req("permit")>>)
                                      \/ pc = "permit" /\ Await("register", <<Req("register")>>)
  <2>1. PICK o \in {"permit", "register"} :
          /\ o = "permit" => pc = "state" /\ pc' = "permit"
          /\ o = "register" => pc = "permit" /\ pc' = "register"
          /\ toDongle' = toDongle \o <<Req(o)>> /\ answer' = "pending"
    BY <1>12 DEF Await
  <2>2. <<Req(o)>> \in Seq(Requests) /\ Ops(<<Req(o)>>) = {o}
    BY RequestTypes, OpsOfLists
  <2>3. Ops(toDongle') = Ops(toDongle) \cup {o}
    BY <1>2, <2>1, <2>2
  <2>4. \A x \in Range(fromDongle) : x.op \notin {"permit", "register"}
    BY <1>1, <2>1 DEF Ops
  <2>5. Undisturbed'
    BY <1>0, <2>1, <2>3 DEF Undisturbed
  <2>6. dev = "ZB_COORD" /\ (o = "register" => ~permit)
    BY <1>0, <2>1 DEF Informed
  <2> QED BY <1>0, <1>12, <2>1, <2>4, <2>5, <2>6 DEF Informed
<1> QED BY <1>3, <1>4, <1>5, <1>6, <1>7, <1>8, <1>9, <1>10, <1>11, <1>12, ResumeCases

\* Every step keeps what holds as long as the dongle does not reset on its own.
LEMMA UpStep ==
  ConfigInv /\ Undisturbed /\ Informed /\ [Next]_vars => (Undisturbed /\ Informed)'
<1> SUFFICES ASSUME ConfigInv, Undisturbed, Informed, [Next]_vars
             PROVE  (Undisturbed /\ Informed)'
  OBVIOUS
<1>1. CASE UNCHANGED vars
  BY <1>1 DEF vars, host, dongle, bounds, Undisturbed, Informed
<1> QED BY <1>1, UpElsewhere, UpFrame, UpForms, UpServe, UpResume DEF Next

\* When Initialize returns, the network is up, closed for joining, and endpoint 1
\* registered, if the dongle did not reset on its own (ReadyMeansUp): however often
\* the program was killed before, if no start found a RESET_IND with an IEEE address
\* behind it on the line.
THEOREM ReadyIsUp == Spec /\ [][Restart => Settled]_vars => []ReadyMeansUp
<1>1. Init => Undisturbed /\ Informed
  BY DEF Init, Undisturbed, Informed
<1>2. Informed => ReadyMeansUp
  BY DEF Informed, ReadyMeansUp
<1>3. ConfigInv /\ Undisturbed /\ Informed /\ [Next]_vars /\ [Restart => Settled]_vars =>
        (ConfigInv /\ Undisturbed /\ Informed)'
  BY ConfigStep, UpStep
<1> QED BY <1>1, <1>2, <1>3, ConfigInit, PTL DEF Spec
=============================================================================
