-------------------------------- MODULE Codecs ------------------------------
(***************************************************************************)
(* The encoders and decoders of the program with the messages that go through*)
(* them: "json" (DynamicEncoding), "znp" and "znp_partial" (the messages of    *)
(* the dongle, decoded with Decode or DecodePartial) and "zcl" (ZclEncoding). *)
(* A value is encoded, or a device's message arrives as it is; its bytes, or   *)
(* fewer or more of them, are decoded.                                      *)
(***************************************************************************)
EXTENDS DynamicEncoding, ZclEncoding

CONSTANTS
  Cases,     \* triples <<codec, type, value>>; the value may be raw bytes
  NotYet     \* a result not yet computed

VARIABLES
  codec, type, json,  \* what is encoded, and how
  encoded,            \* the bytes, or Failed
  received,           \* the bytes that are then decoded
  decoded             \* the value and the bytes left unread, or Failed

vars == <<build, codec, type, json, encoded, received, decoded>>

Raw(bytes) == [raw |-> bytes]

Init ==
  /\ build \in {"masked", "zero"}
  /\ \E c \in Cases : codec = c[1] /\ type = c[2] /\ json = c[3]
  /\ encoded = NotYet /\ received = <<>> /\ decoded = NotYet

EncodeStep ==
  /\ encoded = NotYet /\ ~Is(json, "raw")
  /\ encoded' = CASE codec = "json" -> Encode(type, json)
                  [] codec \in {"znp", "znp_partial"} -> ZnpEncode(type, json)
                  [] codec = "zcl" -> ZclEncode(type, json)
  /\ UNCHANGED <<build, codec, type, json, received, decoded>>

\* A message composed by a device.
DeviceStep ==
  /\ encoded = NotYet /\ Is(json, "raw")
  /\ encoded' = json.raw
  /\ UNCHANGED <<build, codec, type, json, received, decoded>>

DecodeJson(t, data) ==
  IF Decode(t, Input(data, -1)) = {} THEN Failed
  ELSE CHOOSE r \in {Got(d.value, d.rest.bytes) : d \in Decode(t, Input(data, -1))} : TRUE

DecodeStep ==
  /\ encoded \notin {NotYet, Failed} /\ decoded = NotYet
  /\ received' \in {SubSeq(encoded, 1, n) : n \in 0 .. Len(encoded)} \cup {Append(encoded, 0)}
  /\ decoded' = CASE codec = "json" -> DecodeJson(type, received')
                  [] codec = "znp" -> ZnpDecode(type, received', FALSE)
                  [] codec = "znp_partial" -> ZnpDecode(type, received', TRUE)
                  [] codec = "zcl" -> ZclDecode(type, received')
  /\ UNCHANGED <<build, codec, type, json, encoded>>

Next == EncodeStep \/ DeviceStep \/ DecodeStep
Spec == Init /\ [][Next]_vars

-----------------------------------------------------------------------------
(* Properties.                                                              *)

\* The numbers of a floating-point type, times 2^12.
Scaled(x) == (IF x.neg THEN -1 ELSE 1) * x.n * 2^(x.e + 12)
FloatValues(t) ==
  {x \in {DecodeFloat(t, ToBytes(u, t.bytes)).value.float : u \in 0 .. 2^(1 + t.man + t.exp) - 1} :
     x.class = "finite"}

\* x is sent as y: the same, or one of the two numbers of the type next to it.
RoundedTo(t, x, y) ==
  /\ y.class = "finite" /\ y.neg = x.neg
  /\ \A z \in FloatValues(t) :
       ~(Scaled(x) < Scaled(z) /\ Scaled(z) < Scaled(y)) /\ ~(Scaled(y) < Scaled(z) /\ Scaled(z) < Scaled(x))

RECURSIVE Represents(_, _)
RepresentsAll(t, s) == \A i \in DOMAIN s : Represents(t, s[i])
RepresentsFloat(t, x) ==
  LET bias == 2^(t.exp - 1) - 1
  IN x.class = "finite" /\ x.n # 0 =>
       FloorLog2(x.n) <= t.man /\ FloorLog2(x.n) + x.e <= bias /\ x.e >= 1 - bias - t.man

RepresentsFrame(f) ==
  /\ f.frame_type \in 0 .. 3 /\ f.direction \in 0 .. 1 /\ f.reserved \in 0 .. 7
  /\ f.manufacturer_code = Null \/ Represents(Uint(2), f.manufacturer_code)

\* Null is the invalid value of the types that have one.
RECURSIVE RepresentsVariant(_)
RepresentsVariant(x) ==
  IF x.data = Null THEN x.type.t \in {"nodata", "bool", "int", "uint", "octstr", "string", "struct"}
  ELSE IF x.type.t = "struct" THEN \A i \in DOMAIN x.data.arr : RepresentsVariant(x.data.arr[i])
  ELSE IF x.type.t = "string" THEN Len(x.data.arr) < 2^(ByteBits * x.type.bytes) - 1
  ELSE /\ Represents(x.type, x.data)
       /\ x.type.t \in {"int", "uint"} => x.data.num # InvalidValue(x.type)

\* The values of a type (Zigbee Cluster Library; znp.h).
Represents(t, v) ==
  CASE t.t = "nodata" -> v = Null
    [] t.t = "boolean" -> Is(v, "flag")
    [] t.t = "bool" -> v = Null \/ Is(v, "flag")
    [] t.t \in {"uint", "enum"} -> Is(v, "num") /\ v.num \in 0 .. 2^(ByteBits * t.bytes) - 1
    [] t.t = "int" -> LET half == 2^(ByteBits * t.bytes - 1)
                      IN Is(v, "num") /\ v.num \in -half .. half - 1
    [] t.t = "float" -> RepresentsFloat(t, v.float)
    [] t.t = "data" -> /\ Is(v, "arr") /\ Len(v.arr) = t.bytes
                       /\ RepresentsAll(Uint(1), v.arr)
    [] t.t \in {"map", "bitset"} -> Is(v, "arr") /\ Len(v.arr) = t.bytes * ByteBits
    [] t.t \in {"octstr", "string"} ->
         \/ v = Null
         \/ Is(v, "str") /\ t.t = "string" /\ Len(v.str) < 2^(ByteBits * t.bytes) - 1
         \/ /\ Is(v, "arr") /\ t.t = "octstr" /\ Len(v.arr) < 2^(ByteBits * t.bytes) - 1
            /\ RepresentsAll(Uint(1), v.arr)
    [] t.t = "attribId" ->
         v = Str(AttributeName) \/ (Is(v, "num") /\ v.num \in (0 .. Byte * Byte - 1) \ {AttributeId})
    [] t.t = "struct" -> v = Null \/ RepresentsAll([t |-> "variant"], v.arr)
    [] t.t = "array" -> v.obj.elements = Null
                        \/ RepresentsAll(v.obj.element_type.str, v.obj.elements.arr)
    [] t.t = "variant" -> Represents(v.obj.type.str, v.obj.value)
    [] t.t = "object" -> \A i \in DOMAIN t.properties :
                           Represents(t.properties[i].type, v.obj[t.properties[i].name])
    [] t.t = "repeated" -> RepresentsAll(t.element_type, v.arr)
    [] t.t = "error_or" -> IF "error" \in DOMAIN v.obj THEN v.obj.error.num \in 1 .. Byte - 1
                           ELSE Represents(t.success_type, v.obj.success)
    [] t.t = "vector" -> Len(v.arr) < Byte /\ RepresentsAll(t.element, v.arr)
    [] t.t \in {"std_array", "tuple", "BindTarget"} ->
         \A i \in DOMAIN v.arr : Represents(Parts(t, v)[i], v.arr[i])
    [] t.t = "ZclFrame" -> RepresentsFrame(v.frame)
    [] t.t = "ZclVariant" -> RepresentsVariant(v)

Encodes == ~Is(json, "raw")

\* "EncodeDecodeRoundtrips", "VariantEncodeIdentity": a value of the type is encoded,
\* decoding gives it back, and nothing is left over.  Not so for bitmaps as wide as
\* an int or wider and for integers of LongBytes bytes (WideMapCases, WideIntCases).
RoundTrip ==
  Encodes /\ Represents(type, json) =>
    /\ encoded # Failed
    /\ decoded # NotYet /\ received = encoded => decoded = Got(json, <<>>)

\* "Value %d does not fit in %d bits", "Unable to encode vector of size >255": what is
\* not a value of the type is refused and no other value sent in its place; only a
\* floating-point number is rounded, to a number of the type next to it or, when it is
\* too big, to the highest.  Not so for integers just outside a signed type, numbers
\* cast to IntBytes bytes and floats in the binade of infinity (IntRangeCases,
\* NarrowedCases, BigFloatCases), nor for strings as long as the marker of an invalid one.
RefusesOthers ==
  Encodes /\ ~Represents(type, json) =>
    IF type.t = "float"
    THEN decoded \notin {NotYet, Failed} /\ received = encoded
           => RoundedTo(type, json.float, decoded.value.float)
    ELSE encoded \in {NotYet, Failed}

\* The end of the message is the end of its last part.
OpenEnded == type.t = "ZclFrame" \/ (type.t = "repeated" /\ type.length_size = 0)

\* A message that was cut short is refused ("Not enough data"), not taken for another
\* one with missing or invented contents, and so is one of the dongle with bytes too many
\* ("Not all bytes parsed"); only the messages known to come with extra bytes are read
\* in spite of them, and these bytes are no part of what is read.
LengthChecked ==
  decoded # NotYet /\ received # encoded /\ ~OpenEnded =>
    IF Len(received) < Len(encoded) \/ codec \in {"znp", "zcl"} THEN decoded = Failed
    ELSE decoded # Failed => decoded.rest = <<0>>

\* In a report, a Xiaomi attribute with the size n is followed by the attributes that stand
\* behind its n bytes, as if these were a report of their own: nothing in the
\* attribute, whose inner format no document fixes, swallows or invents any of them.
FF01Contained ==
  LET first == 4 + received[4]
      behind == DecodeJson(type, SubSeq(received, first + 1, Len(received)))
  IN decoded \notin {NotYet, Failed} /\ ~Encodes /\ Len(received) >= 4 /\ Len(received) >= first
       => behind # Failed /\ Tail(decoded.value.arr) = behind.value.arr
=============================================================================
