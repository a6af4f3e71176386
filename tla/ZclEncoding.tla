----------------------------- MODULE ZclEncoding ----------------------------
(***************************************************************************)
(* zcl/encoding.h and zcl/encoding.cpp: the frame of every ZCL message, and  *)
(* ZclVariant, a value with its data type.                                  *)
(*                                                                         *)
(* frame_control is a byte of 8 bits whatever ByteBits is.                   *)
(***************************************************************************)
EXTENDS ZnpEncoding

-----------------------------------------------------------------------------
(* ZclFrame.  manufacturer_code is Null when there is none.                  *)

FrameControl(f) ==
  f.frame_type + (IF f.manufacturer_code = Null THEN 0 ELSE 4) + f.direction * 8
  + (IF f.disable_default_response THEN 16 ELSE 0) + ((f.reserved * 32) % 256)

EncodeFrame(f) ==
  <<FrameControl(f)>>
  \o (IF f.manufacturer_code = Null THEN <<>> ELSE ToBytes(f.manufacturer_code.num, 2))
  \o <<f.transaction_sequence_number, f.command_identifier>> \o f.payload

\* What is left after the header is the payload.
DecodeFrame(data) ==
  LET frame_control == Head(data)
      has_manufacturer_code == (frame_control \div 4) % 2 # 0
      header == IF has_manufacturer_code THEN 5 ELSE 3
  IN IF data = <<>> THEN Failed
     ELSE IF Len(data) < header THEN Failed
     ELSE Got([frame |->
            [frame_type |-> frame_control % 4,
             manufacturer_code |-> IF has_manufacturer_code
                                   THEN Num(FromBytes(SubSeq(data, 2, 3))) ELSE Null,
             direction |-> (frame_control \div 8) % 2,
             disable_default_response |-> (frame_control \div 16) % 2 # 0,
             reserved |-> frame_control \div 32,
             transaction_sequence_number |-> data[header - 1],
             command_identifier |-> data[header],
             payload |-> SubSeq(data, header + 1, Len(data))]], <<>>)

-----------------------------------------------------------------------------
(* ZclVariant: its type, and a value or Null ("invalid").                    *)

Variant(t, v) == [type |-> t, data |-> v]

\* The C++ type an integer of n bytes is kept in has 1, 2, 4 or 8 bytes.
StorageBytes(n) == CHOOSE s \in {1, 2, 4, 8} : n <= s /\ s < 2 * n
StorageBits(t) == ByteBits * StorageBytes(t.bytes)

\* Invalid is the largest unsigned or the smallest signed number of that type.
InvalidValue(t) == IF t.t = "uint" THEN 2^StorageBits(t) - 1 ELSE -(2^(StorageBits(t) - 1))

\* data and map types, bool and the floating-point types: what znp::EncodeHelper does.
PlainType(t) ==
  CASE t.t = "data" -> Array(t.bytes, Uint(1))
    [] t.t = "map" -> [t |-> "bitset", bytes |-> t.bytes]
    [] t.t = "bool" -> [t |-> "boolean"]

\* A string of 16 bits asks the variant for a value of type string, and so finds none.
VectorValue(t, v) == IF t.t = "string" /\ t.bytes = 2 THEN Null ELSE v

RECURSIVE EncodeVariant(_)
EncodeElements(t, v) ==
  IF t.t = "struct" THEN Join([i \in DOMAIN v.arr |-> EncodeVariant(v.arr[i])])
  ELSE [i \in DOMAIN v.arr |-> v.arr[i].num]

\* A vector: its size, or all ones.
EncodeVector(t, v) ==
  IF v = Null THEN ToBytes(2^(ByteBits * t.bytes) - 1, t.bytes)
  ELSE Join(<<ToBytes(Len(v.arr) % 2^(ByteBits * t.bytes), t.bytes), EncodeElements(t, v)>>)

EncodeContent(t, v) ==
  CASE t.t = "nodata" -> <<>>
    [] t.t = "bool" /\ v = Null -> <<Byte - 1>>
    [] t.t \in {"data", "map", "float"} /\ v = Null -> Failed
    [] t.t \in {"data", "map", "bool"} -> EncodeHelper(PlainType(t), v)
    [] t.t = "float" -> EncodeFloat(t, v)
    [] t.t \in {"octstr", "string", "struct"} -> EncodeVector(t, VectorValue(t, v))
    [] t.t \in {"int", "uint"} ->
         ToBytes((IF v = Null THEN InvalidValue(t) ELSE v.num) % 2^StorageBits(t), t.bytes)
    [] OTHER -> Failed

EncodeVariant(x) == Join(<<<<TypeId(x.type)>>, EncodeContent(x.type, x.data)>>)

RECURSIVE DecodeVariant(_)
RECURSIVE DecodeVariants(_, _)
DecodeVariants(count, data) ==
  IF count = 0 THEN Got(<<>>, data)
  ELSE LET first == DecodeVariant(data)
       IN IF first = Failed THEN Failed
          ELSE Then(DecodeVariants(count - 1, first.rest), LAMBDA s : <<first.value>> \o s)

DecodeVector(t, data) ==
  LET size == DecodeUint(t.bytes, data)
  IN IF size = Failed THEN Failed
     ELSE IF size.value = 2^(ByteBits * t.bytes) - 1 THEN Got(Null, size.rest)
     ELSE Then(IF t.t = "struct" THEN DecodeVariants(size.value, size.rest)
               ELSE DecodeParts([i \in 1 .. size.value |-> Uint(1)], size.rest), Arr)

\* The bytes of a signed integer fill its C++ type from below.
DecodeStored(t, data) ==
  Then(DecodeUint(t.bytes, data), LAMBDA u :
    LET value == IF t.t = "int" /\ u >= 2^(StorageBits(t) - 1) THEN u - 2^StorageBits(t) ELSE u
    IN IF value = InvalidValue(t) THEN Null ELSE Num(value))

DecodeContent(t, data) ==
  CASE t.t = "nodata" -> Got(Null, data)
    [] t.t = "bool" -> LET u == DecodeUint(1, data)
                       IN IF u = Failed \/ u.value \in 2 .. Byte - 2 THEN Failed
                          ELSE Then(u, LAMBDA b : IF b = Byte - 1 THEN Null ELSE Flag(b > 0))
    [] t.t \in {"data", "map"} -> DecodeHelper(PlainType(t), data)
    [] t.t = "float" -> DecodeFloat(t, data)
    [] t.t \in {"octstr", "string", "struct"} -> DecodeVector(t, data)
    [] t.t \in {"int", "uint"} -> DecodeStored(t, data)
    [] OTHER -> Failed

DecodeVariant(data) ==
  IF data = <<>> THEN Failed
  ELSE IF Head(data) \notin DOMAIN DataTypes THEN Failed
  ELSE LET t == DataTypes[Head(data)]
           created == IF t.t = "string" THEN [t EXCEPT !.bytes = 1] ELSE t
       IN Then(DecodeContent(t, Tail(data)), LAMBDA v : Variant(created, v))

\* Frames and variants are decoded as wholes, like the messages of the dongle.
ZclEncode(t, v) == IF t.t = "ZclFrame" THEN EncodeFrame(v.frame) ELSE EncodeVariant(v)
ZclDecode(t, data) ==
  LET r == IF t.t = "ZclFrame" THEN DecodeFrame(data) ELSE DecodeVariant(data)
  IN IF r # Failed /\ r.rest # <<>> THEN Failed ELSE r
=============================================================================
