--------------------------- MODULE DynamicEncoding --------------------------
(***************************************************************************)
(* dynamic_encoding: JSON to ZCL bytes for commands (encoding.cpp), bytes to *)
(* JSON for reports (decoding.cpp), driven by a type from clusters.info.     *)
(*                                                                         *)
(* Widths are parameters: ByteBits bits in a byte, LongBytes and IntBytes    *)
(* bytes in the 64-bit and the 32-bit types (8, 8 and 4 in the program), so  *)
(* that TLC can go through the boundaries.  A shift by the width of its type  *)
(* is undefined; build says what the compiler made of it: "masked", where    *)
(* the count is taken modulo the width (x86), or "zero".  Characters count as *)
(* bytes.  XiaomiFF01Type can only be decoded.                              *)
(***************************************************************************)
EXTENDS ZnpEncoding

CONSTANTS
  LongBytes, IntBytes,
  AttributeName, AttributeId,  \* the one attribute the cluster knows
  FF01Id                       \* the attribute of Xiaomi's devices

ASSUME WidthAssumption ==
  /\ IntBytes \in Nat \ {0} /\ LongBytes \in Nat /\ IntBytes < LongBytes
  /\ {AttributeId, FF01Id} \subseteq 0 .. 2^(2 * ByteBits) - 1 /\ AttributeId # FF01Id

LongBits == ByteBits * LongBytes
Long == 2^LongBits

VARIABLE build        \* see above; it never changes

-----------------------------------------------------------------------------
(* Integers.                                                                *)

Shr(u, n) == IF n < LongBits THEN u \div 2^n ELSE IF build = "masked" THEN u ELSE 0
Shl(u, n) == IF n < LongBits THEN (u % 2^(LongBits - n)) * 2^n ELSE IF build = "masked" THEN u ELSE 0


\* For a signed type all zeros or all ones may be cut off.
EncodeInteger(signed, v, bytes) ==
  LET u == v % Long
      rest == Shr(u, bytes * ByteBits)
      rest_negative == Shr(Long - 1, bytes * ByteBits)
  IN IF rest = 0 \/ (signed /\ rest = rest_negative)
     THEN ToBytes(u, bytes) ELSE Failed

\* What is decoded: the bytes left, and the attribute identifier read last, for
\* the string of a Xiaomi attribute (-1: none).
Input(bytes, last) == [bytes |-> bytes, last |-> last]
Skip(data, n) == [data EXCEPT !.bytes = SubSeq(@, n + 1, Len(@))]

\* Mutant: no sign extension.
DecodeIntegerUnsigned(signed, data, bytes) ==
  {Got(Num(u), Skip(data, bytes)) :
     u \in IF Len(data.bytes) < bytes THEN {} ELSE {FromBytes(SubSeq(data.bytes, 1, bytes))}}

\* What is decoded, with the data left, or nothing when the code throws.  The sign is
\* extended by adding the ones shifted above the bytes read.
DecodeInteger(signed, data, bytes) ==
  LET high == Shl(Long - 1, bytes * ByteBits)
      extended(u) == IF Shr(u, bytes * ByteBits - 1) # 1 THEN u
                     ELSE IF high = Long - 1 THEN high ELSE u + high
      cast(w) == ((w + Long \div 2) % Long) - Long \div 2
  IN {Got(Num(IF signed THEN cast(extended(u)) ELSE u), Skip(data, bytes)) :
        u \in IF Len(data.bytes) < bytes THEN {} ELSE {FromBytes(SubSeq(data.bytes, 1, bytes))}}

-----------------------------------------------------------------------------
(* Encoding.                                                                *)

\* as<unsigned int>(): a cast of the JSON number to 32 bits, before any check.
AsUnsigned(n) == n % 2^(IntBytes * ByteBits)

AsByte(v) == IF Is(v, "num") THEN EncodeInteger(FALSE, AsUnsigned(v.num), 1) ELSE Failed

\* The bits 1 << current_bit stands for: an int, widened to 64 bits.
BitsOf(current_bit) ==
  LET int == IntBytes * ByteBits
      bit == IF current_bit < int \/ build = "masked" THEN current_bit % int ELSE LongBits
  IN IF bit = int - 1 THEN bit .. LongBits - 1 ELSE {bit} \ {LongBits}

EncodeMap(bits, bytes) ==
  LET bitmask == UNION {BitsOf(i - 1) : i \in {j \in DOMAIN bits : bits[j].flag}}
  IN EncodeInteger(FALSE, FoldSet(+, 0, {2^b : b \in bitmask}), bytes)

\* Length and content of a string; null is the length of all ones.
EncodeString(t, v) ==
  LET invalid_size == 2^(ByteBits * t.bytes) - 1
  IN IF v = Null THEN EncodeInteger(FALSE, invalid_size, t.bytes)
     ELSE IF t.t = "octstr" /\ Is(v, "arr")
     THEN Join(<<EncodeInteger(FALSE, Len(v.arr), t.bytes)>>
               \o [i \in DOMAIN v.arr |-> AsByte(v.arr[i])])
     ELSE IF t.t = "string" /\ Is(v, "str")
     THEN Join(<<EncodeInteger(FALSE, Len(v.str), t.bytes), v.str>>)
     ELSE Failed

EncodeAttribId(v) ==
  IF v = Null THEN <<Byte - 1, Byte - 1>>
  ELSE IF v = Str(AttributeName) THEN EncodeInteger(FALSE, AttributeId, 2)
  ELSE IF Is(v, "num") THEN EncodeInteger(FALSE, AsUnsigned(v.num), 2)
  ELSE Failed

Member(v, name) == IF name \in DOMAIN v.obj THEN v.obj[name] ELSE Null

T(name, bytes) == [t |-> name, bytes |-> bytes]

RECURSIVE Encode(_, _)
EncodeAll(t, items) == [i \in DOMAIN items |-> Encode(t, items[i])]

\* The datatypes that hold others, and the types only clusters.info has.
EncodeCompound(t, v) ==
  CASE t.t = "struct" ->
         IF v = Null THEN EncodeInteger(FALSE, Byte * Byte - 1, 2)
         ELSE IF ~Is(v, "arr") THEN Failed
         ELSE Join(<<EncodeInteger(FALSE, Len(v.arr), 2)>>
                   \o EncodeAll([t |-> "variant"], v.arr))
    [] t.t = "array" ->
         IF ~Is(v, "obj") \/ ~Is(Member(v, "element_type"), "str") THEN Failed
         ELSE LET e == Member(v, "element_type").str
                  elements == Member(v, "elements")
              IN IF elements = Null
                 THEN Join(<<<<TypeId(e)>>, EncodeInteger(FALSE, Byte * Byte - 1, 2)>>)
                 ELSE Join(<<<<TypeId(e)>>, EncodeInteger(FALSE, Len(elements.arr), 2)>>
                           \o EncodeAll(e, elements.arr))
    [] t.t = "variant" ->
         IF v = Null THEN <<TypeId(T("nodata", 0))>>
         ELSE IF ~Is(v, "obj") \/ ~Is(Member(v, "type"), "str") THEN Failed
         ELSE Join(<<<<TypeId(Member(v, "type").str)>>,
                     Encode(Member(v, "type").str, Member(v, "value"))>>)
    [] t.t = "object" ->
         IF v = Null /\ t.properties = <<>> THEN <<>>
         ELSE IF ~Is(v, "obj") THEN Failed
         ELSE Join([i \in DOMAIN t.properties |->
                Encode(t.properties[i].type, Member(v, t.properties[i].name))])
    [] t.t = "repeated" ->
         IF ~Is(v, "arr") THEN Failed
         ELSE Join((IF t.length_size > 0
                    THEN <<EncodeInteger(FALSE, Len(v.arr), t.length_size)>> ELSE <<>>)
                   \o EncodeAll(t.element_type, v.arr))
    [] t.t = "error_or" ->
         IF ~Is(v, "obj") THEN Failed
         ELSE LET status == IF Member(v, "error") = Null THEN 0 ELSE Member(v, "error").num
                  success == Member(v, "success")
              IN IF status = 0
                 THEN Join(<<EncodeInteger(FALSE, status, 1), Encode(t.success_type, success)>>)
                 ELSE IF success # Null THEN Failed ELSE EncodeInteger(FALSE, status, 1)

Encode(t, v) ==
  CASE t.t = "nodata" -> IF v = Null THEN <<>> ELSE Failed
    [] t.t = "data" -> IF Is(v, "arr") /\ Len(v.arr) = t.bytes
                       THEN Join([i \in DOMAIN v.arr |-> AsByte(v.arr[i])]) ELSE Failed
    [] t.t = "bool" -> IF v = Null THEN <<Byte - 1>> ELSE IF v.flag THEN <<1>> ELSE <<0>>
    [] t.t = "map" -> IF Is(v, "arr") /\ Len(v.arr) = t.bytes * ByteBits
                      THEN EncodeMap(v.arr, t.bytes) ELSE Failed
    [] t.t = "uint" -> EncodeInteger(FALSE, v.num, t.bytes)
    [] t.t = "enum" -> EncodeInteger(FALSE, AsUnsigned(v.num), t.bytes)
    [] t.t = "int" -> EncodeInteger(TRUE, v.num, t.bytes)
    [] t.t \in {"octstr", "string"} -> EncodeString(t, v)
    [] t.t = "float" -> EncodeFloat(t, v)
    [] t.t = "attribId" -> EncodeAttribId(v)
    [] t.t = "xiaomi_ff01" -> Failed
    [] OTHER -> EncodeCompound(t, v)

-----------------------------------------------------------------------------
(* Decoding, from an Input, to the set of what is decoded: empty or a Got.   *)

RECURSIVE Decode(_, _)

Decoded(value, rest) == {Got(value, rest)}
As(results, F(_)) == {Got(F(r.value), r.rest) : r \in results}

\* A value of each type, one after the other; optional ones are read while there is data.
DecodeMany(types, optional, data) ==
  FoldLeft(LAMBDA results, t :
             UNION {IF optional /\ r.rest.bytes = <<>> THEN {r}
                    ELSE As(Decode(t, r.rest), LAMBDA v : Append(r.value, v)) : r \in results},
           Decoded(<<>>, data), types)

Times(count, t) == [i \in 1 .. count |-> t]

\* As many values as there are, of a byte at least.
DecodeToTheEnd(t, data) == DecodeMany(Times(Len(data.bytes), t), TRUE, data)

Content(t, s) == IF t.t = "string" THEN Str(s) ELSE Arr([i \in DOMAIN s |-> Num(s[i])])

\* Mutant: the size is not compared with the data left.
DecodeStringUnchecked(t, data) ==
  UNION {LET n == Min({size.value.num, Len(size.rest.bytes)})
         IN IF size.value.num = 2^(ByteBits * t.bytes) - 1 THEN Decoded(Null, size.rest)
            ELSE Decoded(Content(t, SubSeq(size.rest.bytes, 1, n)), Skip(size.rest, n)) :
         size \in DecodeInteger(FALSE, data, t.bytes)}

DecodeString(t, data) ==
  UNION {LET n == size.value.num
         IN IF n = 2^(ByteBits * t.bytes) - 1 THEN Decoded(Null, size.rest)
            ELSE IF Len(size.rest.bytes) < n THEN {}
            ELSE Decoded(Content(t, SubSeq(size.rest.bytes, 1, n)), Skip(size.rest, n)) :
         size \in DecodeInteger(FALSE, data, t.bytes)}

\* A count, then the elements.
DecodeElements(t, size) == As(DecodeMany(Times(size.value.num, t), FALSE, size.rest), Arr)

\* Null for the count of all ones.
DecodeCounted(t, data) ==
  UNION {IF size.value.num = Byte * Byte - 1 THEN Decoded(Null, size.rest)
         ELSE DecodeElements(t, size) : size \in DecodeInteger(FALSE, data, 2)}

Pair(a, v, b, w) == Obj([n \in {a, b} |-> IF n = a THEN v ELSE w])

\* The data type an identifier at the head of the data stands for.
DataType(data) ==
  IF data.bytes = <<>> THEN {}
  ELSE {DataTypes[id] : id \in {Head(data.bytes)} \cap DOMAIN DataTypes}

\* The items of a Xiaomi attribute, up to the end of the data: a key and a variant.
Item == [t |-> "object", properties |-> <<[name |-> "key", type |-> T("uint", 1)],
                                          [name |-> "value", type |-> [t |-> "variant"]]>>]

\* The object of the items: the last of two with the same key stays.
ItemsObject(s) ==
  Pair("type", Str("xiaomi_ff01"), "value",
       Obj([k \in {s[i].obj.key.num : i \in DOMAIN s} |->
             s[Max({i \in DOMAIN s : s[i].obj.key.num = k})].obj.value]))

\* Mutant: the items are read up to the end of the message.
DecodeFF01ToTheEnd(data) ==
  UNION {As(DecodeToTheEnd(Item, Input(size.rest.bytes, -1)), ItemsObject) :
         size \in DecodeInteger(FALSE, data, 1)}

\* A size larger than what is left is cut; a string inside is a string.
DecodeFF01(data) ==
  UNION {LET n == Min({size.value.num, Len(size.rest.bytes)})
         IN {Got(ItemsObject(items.value),
                 Input(Skip(size.rest, n).bytes, items.rest.last)) :
             items \in DecodeToTheEnd(Item, Input(SubSeq(size.rest.bytes, 1, n), -1))} :
         size \in DecodeInteger(FALSE, data, 1)}

DecodeVariantType(data) ==
  UNION {IF e = T("string", 1) /\ data.last = FF01Id THEN DecodeFF01(Skip(data, 1))
         ELSE As(Decode(e, Skip(data, 1)), LAMBDA v : Pair("type", Str(e), "value", v)) :
         e \in DataType(data)}

DecodeAttribId(data) ==
  {Got(IF id.value.num = AttributeId THEN Str(AttributeName) ELSE id.value,
       [id.rest EXCEPT !.last = id.value.num]) : id \in DecodeInteger(FALSE, data, 2)}

DecodeCompound(t, data) ==
  CASE t.t = "struct" -> DecodeCounted([t |-> "variant"], data)
    [] t.t = "array" ->
         UNION {As(DecodeCounted(e, Skip(data, 1)),
                   LAMBDA v : Pair("element_type", Str(e), "elements", v)) : e \in DataType(data)}
    [] t.t = "variant" -> DecodeVariantType(data)
    [] t.t = "object" ->
         As(DecodeMany([i \in DOMAIN t.properties |-> t.properties[i].type], FALSE, data),
            LAMBDA s : Obj([n \in {p.name : p \in Range(t.properties)} |->
                             s[Max({i \in DOMAIN s : t.properties[i].name = n})]]))
    [] t.t = "repeated" /\ t.length_size = 0 -> As(DecodeToTheEnd(t.element_type, data), Arr)
    [] t.t = "repeated" /\ t.length_size # 0 ->
         UNION {DecodeElements(t.element_type, size) :
                size \in DecodeInteger(FALSE, data, t.length_size)}
    [] t.t = "error_or" ->
         UNION {IF status.value.num # 0
                THEN Decoded(Obj([error |-> status.value]), status.rest)
                ELSE As(Decode(t.success_type, status.rest), LAMBDA v : Obj([success |-> v])) :
                status \in DecodeInteger(FALSE, data, 1)}
    [] t.t = "xiaomi_ff01" -> DecodeFF01(data)

Decode(t, data) ==
  CASE t.t = "nodata" -> Decoded(Null, data)
    [] t.t = "data" -> As(DecodeMany(Times(t.bytes, T("uint", 1)), FALSE, data), Arr)
    [] t.t = "bool" -> As(DecodeInteger(FALSE, data, 1), LAMBDA v :
                         IF v.num = Byte - 1 THEN Null ELSE Flag(v.num # 0))
    [] t.t = "map" -> As(DecodeInteger(FALSE, data, t.bytes), LAMBDA v :
                        Arr([b \in 1 .. t.bytes * ByteBits |->
                              Flag((v.num \div 2^(b - 1)) % 2 # 0)]))
    [] t.t \in {"uint", "enum"} -> DecodeInteger(FALSE, data, t.bytes)
    [] t.t = "int" -> DecodeInteger(TRUE, data, t.bytes)
    [] t.t = "float" -> {Got(r.value, Skip(data, t.bytes)) :
                           r \in {DecodeFloat(t, data.bytes)} \ {Failed}}
    [] t.t \in {"octstr", "string"} -> DecodeString(t, data)
    [] t.t = "attribId" -> DecodeAttribId(data)
    [] OTHER -> DecodeCompound(t, data)
=============================================================================
