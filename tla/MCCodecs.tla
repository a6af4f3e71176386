------------------------------ MODULE MCCodecs ------------------------------
(* Types and values at their boundaries for the runs of Codecs.             *)
EXTENDS Codecs

\* A float has the exponent of a single, and more bits of mantissa than a semi.
Semi   == [t |-> "float", bytes |-> 2, man |-> 2, exp |-> 3, prec |-> 5]
Single == [t |-> "float", bytes |-> 3, man |-> 4, exp |-> 4, prec |-> 5]
Bool == T("bool", 1)
MCDataTypes ==
  <<T("nodata", 0), Bool, T("uint", 1), T("string", 1), T("uint", 2), T("octstr", 1),
    T("attribId", 2), T("string", 2), T("octstr", 2), T("struct", 2), T("array", 2), Semi, Single>>
  \o [n \in 1 .. 5 |-> T("int", n)] \o [n \in 1 .. 3 |-> T("data", n)]
  \o [n \in 1 .. 3 |-> T("map", n)] \o [n \in 1 .. 3 |-> T("uint", n + 2)]

Around(n) == {n - 1, n, n + 1}
Tuples(S) == {<<>>} \cup {<<a>> : a \in S} \cup {<<a, b>> : a, b \in S}

Uints(name, widths) ==
  {<<T(name, b), Num(n)>> : b \in widths, n \in (Around(0) \cup Around(Byte)
     \cup UNION {Around(2^(ByteBits * w)) : w \in widths}) \cap 0 .. Long - 1}
Ints(widths) ==
  UNION {{<<T("int", b), Num(n)>> : n \in UNION {Around(s * 2^(ByteBits * b - 1)) : s \in {-1, 0, 1}}
          \cap (-(Long \div 2) .. Long \div 2 - 1)} : b \in widths}
OthersThanInts(widths) ==
  UNION {{<<T("int", b), Num(s * 2^(ByteBits * b - 1) - o)>> : s \in {-1, 1}, o \in {0, 1}} : b \in widths}
Maps(widths) ==
  UNION {{<<T("map", b), Arr([i \in 1 .. b * ByteBits |-> Flag(i \in S)])>> :
           S \in {{}, 1 .. b * ByteBits} \cup {{i} : i \in 1 .. b * ByteBits}} : b \in widths}
Bytes == {Num(0), Num(Byte - 1)}
Datas == {<<T("data", 2), Arr(s)>> : s \in Tuples(Bytes \cup {Num(Byte), Num(-1)})}
Strings(size) ==
  {<<T("octstr", b), v>> : b \in {1, 2}, v \in {Null} \cup {Arr(s) : s \in Tuples(Bytes)}}
    \cup {<<T("string", b), v>> : b \in {1, 2},
           v \in {Null} \cup {Str([i \in 1 .. n |-> 1]) : n \in 0 .. size}}

Simple == {<<T("uint", 1), Num(2)>>, <<T("bool", 1), Flag(TRUE)>>, <<T("bool", 1), Null>>,
           <<T("uint", 2), Num(Byte)>>}
Variants == {<<[t |-> "variant"], Pair("type", Str(c[1]), "value", c[2])>> :
               c \in Simple \cup Strings(1) \cup {<<T("nodata", 0), Null>>}}
Compounds ==
  {<<T("struct", 2), v>> : v \in {Null} \cup {Arr(s) : s \in Tuples({c[2] : c \in Variants})}}
    \cup {<<T("array", 2), Pair("element_type", Str(Bool), "elements", v)>> :
            v \in {Null} \cup {Arr(s) : s \in Tuples({Flag(TRUE), Flag(FALSE), Null})}}
    \cup {<<[t |-> "repeated", length_size |-> l, element_type |-> Bool], Arr(s)>> :
            l \in 0 .. 2, s \in Tuples({Flag(TRUE), Null})}
    \cup {<<[t |-> "error_or", success_type |-> Bool], Obj([error |-> Num(n)])>> : n \in 1 .. 4}
    \cup {<<[t |-> "error_or", success_type |-> Bool], Obj([success |-> v])>> :
            v \in {Flag(TRUE), Null}}
    \cup {<<[t |-> "object", properties |->
               <<[name |-> "id", type |-> T("attribId", 2)], [name |-> "data", type |-> c[1]]>>],
             Pair("id", id, "data", c[2])>> :
            c \in Variants, id \in {Str(AttributeName), Num(AttributeId + 1), Num(Byte * Byte)}}

\* Numbers of prec bits, below the smallest of a type and above the largest, that the
\* encoder can take (see Log2RoundsUp and the README); infinity and NaN.
Magnitude(x) == FloorLog2(x.float.n) + x.float.e
FloatNumbers(t) ==
  {x \in {Finite(neg, n, e) : neg \in BOOLEAN, n \in 0 .. 2^t.prec - 1, e \in -8 .. 8 - t.prec} :
     x.float.n = 0 \/ ~Log2RoundsUp(x.float, t.prec)}
  \cup {NaN, Inf(TRUE), Inf(FALSE)}
\* The numbers whose exponent would be that of infinity and NaN.
TopBinade(t) == {x \in FloatNumbers(t) : x.float.n # 0 /\ Magnitude(x) = 2^(t.exp - 1)}
Floats == UNION {{<<t, v>> : v \in FloatNumbers(t) \ TopBinade(t)} : t \in {Semi, Single}}

Of(name, cases) == {<<name, c[1], c[2]>> : c \in cases}

\* Reports of a Xiaomi attribute, whole and with a wrong size, and attributes behind it.
Report == [t |-> "repeated", length_size |-> 0, element_type |->
  [t |-> "object", properties |-> <<[name |-> "attribute_id", type |-> T("attribId", 2)],
                                    [name |-> "value", type |-> [t |-> "variant"]]>>]]
Id(t) == <<TypeId(t)>>
Items == {<<1>> \o Id(T("uint", 1)) \o <<5>>, <<1>> \o Id(T("string", 1)) \o <<1, 5>>,
          <<2>> \o Id(T("nodata", 0)), <<2>> \o Id(T("uint", 2)) \o <<0, 1>>,
          <<2>> \o Id(T("attribId", 2)) \o ToBytes(FF01Id, 2)}
Behind == {<<>>, ToBytes(AttributeId, 2) \o Id(Bool) \o <<1>>,
           ToBytes(3, 2) \o Id(T("string", 1)) \o <<2, 1, 1>>}
Reports ==
  {<<"json", Report, Raw(ToBytes(FF01Id, 2) \o Id(T("string", 1)) \o <<Len(i \o j) + d>> \o i \o j \o b)>> :
     i \in Items, j \in Items \cup {<<>>}, b \in Behind, d \in -1 .. 1}

\* Messages of the dongle: AF_DATA_REQUEST, ZDO_BIND_REQ, the bind table, a link key, and
\* with bytes too many AF_INCOMING_MSG and SAPI_GET_DEVICE_INFO.
U8 == Uint(1)
Payloads == {Arr([i \in 1 .. n |-> Num(i % Byte)]) : n \in {0, 1, Byte - 1, Byte}}
Binds == {Arr(<<Num(m)>> \o [i \in DOMAIN BindModes[m] |-> Num(2^(ByteBits * BindModes[m][i].bytes) - 1)]) :
            m \in DOMAIN BindModes}
Bind == [t |-> "BindTarget"]
Messages ==
  Of("znp", {<<Tuple(<<Uint(2), U8, Vector(U8)>>), Arr(<<Num(n), Num(1), p>>)>> :
               n \in {0, Byte, Byte * Byte - 1}, p \in Payloads}
    \cup {<<Tuple(<<Uint(2), Bind>>), Arr(<<Num(Byte), b>>)>> : b \in Binds}
    \cup {<<Tuple(<<U8, Vector(Tuple(<<U8, Bind>>))>>), Arr(<<Num(1), Arr(s)>>)>> :
            s \in Tuples({Arr(<<Num(0), b>>) : b \in Binds})}
    \cup {<<Tuple(<<Uint(8), Array(2, U8)>>), Arr(<<Num(Byte + 1), Arr(<<Num(1), Num(2)>>)>>)>>}
    \cup {<<Tuple(<<[t |-> "int", bytes |-> 1], [t |-> "boolean"]>>), Arr(<<Num(n), Flag(b)>>)>> :
            n \in {-1, 1}, b \in BOOLEAN})
  \cup Of("znp_partial", {<<Tuple(<<Uint(2), Vector(U8)>>), Arr(<<Num(Byte), p>>)>> : p \in Payloads}
    \cup {<<Uint(2), Num(1)>>})

Frames ==
  {<<[t |-> "ZclFrame"],
     [frame |-> [frame_type |-> f, manufacturer_code |-> m, direction |-> d,
                 disable_default_response |-> r, reserved |-> x,
                 transaction_sequence_number |-> 5, command_identifier |-> 6, payload |-> p]]>> :
     f \in {0, 1, 3}, m \in {Null, Num(Byte + 1)}, d \in 0 .. 1, r \in BOOLEAN, x \in {0, 7},
     p \in {<<>>, <<1, 2>>}}

\* Not the integers of 3 and of 5 to 7 bytes that are negative or invalid, and not string16:
\* their encodings are not read back (see the README).
ZclNumbers(b) ==
  LET bits == ByteBits * b
      whole == IF StorageBytes(b) = b THEN {Null} ELSE {}
  IN {<<T("uint", b), v>> : v \in whole \cup {Num(0), Num(2^bits - (IF whole = {} THEN 1 ELSE 2))}}
     \cup {<<T("int", b), v>> : v \in whole \cup {Num(0), Num(2^(bits - 1) - 1)}
                                \cup (IF whole = {} THEN {} ELSE {Num(-1), Num(1 - 2^(bits - 1))})}
ZclPlain ==
  UNION {ZclNumbers(b) : b \in 1 .. 5} \cup Maps(1 .. 3)
  \cup {<<T("data", 2), Arr(<<Num(1), Num(2)>>)>>, <<T("nodata", 0), Null>>}
  \cup {<<Bool, v>> : v \in {Null, Flag(TRUE), Flag(FALSE)}}
  \cup {<<T(s, 1), v>> : s \in {"octstr", "string"}, v \in {Null} \cup {Arr(x) : x \in Tuples(Bytes)}}
  \cup {c \in Floats : c[2].float.n < 4 /\ Represents(c[1], c[2])}
ZclVariants ==
  Of("zcl", {<<[t |-> "ZclVariant"], Variant(c[1], c[2])>> : c \in ZclPlain}
    \cup {<<[t |-> "ZclVariant"], Variant(T("struct", 2), v)>> : v \in {Null} \cup
            {Arr(s) : s \in Tuples({Variant(Bool, Flag(TRUE)), Variant(T("uint", 1), Null),
                                    Variant(T("octstr", 1), Arr(<<Num(1)>>))})}})

\* Not the cases below, for each of which one of the properties fails.
RoundTripCases ==
  Of("json", Uints("uint", 1 .. LongBytes - 1) \cup Uints("enum", 1 .. 2) \cup Maps(1 .. 3) \cup Datas
    \cup {c \in Ints(1 .. LongBytes - 1) : Represents(c[1], c[2])}
    \cup Strings(2) \cup Simple \cup Variants \cup Compounds \cup Floats)
  \cup Reports \cup Messages \cup Of("zcl", Frames) \cup ZclVariants

IntRangeCases == Of("json", OthersThanInts({1, 2}))
WideMapCases  == Of("json", Maps({5}))
WideIntCases  == Of("json", Uints("uint", {LongBytes})
                   \cup {c \in Ints({LongBytes}) : Represents(c[1], c[2])})
NarrowedCases ==
  LET n == Num(2^(ByteBits * IntBytes) + 1)
  IN Of("json", {<<T("enum", 1), n>>, <<T("enum", 2), n>>, <<T("attribId", 2), n>>,
                 <<T("data", 1), Arr(<<n>>)>>, <<T("octstr", 1), Arr(<<n>>)>>})
BigFloatCases == Of("json", {<<Semi, v>> : v \in TopBinade(Semi)})
=============================================================================
