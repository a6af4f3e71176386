----------------------------- MODULE ZnpEncoding ----------------------------
(***************************************************************************)
(* znp/encoding.h: the bytes of the requests, replies and events of the      *)
(* dongle (EncodeHelper, little endian), and FloatEncodeHelper, which the     *)
(* encoders of ZCL use for floating-point numbers.                           *)
(*                                                                         *)
(* A byte has ByteBits bits (8 in the program), so that TLC can go through    *)
(* the boundaries.  An enum is written as the integer under it, a struct as   *)
(* the tuple of its fields.                                                 *)
(***************************************************************************)
EXTENDS Integers, Sequences, SequencesExt, FiniteSets, FiniteSetsExt

CONSTANTS
  ByteBits,
  DataTypes,    \* the data types of ZCL that have an identifier
  Failed        \* an exception

ASSUME ByteAssumption == ByteBits \in Nat \ {0}

Byte == 2^ByteBits

\* A type identifier is one byte, written as the place of the type in DataTypes.
TypeId(t) == CHOOSE i \in DOMAIN DataTypes : DataTypes[i] = t

\* Values, told apart by their field.
Null == [null |-> TRUE]
Num(n)  == [num |-> n]
Flag(b) == [flag |-> b]
Str(s)  == [str |-> s]
Arr(s)  == [arr |-> s]
Obj(f)  == [obj |-> f]
Is(v, field) == field \in DOMAIN v

\* Little endian: the bytes of an unsigned number, and the number of bytes.
ToBytes(u, bytes) == [i \in 1 .. bytes |-> (u \div 2^(ByteBits * (i - 1))) % Byte]
FromBytes(data) == FoldFunctionOnSet(+, 0, [i \in DOMAIN data |->
                     data[i] * 2^(ByteBits * (i - 1))], DOMAIN data)

\* Encodings one after the other.
Join(parts) ==
  IF \E i \in DOMAIN parts : parts[i] = Failed THEN Failed ELSE FlattenSeq(parts)

\* A value and the data behind it.
Got(v, rest) == [value |-> v, rest |-> rest]
Then(r, F(_)) == IF r = Failed THEN Failed ELSE Got(F(r.value), r.rest)

-----------------------------------------------------------------------------
(* EncodeHelper: GetSize, Encode and Decode for each kind of type.           *)

Uint(bytes) == [t |-> "uint", bytes |-> bytes]
Tuple(fields) == [t |-> "tuple", fields |-> fields]
Vector(element) == [t |-> "vector", element |-> element]
Array(n, element) == [t |-> "std_array", n |-> n, element |-> element]

\* What follows the address mode of a BindTarget (NotPresent, Group, ShortAddress,
\* IEEEAddress and Broadcast).
BindModes == (0 :> <<>>) @@ (1 :> <<Uint(2)>>) @@ (2 :> <<Uint(2)>>)
             @@ (3 :> <<Uint(8), Uint(1)>>) @@ (Byte - 1 :> <<>>)

\* The parts of a type that holds others, for a value of it.
Parts(t, v) ==
  CASE t.t = "tuple" -> t.fields
    [] t.t \in {"std_array", "vector"} -> [i \in DOMAIN v.arr |-> t.element]
    [] t.t = "BindTarget" -> <<Uint(1)>> \o BindModes[v.arr[1].num]

RECURSIVE GetSize(_, _)
GetSize(t, v) ==
  CASE t.t \in {"uint", "int", "bitset"} -> t.bytes
    [] t.t = "boolean" -> 1
    [] OTHER -> LET parts == Parts(t, v)
                    sizes == [i \in DOMAIN parts |-> GetSize(parts[i], v.arr[i])]
                IN FoldFunctionOnSet(+, 0, sizes, DOMAIN sizes)
                   + (IF t.t = "vector" THEN 1 ELSE 0)

RECURSIVE EncodeHelper(_, _)
EncodeHelper(t, v) ==
  CASE t.t = "uint" -> ToBytes(v.num, t.bytes)
    [] t.t = "int" -> ToBytes(v.num % 2^(ByteBits * t.bytes), t.bytes)
    [] t.t = "boolean" -> <<IF v.flag THEN 1 ELSE 0>>
    [] t.t = "bitset" -> ToBytes(FoldSet(+, 0, {2^(i - 1) : i \in {j \in DOMAIN v.arr : v.arr[j].flag}}),
                                 t.bytes)
    [] t.t = "vector" /\ Len(v.arr) > Byte - 1 -> Failed
    [] OTHER -> LET parts == Parts(t, v)
                IN Join((IF t.t = "vector" THEN <<<<Len(v.arr)>>>> ELSE <<>>)
                        \o [i \in DOMAIN parts |-> EncodeHelper(parts[i], v.arr[i])])

\* Encode: exactly the bytes that GetSize reserved must be written.
ZnpEncode(t, v) ==
  LET bytes == EncodeHelper(t, v)
  IN IF bytes = Failed \/ Len(bytes) # GetSize(t, v) THEN Failed ELSE bytes

RECURSIVE DecodeHelper(_, _)
\* One value of each type of a sequence.
RECURSIVE DecodeParts(_, _)
DecodeParts(types, data) ==
  IF types = <<>> THEN Got(<<>>, data)
  ELSE LET first == DecodeHelper(Head(types), data)
       IN IF first = Failed THEN Failed
          ELSE Then(DecodeParts(Tail(types), first.rest), LAMBDA s : <<first.value>> \o s)

DecodeUint(bytes, data) ==
  IF Len(data) < bytes THEN Failed
  ELSE Got(FromBytes(SubSeq(data, 1, bytes)), SubSeq(data, bytes + 1, Len(data)))

DecodeHelper(t, data) ==
  CASE t.t = "uint" -> Then(DecodeUint(t.bytes, data), Num)
    [] t.t = "int" -> Then(DecodeUint(t.bytes, data), LAMBDA u :
         Num(IF u >= 2^(ByteBits * t.bytes - 1) THEN u - 2^(ByteBits * t.bytes) ELSE u))
    [] t.t = "boolean" -> Then(DecodeUint(1, data), LAMBDA u : Flag(u > 0))
    [] t.t = "bitset" -> Then(DecodeUint(t.bytes, data), LAMBDA u :
         Arr([i \in 1 .. t.bytes * ByteBits |-> Flag((u \div 2^(i - 1)) % 2 = 1)]))
    [] t.t = "tuple" -> Then(DecodeParts(t.fields, data), Arr)
    [] t.t = "std_array" -> Then(DecodeParts([i \in 1 .. t.n |-> t.element], data), Arr)
    [] t.t = "vector" ->
         IF data = <<>> THEN Failed
         ELSE Then(DecodeParts([i \in 1 .. Head(data) |-> t.element], Tail(data)), Arr)
    [] t.t = "BindTarget" ->
         IF data = <<>> \/ Head(data) \notin DOMAIN BindModes THEN Failed
         ELSE Then(DecodeParts(<<Uint(1)>> \o BindModes[Head(data)], data), Arr)

\* DecodePartial leaves what it does not need; Decode refuses it.
ZnpDecode(t, data, partial) ==
  LET r == DecodeHelper(t, data)
  IN IF r # Failed /\ r.rest # <<>> /\ ~partial THEN Failed ELSE r

-----------------------------------------------------------------------------
(* Floating point: man bits of mantissa, exp bits of exponent, a sign.  The   *)
(* C++ number has prec bits; it is (-1)^neg * n * 2^e with n odd or 0.        *)

Float(class, neg, n, e) == [float |-> [class |-> class, neg |-> neg, n |-> n, e |-> e]]
NaN      == Float("nan", FALSE, 0, 0)
Inf(neg) == Float("inf", neg, 0, 0)

RECURSIVE Finite(_, _, _)
Finite(neg, n, e) ==
  IF n = 0 THEN Float("finite", neg, 0, 0)
  ELSE IF n % 2 = 0 THEN Finite(neg, n \div 2, e + 1) ELSE Float("finite", neg, n, e)

\* n * 2^e rounded to the nearest whole number, halves up: std::round.
Rounded(n, e) == IF e >= 0 THEN n * 2^e ELSE (n + 2^(-e - 1)) \div 2^(-e)

\* k with 2^k <= n < 2^(k+1).
FloorLog2(n) == CHOOSE k \in 0 .. n : 2^k <= n /\ n < 2^(k + 1)

\* std::log2 gives a number of prec bits, and so gives k itself for a number so
\* close below 2^k that k is nearer than its neighbour: the logarithm of a number
\* w units in the last place below 2^k is 1.44 * w / 2^prec less than k.
Log2RoundsUp(x, prec) ==
  LET k == FloorLog2(x.n) + x.e + 1
      size == IF k < 0 THEN -k ELSE k
      units == (2^(k - x.e) - x.n) * 2^prec      \* times 2^(k - x.e)
      half == IF k > 0 /\ k = 2^FloorLog2(k) THEN 2^FloorLog2(k) \div 2
              ELSE 2^FloorLog2(size)
  IN k # 0 /\ 144 * units < 100 * half * 2^(k - x.e)

SignedExponent(x, prec) ==
  FloorLog2(x.n) + x.e + (IF Log2RoundsUp(x, prec) THEN 1 ELSE 0)

FloatBits(t, neg, exponent, mantissa) ==
  (IF neg THEN 2^(t.man + t.exp) ELSE 0) + exponent * 2^t.man + mantissa

\* A number that is not 0: its exponent, and its mantissa without the hidden bit.
EncodeFinite(t, x) ==
  LET signed_exponent == SignedExponent(x, t.prec)
      half_exponent_range == (2^t.exp - 1) \div 2
      unsigned_exponent == signed_exponent + half_exponent_range
      hidden == 2^t.man
      mantissa == Rounded(x.n, x.e - signed_exponent + t.man) - hidden
  IN CASE unsigned_exponent >= 2^t.exp -> FloatBits(t, x.neg, 2^t.exp - 2, hidden - 1)
       [] unsigned_exponent <= 0 ->
            FloatBits(t, x.neg, 0, Rounded(x.n, x.e + half_exponent_range - 1 + t.man))
       [] OTHER -> IF FloorLog2(x.n) + x.e < signed_exponent THEN Failed
                   ELSE FloatBits(t, x.neg, unsigned_exponent,
                          IF mantissa >= hidden THEN hidden - 1 ELSE mantissa)

EncodeFloat(t, v) ==
  LET x == v.float
      bits == CASE x.class = "nan" -> FloatBits(t, FALSE, 2^t.exp - 1, 1)
                [] x.class = "inf" -> FloatBits(t, x.neg, 2^t.exp - 1, 0)
                [] x.n = 0 -> FloatBits(t, x.neg, 0, 0)
                [] OTHER -> EncodeFinite(t, x)
  IN IF bits = Failed THEN Failed ELSE ToBytes(bits, t.bytes)

DecodeFloat(t, data) ==
  LET raw == FromBytes(SubSeq(data, 1, t.bytes))
      neg == raw \div 2^(t.man + t.exp) # 0
      exponent == (raw \div 2^t.man) % 2^t.exp
      mantissa == raw % 2^t.man
      half_exponent == 2^(t.exp - 1) - 1
      value == CASE exponent = 2^t.exp - 1 -> IF mantissa # 0 THEN NaN ELSE Inf(neg)
                 [] exponent = 0 -> Finite(neg, mantissa, 1 - half_exponent - t.man)
                 [] OTHER -> Finite(neg, 2^t.man + mantissa, exponent - half_exponent - t.man)
  IN IF Len(data) < t.bytes THEN Failed
     ELSE Got(value, SubSeq(data, t.bytes + 1, Len(data)))
=============================================================================
