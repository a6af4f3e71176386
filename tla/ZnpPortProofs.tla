---------------------------- MODULE ZnpPortProofs ----------------------------
(***************************************************************************)
(* Theorems about ZnpPort.tla, for any frames and any stray or changed bytes. *)
(***************************************************************************)
EXTENDS ZnpPort, ListLemmas

-----------------------------------------------------------------------------
(* The checksum.                                                            *)

\* The parities of the prefixes, as the definition of Parity computes them.
Parities(bytes, bit, n) ==
  CHOOSE f : f = [i \in 0 .. n |->
    IF i = 0 THEN 0 ELSE (f[i - 1] + bytes[i] \div bit) % 2]

\* There is a function with the recursive definition of Parity.
LEMMA ParitiesExist ==
  ASSUME NEW bytes, NEW bit, NEW n \in Nat
  PROVE  Parities(bytes, bit, n) = [i \in 0 .. n |->
           IF i = 0 THEN 0
           ELSE (Parities(bytes, bit, n)[i - 1] + bytes[i] \div bit) % 2]
<1> DEFINE Odd(x, i) == (x + bytes[i] \div bit) % 2
           Eq(f, m) == f = [i \in 0 .. m |-> IF i = 0 THEN 0 ELSE Odd(f[i - 1], i)]
           N == {m \in Nat : \E f : Eq(f, m)}
<1> HIDE DEF Odd
<1>1. 0 \in N
  <2> DEFINE f == [i \in 0 .. 0 |-> 0]
  <2>1. Eq(f, 0)
    OBVIOUS
  <2> QED BY <2>1
<1>2. ASSUME NEW m \in Nat, m \in N
      PROVE  m + 1 \in N
  <2>1. PICK f : Eq(f, m)
    BY <1>2
  <2> DEFINE last == Odd(f[m], m + 1)
             g == [i \in 0 .. m + 1 |-> IF i = m + 1 THEN last ELSE f[i]]
  <2>2. \A i \in 0 .. m : f[i] = IF i = 0 THEN 0 ELSE Odd(f[i - 1], i)
    BY <2>1
  <2> HIDE DEF last
  <2>3. ASSUME NEW i \in 0 .. m + 1
        PROVE  g[i] = IF i = 0 THEN 0 ELSE Odd(g[i - 1], i)
    <3>1. CASE i = m + 1
      <4>1. g[i - 1] = f[m] /\ g[i] = last /\ i # 0
        BY <3>1
      <4> QED BY <3>1, <4>1 DEF last
    <3>2. CASE i \in 0 .. m /\ i # 0
      <4>1. i - 1 \in 0 .. m /\ i - 1 # m + 1 /\ i # m + 1 /\ i - 1 \in 0 .. m + 1
        BY <3>2
      <4>2. g[i - 1] = f[i - 1] /\ g[i] = f[i]
        BY <4>1
      <4> QED BY <2>2, <3>2, <4>2
    <3>3. CASE i = 0
      <4>1. g[0] = f[0]
        OBVIOUS
      <4> QED BY <2>2, <3>3, <4>1
    <3> QED BY <3>1, <3>2, <3>3
  <2>4. Eq(g, m + 1)
    BY <2>3
  <2> HIDE DEF Eq, g
  <2> QED BY <2>4
<1> HIDE DEF N
<1>3. n \in N
  BY <1>1, <1>2, Induction
<1>4. \E f : Eq(f, n)
  BY <1>3 DEF N
<1>5. Parities(bytes, bit, n) = CHOOSE f : Eq(f, n)
  BY DEF Parities, Odd
<1>6. Eq(Parities(bytes, bit, n), n)
  <2> HIDE DEF Eq
  <2> QED BY <1>4, <1>5
<1> QED BY <1>6 DEF Odd

\* A byte is a number.
LEMMA ByteIsNat == \A b \in Byte : b \in Nat /\ b <= 255
  BY DEF Byte

\* The parities of the prefixes are bits, each that of the prefix before it and one
\* byte more; the last is the parity of the whole.
LEMMA ParityByPrefixes ==
  ASSUME NEW bytes \in Seq(Byte), NEW bit \in Nat \ {0}
  PROVE  LET f == Parities(bytes, bit, Len(bytes))
         IN /\ Parity(bytes, bit) = f[Len(bytes)] /\ f[0] = 0
            /\ \A i \in 1 .. Len(bytes) : f[i] = (f[i - 1] + bytes[i] \div bit) % 2
            /\ \A i \in 0 .. Len(bytes) : f[i] \in {0, 1}
<1> DEFINE f == Parities(bytes, bit, Len(bytes))
           N == {i \in Nat : i <= Len(bytes) => f[i] \in {0, 1}}
<1>1. Parity(bytes, bit) = f[Len(bytes)]
  BY DEF Parity, Parities
<1>2. Len(bytes) \in Nat
  BY LenProperties
<1>3. f = [i \in 0 .. Len(bytes) |->
        IF i = 0 THEN 0 ELSE (f[i - 1] + bytes[i] \div bit) % 2]
  BY <1>2, ParitiesExist
<1> HIDE DEF f
<1>4. PICK g : /\ f = g
               /\ g = [i \in 0 .. Len(bytes) |->
                    IF i = 0 THEN 0 ELSE (g[i - 1] + bytes[i] \div bit) % 2]
  BY <1>3
<1>5. \A i \in 0 .. Len(bytes) :
        g[i] = IF i = 0 THEN 0 ELSE (g[i - 1] + bytes[i] \div bit) % 2
  BY <1>4
<1>6. /\ f[0] = 0
      /\ \A i \in 1 .. Len(bytes) : f[i] = (f[i - 1] + bytes[i] \div bit) % 2
  BY <1>2, <1>4, <1>5
<1>7. ASSUME NEW i \in Nat, i \in N
      PROVE  i + 1 \in N
  <2> SUFFICES ASSUME i + 1 <= Len(bytes)
               PROVE  f[i + 1] \in {0, 1}
    OBVIOUS
  <2>1. i + 1 \in 1 .. Len(bytes) /\ (i + 1) - 1 = i /\ f[i] \in {0, 1}
    BY <1>2, <1>7
  <2>2. bytes[i + 1] \in Nat
    <3>1. bytes[i + 1] \in Byte
      BY <2>1, ElementOfSeq
    <3> QED BY <3>1, ByteIsNat
  <2>3. bytes[i + 1] \div bit \in Nat
    BY <2>2
  <2>4. PICK q \in Nat : q = bytes[i + 1] \div bit
    BY <2>3
  <2>5. (f[i] + q) % 2 \in {0, 1}
    BY <2>1
  <2>6. f[i + 1] = (f[i] + q) % 2
    BY <1>6, <2>1, <2>4
  <2> QED BY <2>5, <2>6
<1>8. 0 \in N
  BY <1>6
<1> HIDE DEF N
<1>9. Nat \subseteq N
  BY <1>7, <1>8, Induction
<1>10. \A i \in 0 .. Len(bytes) : f[i] \in {0, 1}
  BY <1>2, <1>9 DEF N
<1> QED BY <1>1, <1>6, <1>10 DEF f

\* A parity is a bit.
LEMMA ParityType ==
  ASSUME NEW bytes \in Seq(Byte), NEW bit \in Nat \ {0}
  PROVE  Parity(bytes, bit) \in {0, 1}
<1>1. Len(bytes) \in 0 .. Len(bytes)
  BY LenProperties
<1> QED BY <1>1, ParityByPrefixes

\* The parity of a sum with a bit: the bit decides, and the other summand does.
LEMMA Modulo ==
  ASSUME NEW x \in {0, 1}, NEW y \in {0, 1}, NEW p \in Nat, NEW q \in Nat
  PROVE  /\ (x + p) % 2 # (y + p) % 2 <=> x # y
         /\ p % 2 # q % 2 => (x + p) % 2 # (x + q) % 2
<1>1. ASSUME NEW n \in Nat
      PROVE  (0 + n) % 2 = n % 2 /\ (1 + n) % 2 = 1 - (n % 2) /\ n % 2 \in {0, 1}
  OBVIOUS
<1>2. PICK a \in {0, 1} : p % 2 = a /\ (0 + p) % 2 = a /\ (1 + p) % 2 = 1 - a
  BY <1>1
<1>3. PICK b \in {0, 1} : q % 2 = b /\ (0 + q) % 2 = b /\ (1 + q) % 2 = 1 - b
  BY <1>1
<1>4. CASE x = 0 /\ y = 0
  BY <1>2, <1>3, <1>4
<1>5. CASE x = 0 /\ y = 1
  BY <1>2, <1>3, <1>5
<1>6. CASE x = 1 /\ y = 0
  BY <1>2, <1>3, <1>6
<1>7. CASE x = 1 /\ y = 1
  BY <1>2, <1>3, <1>7
<1> QED BY <1>4, <1>5, <1>6, <1>7

\* A bit changed in one byte changes the parity of that bit.
LEMMA ParityChanges ==
  ASSUME NEW s \in Seq(Byte), NEW t \in Seq(Byte), Len(s) = Len(t),
         NEW bit \in Nat \ {0}, NEW k \in 1 .. Len(s),
         \A i \in 1 .. Len(s) : i # k => s[i] = t[i],
         (s[k] \div bit) % 2 # (t[k] \div bit) % 2
  PROVE  Parity(s, bit) # Parity(t, bit)
<1> DEFINE f == Parities(s, bit, Len(s))
           g == Parities(t, bit, Len(t))
           N == {i \in Nat : i <= Len(s) => (f[i] # g[i] <=> k <= i)}
<1>1. /\ Parity(s, bit) = f[Len(s)] /\ f[0] = 0
      /\ \A i \in 1 .. Len(s) : f[i] = (f[i - 1] + s[i] \div bit) % 2
      /\ \A i \in 0 .. Len(s) : f[i] \in {0, 1}
  BY ParityByPrefixes
<1>2. /\ Parity(t, bit) = g[Len(s)] /\ g[0] = 0
      /\ \A i \in 1 .. Len(s) : g[i] = (g[i - 1] + t[i] \div bit) % 2
      /\ \A i \in 0 .. Len(s) : g[i] \in {0, 1}
  BY ParityByPrefixes
<1>3. Len(s) \in Nat /\ k \in Nat /\ k # 0
  BY LenProperties
<1> HIDE DEF f, g
<1>4. 0 \in N
  BY <1>1, <1>2, <1>3
<1>5. ASSUME NEW i \in Nat, i \in N
      PROVE  i + 1 \in N
  <2> SUFFICES ASSUME i + 1 <= Len(s)
               PROVE  f[i + 1] # g[i + 1] <=> k <= i + 1
    OBVIOUS
  <2>1. /\ i + 1 \in 1 .. Len(s) /\ (i + 1) - 1 = i /\ i \in 0 .. Len(s)
        /\ f[i] # g[i] <=> k <= i
    BY <1>3, <1>5
  <2>2. s[i + 1] \in Nat /\ t[i + 1] \in Nat
    <3>1. s[i + 1] \in Byte /\ t[i + 1] \in Byte
      BY <2>1, ElementOfSeq
    <3> QED BY <3>1, ByteIsNat
  <2>3. \A n \in Nat : n \div bit \in Nat
    OBVIOUS
  <2>4. PICK p \in Nat : p = s[i + 1] \div bit
    BY <2>2, <2>3
  <2>5. PICK q \in Nat : q = t[i + 1] \div bit
    BY <2>2, <2>3
  <2>6. f[i + 1] = (f[i] + p) % 2 /\ g[i + 1] = (g[i] + q) % 2
    BY <1>1, <1>2, <2>1, <2>4, <2>5
  <2>7. f[i] \in {0, 1} /\ g[i] \in {0, 1}
    BY <1>1, <1>2, <2>1
  <2>8. CASE k = i + 1
    <3>1. p % 2 # q % 2 /\ f[i] = g[i]
      BY <1>3, <2>1, <2>4, <2>5, <2>8
    <3>2. (f[i] + p) % 2 # (f[i] + q) % 2
      <4>1. PICK x \in {0, 1} : x = f[i] /\ x = g[i]
        BY <2>7, <3>1
      <4>2. (x + p) % 2 # (x + q) % 2
        BY <3>1, Modulo
      <4> QED BY <4>1, <4>2
    <3> QED BY <1>3, <2>6, <2>8, <3>1, <3>2
  <2>9. CASE k # i + 1
    <3>1. p = q
      BY <2>1, <2>4, <2>5, <2>9
    <3>2. (f[i] + p) % 2 # (g[i] + p) % 2 <=> f[i] # g[i]
      BY <2>7, Modulo
    <3> QED BY <1>3, <2>1, <2>6, <2>9, <3>1, <3>2
  <2> QED BY <2>8, <2>9
<1> HIDE DEF N
<1>6. Len(s) \in N
  BY <1>3, <1>4, <1>5, Induction
<1> QED BY <1>1, <1>2, <1>3, <1>6 DEF N

Bits == {1, 2, 4, 8, 16, 32, 64, 128}

\* Different bytes differ in a bit.
LEMMA BytesDiffer ==
  ASSUME NEW b \in Byte, NEW c \in Byte, b # c
  PROVE  \E bit \in Bits : (b \div bit) % 2 # (c \div bit) % 2
<1>1. ASSUME NEW x \in Byte
      PROVE  x = ((x \div 1) % 2) + 2 * ((x \div 2) % 2) + 4 * ((x \div 4) % 2)
                 + 8 * ((x \div 8) % 2) + 16 * ((x \div 16) % 2)
                 + 32 * ((x \div 32) % 2) + 64 * ((x \div 64) % 2)
                 + 128 * ((x \div 128) % 2)
  BY SMTT(60) DEF Byte
<1> SUFFICES ASSUME \A bit \in Bits : (b \div bit) % 2 = (c \div bit) % 2
             PROVE  FALSE
  OBVIOUS
<1>2. /\ (b \div 1) % 2 = (c \div 1) % 2 /\ (b \div 2) % 2 = (c \div 2) % 2
      /\ (b \div 4) % 2 = (c \div 4) % 2 /\ (b \div 8) % 2 = (c \div 8) % 2
      /\ (b \div 16) % 2 = (c \div 16) % 2 /\ (b \div 32) % 2 = (c \div 32) % 2
      /\ (b \div 64) % 2 = (c \div 64) % 2 /\ (b \div 128) % 2 = (c \div 128) % 2
  BY DEF Bits
<1> QED BY <1>1, <1>2

\* The checksum, with the parities in place.
LEMMA ChecksumSum ==
  ASSUME NEW bytes
  PROVE  Checksum(bytes) =
           1 * Parity(bytes, 1) + 2 * Parity(bytes, 2) + 4 * Parity(bytes, 4)
           + 8 * Parity(bytes, 8) + 16 * Parity(bytes, 16) + 32 * Parity(bytes, 32)
           + 64 * Parity(bytes, 64) + 128 * Parity(bytes, 128)
  BY Zenon DEF Checksum

\* A checksum is a byte.
LEMMA ChecksumType ==
  ASSUME NEW bytes \in Seq(Byte)
  PROVE  Checksum(bytes) \in Byte
<1>1. \A bit \in Bits : Parity(bytes, bit) \in {0, 1}
  BY ParityType DEF Bits
<1>2. PICK a1, a2, a3, a4, a5, a6, a7, a8 \in 0 .. 1 :
        /\ a1 = Parity(bytes, 1) /\ a2 = Parity(bytes, 2) /\ a3 = Parity(bytes, 4)
        /\ a4 = Parity(bytes, 8) /\ a5 = Parity(bytes, 16) /\ a6 = Parity(bytes, 32)
        /\ a7 = Parity(bytes, 64) /\ a8 = Parity(bytes, 128)
  BY <1>1 DEF Bits
<1>3. Checksum(bytes) = 1 * a1 + 2 * a2 + 4 * a3 + 8 * a4 + 16 * a5 + 32 * a6
                        + 64 * a7 + 128 * a8
  BY <1>2, ChecksumSum
<1>4. 1 * a1 + 2 * a2 + 4 * a3 + 8 * a4 + 16 * a5 + 32 * a6 + 64 * a7 + 128 * a8
      \in 0 .. 255
  OBVIOUS
<1> QED BY <1>3, <1>4 DEF Byte

\* A checksum has the parities for its bits, so it tells them apart.
LEMMA ChecksumDiffers ==
  ASSUME NEW s \in Seq(Byte), NEW t \in Seq(Byte),
         NEW bit \in Bits, Parity(s, bit) # Parity(t, bit)
  PROVE  Checksum(s) # Checksum(t)
<1>1. \A b \in Bits : Parity(s, b) \in {0, 1} /\ Parity(t, b) \in {0, 1}
  BY ParityType DEF Bits
<1> SUFFICES ASSUME Checksum(s) = Checksum(t)
             PROVE  \A b \in Bits : Parity(s, b) = Parity(t, b)
  OBVIOUS
<1>2. PICK a1, a2, a3, a4, a5, a6, a7, a8 \in 0 .. 1 :
        /\ a1 = Parity(s, 1) /\ a2 = Parity(s, 2) /\ a3 = Parity(s, 4)
        /\ a4 = Parity(s, 8) /\ a5 = Parity(s, 16) /\ a6 = Parity(s, 32)
        /\ a7 = Parity(s, 64) /\ a8 = Parity(s, 128)
  BY <1>1, SMTT(30) DEF Bits
<1>3. PICK b1, b2, b3, b4, b5, b6, b7, b8 \in 0 .. 1 :
        /\ b1 = Parity(t, 1) /\ b2 = Parity(t, 2) /\ b3 = Parity(t, 4)
        /\ b4 = Parity(t, 8) /\ b5 = Parity(t, 16) /\ b6 = Parity(t, 32)
        /\ b7 = Parity(t, 64) /\ b8 = Parity(t, 128)
  BY <1>1, SMTT(30) DEF Bits
<1>4. 1 * a1 + 2 * a2 + 4 * a3 + 8 * a4 + 16 * a5 + 32 * a6 + 64 * a7 + 128 * a8
      = 1 * b1 + 2 * b2 + 4 * b3 + 8 * b4 + 16 * b5 + 32 * b6 + 64 * b7 + 128 * b8
  BY <1>2, <1>3, ChecksumSum
<1>5. /\ a1 = b1 /\ a2 = b2 /\ a3 = b3 /\ a4 = b4
      /\ a5 = b5 /\ a6 = b6 /\ a7 = b7 /\ a8 = b8
  BY <1>4
<1> QED BY <1>2, <1>3, <1>5, SMTT(30) DEF Bits

\* Changing one byte changes the checksum.
LEMMA ChecksumChanges ==
  ASSUME NEW s \in Seq(Byte), NEW t \in Seq(Byte), Len(s) = Len(t),
         NEW k \in 1 .. Len(s), s[k] # t[k],
         \A i \in 1 .. Len(s) : i # k => s[i] = t[i]
  PROVE  Checksum(s) # Checksum(t)
<1>1. s[k] \in Byte /\ t[k] \in Byte
  BY ElementOfSeq
<1>2. PICK bit \in Bits : (s[k] \div bit) % 2 # (t[k] \div bit) % 2
  BY <1>1, BytesDiffer
<1>3. bit \in Nat \ {0}
  BY DEF Bits
<1>4. Parity(s, bit) # Parity(t, bit)
  BY <1>2, <1>3, ParityChanges
<1> QED BY <1>4, ChecksumDiffers



-----------------------------------------------------------------------------
(* One frame.                                                               *)

\* The frames SendFrame accepts, and what it queues for them.
Sent == {f \in Frame : Len(f.payload) <= 255}
Encoded == {Encode(f) : f \in Sent}
Size(f) == Len(f.payload) + 5

\* The bytes the checksum is about.
Body(f) == <<Len(f.payload), f.type * 16 + f.subsystem, f.command>> \o f.payload

\* The fields of a frame and their sizes.
LEMMA SentFields ==
  ASSUME NEW f \in Sent
  PROVE  /\ f \in Frame
         /\ f \in [type : 0 .. 15, subsystem : 0 .. 15, command : Byte, payload : Seq(Byte)]
         /\ f.type \in 0 .. 15 /\ f.subsystem \in 0 .. 15 /\ f.command \in Byte
         /\ f.payload \in Seq(Byte) /\ Len(f.payload) \in 0 .. 255
<1>1. f \in Frame /\ Len(f.payload) <= 255
  BY DEF Sent
<1>2. f \in [type : 0 .. 15, subsystem : 0 .. 15, command : Byte, payload : Seq(Byte)]
  BY <1>1, FrameAssumption
<1>3. /\ f.type \in 0 .. 15 /\ f.subsystem \in 0 .. 15 /\ f.command \in Byte
      /\ f.payload \in Seq(Byte)
  BY <1>2
<1>4. Len(f.payload) \in Nat
  BY <1>3, LenProperties
<1>5. Len(f.payload) \in 0 .. 255
  <2>1. PICK n \in Nat : n = Len(f.payload)
    BY <1>4
  <2>2. n <= 255
    BY <1>1, <2>1
  <2>3. n \in 0 .. 255
    BY <2>2
  <2> QED BY <2>1, <2>3
<1> QED BY <1>1, <1>2, <1>3, <1>5

\* A list of bytes made of two.
LEMMA Joined ==
  ASSUME NEW s \in Seq(Byte), NEW t \in Seq(Byte)
  PROVE  /\ s \o t \in Seq(Byte) /\ Len(s \o t) = Len(s) + Len(t)
         /\ \A i \in 1 .. Len(s) : (s \o t)[i] = s[i]
         /\ \A i \in 1 .. Len(t) : (s \o t)[Len(s) + i] = t[i]
<1>1. /\ s \o t \in Seq(Byte)
      /\ Len(s \o t) = Len(s) + Len(t)
      /\ \A i \in 1 .. Len(s) + Len(t) :
           (s \o t)[i] = IF i <= Len(s) THEN s[i] ELSE t[i - Len(s)]
  BY ConcatProperties
<1>2. PICK m \in Nat : m = Len(s)
  BY LenProperties
<1>3. PICK n \in Nat : n = Len(t)
  BY LenProperties
<1> DEFINE c == s \o t
<1>4. /\ c \in Seq(Byte) /\ Len(c) = m + n
      /\ \A i \in 1 .. m + n : c[i] = IF i <= m THEN s[i] ELSE t[i - m]
  BY <1>1, <1>2, <1>3
<1> HIDE DEF c
<1>5. \A i \in 1 .. m : c[i] = s[i]
  BY <1>4
<1>6. ASSUME NEW i \in 1 .. n
      PROVE  c[m + i] = t[i]
  <2>1. m + i \in 1 .. m + n /\ ~(m + i <= m) /\ (m + i) - m = i
    OBVIOUS
  <2> QED BY <1>4, <2>1
<1>7. /\ c \in Seq(Byte) /\ Len(c) = Len(s) + Len(t)
      /\ \A i \in 1 .. Len(s) : c[i] = s[i]
      /\ \A i \in 1 .. Len(t) : c[Len(s) + i] = t[i]
  BY <1>2, <1>3, <1>4, <1>5, <1>6
<1> QED BY <1>7 DEF c

\* Where the fields are in the bytes the checksum is about.
LEMMA BodyBytes ==
  ASSUME NEW f \in Sent
  PROVE  /\ Body(f) \in Seq(Byte) /\ Len(Body(f)) = Len(f.payload) + 3
         /\ Body(f)[1] = Len(f.payload)
         /\ Body(f)[2] = f.type * 16 + f.subsystem /\ Body(f)[3] = f.command
         /\ \A i \in 1 .. Len(f.payload) : Body(f)[i + 3] = f.payload[i]
<1>1. /\ f.type \in 0 .. 15 /\ f.subsystem \in 0 .. 15 /\ f.command \in Byte
      /\ f.payload \in Seq(Byte) /\ Len(f.payload) \in 0 .. 255
  BY SentFields
<1> DEFINE head == <<Len(f.payload), f.type * 16 + f.subsystem, f.command>>
<1>2. Len(f.payload) \in Byte
  BY <1>1 DEF Byte
<1>3. f.type * 16 + f.subsystem \in Byte
  <2>1. PICK t \in 0 .. 15 : t = f.type
    BY <1>1
  <2>2. PICK u \in 0 .. 15 : u = f.subsystem
    BY <1>1
  <2>3. t * 16 + u \in 0 .. 255
    OBVIOUS
  <2> QED BY <2>1, <2>2, <2>3 DEF Byte
<1>4. head \in Seq(Byte) /\ Len(head) = 3
  BY <1>1, <1>2, <1>3
<1>5. /\ head[1] = Len(f.payload) /\ head[2] = f.type * 16 + f.subsystem
      /\ head[3] = f.command
  OBVIOUS
<1>6. Body(f) = head \o f.payload
  BY DEF Body
<1> HIDE DEF head
<1>7. PICK n \in 0 .. 255 : n = Len(f.payload)
  BY <1>1
<1>8. /\ Body(f) \in Seq(Byte) /\ Len(Body(f)) = 3 + n
      /\ \A i \in 1 .. 3 : Body(f)[i] = head[i]
      /\ \A i \in 1 .. n : Body(f)[3 + i] = f.payload[i]
  <2>1. /\ head \o f.payload \in Seq(Byte) /\ Len(head \o f.payload) = Len(head) + Len(f.payload)
        /\ \A i \in 1 .. Len(head) : (head \o f.payload)[i] = head[i]
        /\ \A i \in 1 .. Len(f.payload) : (head \o f.payload)[Len(head) + i] = f.payload[i]
    BY <1>1, <1>4, Joined, Zenon
  <2>2. /\ Body(f) \in Seq(Byte) /\ Len(Body(f)) = Len(head) + Len(f.payload)
        /\ \A i \in 1 .. Len(head) : Body(f)[i] = head[i]
        /\ \A i \in 1 .. Len(f.payload) : Body(f)[Len(head) + i] = f.payload[i]
    BY <1>6, <2>1, Zenon
  <2> QED BY <1>4, <1>7, <2>2
<1>9. /\ Body(f)[1] = head[1] /\ Body(f)[2] = head[2] /\ Body(f)[3] = head[3]
      /\ \A i \in 1 .. n : Body(f)[i + 3] = f.payload[i]
      /\ Len(Body(f)) = n + 3
  BY <1>8
<1> QED BY <1>5, <1>7, <1>8, <1>9

\* An encoded frame is the marker, these bytes and their checksum.
LEMMA EncodeBytes ==
  ASSUME NEW f \in Sent
  PROVE  /\ Encode(f) \in Seq(Byte) /\ Len(Encode(f)) = Size(f) /\ Size(f) \in 5 .. 260
         /\ Encode(f)[1] = SOF /\ Encode(f)[Size(f)] = Checksum(Body(f))
         /\ \A i \in 1 .. Len(Body(f)) : Encode(f)[i + 1] = Body(f)[i]
<1>1. Body(f) \in Seq(Byte) /\ Len(Body(f)) = Len(f.payload) + 3
  BY BodyBytes
<1>2. Len(f.payload) \in 0 .. 255
  BY SentFields
<1>3. PICK n \in 0 .. 255 : n = Len(f.payload)
  BY <1>2
<1>4. Len(Body(f)) = n + 3 /\ Size(f) = n + 5
  BY <1>1, <1>3 DEF Size
<1> DEFINE last == <<Checksum(Body(f))>>
           first == <<SOF>>
<1>5. last \in Seq(Byte) /\ Len(last) = 1 /\ last[1] = Checksum(Body(f))
  BY <1>1, ChecksumType
<1>6. first \in Seq(Byte) /\ Len(first) = 1 /\ first[1] = SOF
  <2>1. SOF \in Byte
    BY DEF SOF, Byte
  <2> QED BY <2>1
<1>7. Encode(f) = (first \o Body(f)) \o last
  BY DEF Encode, Body
<1> HIDE DEF first, last
<1> DEFINE most == first \o Body(f)
<1>8. /\ most \in Seq(Byte) /\ Len(most) = 1 + (n + 3)
      /\ \A i \in 1 .. 1 : most[i] = first[i]
      /\ \A i \in 1 .. n + 3 : most[1 + i] = Body(f)[i]
  <2>1. /\ first \o Body(f) \in Seq(Byte) /\ Len(first \o Body(f)) = Len(first) + Len(Body(f))
        /\ \A i \in 1 .. Len(first) : (first \o Body(f))[i] = first[i]
        /\ \A i \in 1 .. Len(Body(f)) : (first \o Body(f))[Len(first) + i] = Body(f)[i]
    BY <1>1, <1>6, Joined, Zenon
  <2>2. /\ most \in Seq(Byte) /\ Len(most) = Len(first) + Len(Body(f))
        /\ \A i \in 1 .. Len(first) : most[i] = first[i]
        /\ \A i \in 1 .. Len(Body(f)) : most[Len(first) + i] = Body(f)[i]
    BY <2>1, Zenon
  <2> HIDE DEF most
  <2> QED BY <1>4, <1>6, <2>2
<1>9. Encode(f) = most \o last
  BY <1>7
<1> HIDE DEF most
<1>10. /\ Encode(f) \in Seq(Byte) /\ Len(Encode(f)) = (1 + (n + 3)) + 1
       /\ \A i \in 1 .. 1 + (n + 3) : Encode(f)[i] = most[i]
       /\ \A i \in 1 .. 1 : Encode(f)[(1 + (n + 3)) + i] = last[i]
  <2>1. /\ most \o last \in Seq(Byte) /\ Len(most \o last) = Len(most) + Len(last)
        /\ \A i \in 1 .. Len(most) : (most \o last)[i] = most[i]
        /\ \A i \in 1 .. Len(last) : (most \o last)[Len(most) + i] = last[i]
    BY <1>5, <1>8, Joined, Zenon
  <2>2. /\ Encode(f) \in Seq(Byte) /\ Len(Encode(f)) = Len(most) + Len(last)
        /\ \A i \in 1 .. Len(most) : Encode(f)[i] = most[i]
        /\ \A i \in 1 .. Len(last) : Encode(f)[Len(most) + i] = last[i]
    BY <1>9, <2>1, Zenon
  <2> QED BY <1>5, <1>8, <2>2
<1>11. Encode(f)[1] = SOF
  BY <1>6, <1>8, <1>10
<1>12. Encode(f)[n + 5] = Checksum(Body(f))
  <2>1. 1 \in 1 .. 1 /\ (1 + (n + 3)) + 1 = n + 5
    OBVIOUS
  <2>2. Encode(f)[(1 + (n + 3)) + 1] = last[1]
    BY <1>10
  <2> QED BY <1>5, <2>1, <2>2
<1>13. ASSUME NEW i \in 1 .. n + 3
       PROVE  Encode(f)[i + 1] = Body(f)[i]
  <2>1. i + 1 \in 1 .. 1 + (n + 3) /\ i + 1 = 1 + i
    OBVIOUS
  <2> QED BY <1>8, <1>10, <2>1
<1>14. Len(Encode(f)) = n + 5
  BY <1>10
<1> QED BY <1>4, <1>10, <1>11, <1>12, <1>13, <1>14

\* What the reader takes the checksum of.
Checked(bytes) == <<Len(bytes) - 3>> \o SubSeq(bytes, 1, Len(bytes) - 1)

\* It is the length and all bytes read but the last.
LEMMA CheckedBytes ==
  ASSUME NEW bytes \in Seq(Byte), Len(bytes) \in 3 .. 258
  PROVE  /\ Checked(bytes) \in Seq(Byte) /\ Len(Checked(bytes)) = Len(bytes)
         /\ Checked(bytes)[1] = Len(bytes) - 3
         /\ \A i \in 1 .. Len(bytes) - 1 : Checked(bytes)[i + 1] = bytes[i]
<1>1. PICK n \in 3 .. 258 : n = Len(bytes)
  OBVIOUS
<1> DEFINE rest == SubSeq(bytes, 1, n - 1)
           first == <<n - 3>>
<1>2. n - 3 \in Byte
  BY DEF Byte
<1>3. first \in Seq(Byte) /\ Len(first) = 1 /\ first[1] = n - 3
  BY <1>2
<1>4. 1 \in 1 .. Len(bytes) + 1 /\ n - 1 \in 0 .. Len(bytes) /\ ~(1 > n - 1)
  BY <1>1
<1>5. /\ rest \in Seq(Byte) /\ Len(rest) = n - 1
      /\ \A i \in 1 .. n - 1 : rest[i] = bytes[i]
  <2>1. \A i \in 1 .. n - 1 : bytes[i] \in Byte
    BY <1>1, ElementOfSeq
  <2>2. rest = [i \in 1 .. n - 1 |-> bytes[i]]
    BY DEF SubSeq
  <2> QED BY <2>1, <2>2
<1>6. Checked(bytes) = first \o rest
  BY <1>1 DEF Checked
<1> HIDE DEF first, rest
<1>7. /\ Checked(bytes) \in Seq(Byte) /\ Len(Checked(bytes)) = 1 + (n - 1)
      /\ \A i \in 1 .. 1 : Checked(bytes)[i] = first[i]
      /\ \A i \in 1 .. n - 1 : Checked(bytes)[1 + i] = rest[i]
  <2>1. /\ first \o rest \in Seq(Byte) /\ Len(first \o rest) = Len(first) + Len(rest)
        /\ \A i \in 1 .. Len(first) : (first \o rest)[i] = first[i]
        /\ \A i \in 1 .. Len(rest) : (first \o rest)[Len(first) + i] = rest[i]
    BY <1>3, <1>5, Joined, Zenon
  <2>2. /\ Checked(bytes) \in Seq(Byte) /\ Len(Checked(bytes)) = Len(first) + Len(rest)
        /\ \A i \in 1 .. Len(first) : Checked(bytes)[i] = first[i]
        /\ \A i \in 1 .. Len(rest) : Checked(bytes)[Len(first) + i] = rest[i]
    BY <1>6, <2>1, Zenon
  <2> QED BY <1>3, <1>5, <2>2
<1>8. ASSUME NEW i \in 1 .. n - 1
      PROVE  Checked(bytes)[i + 1] = bytes[i]
  <2>1. i + 1 = 1 + i
    OBVIOUS
  <2> QED BY <1>5, <1>7, <2>1
<1>9. Checked(bytes)[1] = n - 3 /\ Len(Checked(bytes)) = n
  BY <1>3, <1>7
<1> QED BY <1>1, <1>7, <1>8, <1>9

\* A byte made of two nibbles has them.
LEMMA Nibbles ==
  ASSUME NEW t \in 0 .. 15, NEW u \in 0 .. 15
  PROVE  (t * 16 + u) \div 16 = t /\ (t * 16 + u) % 16 = u
<1>1. PICK n \in Nat : n = t * 16 + u
  OBVIOUS
<1>2. n = 16 * (n \div 16) + (n % 16) /\ n % 16 \in 0 .. 15 /\ n \div 16 \in Nat
  OBVIOUS
<1> QED BY <1>1, <1>2

\* A frame read as it was sent passes the check and is decoded to what it was; with
\* one byte changed it does not pass.
LEMMA FrameRead ==
  ASSUME NEW f \in Sent, NEW bytes \in Seq(Byte), Len(bytes) = Len(f.payload) + 3,
         \A i \in 1 .. Len(bytes) : bytes[i] = Encode(f)[i + 2]
  PROVE  /\ Checksum(Checked(bytes)) = bytes[Len(bytes)]
         /\ Decode(bytes) = f
         /\ \A k \in 1 .. Len(bytes), b \in Byte :
              LET other == [bytes EXCEPT ![k] = b]
              IN other # bytes => Checksum(Checked(other)) # other[Len(bytes)]
<1>1. PICK n \in 0 .. 255 : n = Len(f.payload)
  BY SentFields
<1>2. Len(bytes) = n + 3 /\ Len(Body(f)) = n + 3 /\ Body(f) \in Seq(Byte)
  BY <1>1, BodyBytes
<1>3. Size(f) = n + 5
  BY <1>1 DEF Size
<1>4. \A i \in 1 .. n + 2 : bytes[i] = Body(f)[i + 1]
  <2>1. \A i \in 1 .. n + 3 : Encode(f)[i + 1] = Body(f)[i]
    BY <1>2, EncodeBytes
  <2> SUFFICES ASSUME NEW i \in 1 .. n + 2
               PROVE  bytes[i] = Body(f)[i + 1]
    OBVIOUS
  <2>2. i + 1 \in 1 .. n + 3 /\ (i + 1) + 1 = i + 2 /\ i \in 1 .. n + 3
    OBVIOUS
  <2> QED BY <1>2, <2>1, <2>2
<1>5. bytes[n + 3] = Checksum(Body(f))
  <2>1. Encode(f)[n + 5] = Checksum(Body(f))
    BY <1>3, EncodeBytes
  <2>2. n + 3 \in 1 .. n + 3 /\ (n + 3) + 2 = n + 5
    OBVIOUS
  <2> QED BY <1>2, <2>1, <2>2
<1>6. /\ Checked(bytes) \in Seq(Byte) /\ Len(Checked(bytes)) = n + 3
      /\ Checked(bytes)[1] = n
      /\ \A i \in 1 .. n + 2 : Checked(bytes)[i + 1] = bytes[i]
  <2>1. n + 3 \in 3 .. 258 /\ (n + 3) - 3 = n /\ (n + 3) - 1 = n + 2
    OBVIOUS
  <2>2. Len(bytes) \in 3 .. 258
    BY <1>2, <2>1
  <2>3. /\ Checked(bytes) \in Seq(Byte) /\ Len(Checked(bytes)) = Len(bytes)
        /\ Checked(bytes)[1] = Len(bytes) - 3
        /\ \A i \in 1 .. Len(bytes) - 1 : Checked(bytes)[i + 1] = bytes[i]
    BY <1>2, <2>2, CheckedBytes
  <2> QED BY <1>2, <2>1, <2>3
<1>7. Body(f)[1] = n
  BY <1>1, BodyBytes
<1>8. Checked(bytes) = Body(f)
  <2>1. ASSUME NEW i \in 1 .. n + 3
        PROVE  Checked(bytes)[i] = Body(f)[i]
    <3>1. CASE i = 1
      BY <1>6, <1>7, <3>1
    <3>2. CASE i # 1
      <4>1. i - 1 \in 1 .. n + 2 /\ (i - 1) + 1 = i
        BY <3>2
      <4> QED BY <1>4, <1>6, <4>1
    <3> QED BY <3>1, <3>2
  <2> QED BY <1>2, <1>6, <2>1, SeqEqual
<1>9. Decode(bytes) = f
  <2>1. /\ bytes[1] = f.type * 16 + f.subsystem /\ bytes[2] = f.command
        /\ \A i \in 1 .. n : bytes[i + 2] = f.payload[i]
    <3>1. bytes[1] = Body(f)[2] /\ bytes[2] = Body(f)[3]
      BY <1>4, SMTT(30)
    <3>2. ASSUME NEW i \in 1 .. n
          PROVE  bytes[i + 2] = f.payload[i]
      <4>1. i + 2 \in 1 .. n + 2 /\ (i + 2) + 1 = i + 3
        OBVIOUS
      <4>2. bytes[i + 2] = Body(f)[i + 3]
        BY <1>4, <4>1
      <4> QED BY <1>1, <4>2, BodyBytes
    <3> QED BY <3>1, <3>2, BodyBytes
  <2>2. f.payload \in Seq(Byte) /\ f.type \in 0 .. 15 /\ f.subsystem \in 0 .. 15
    BY SentFields
  <2>3. SubSeq(bytes, 3, Len(bytes) - 1) = f.payload
    <3>1. SubSeq(bytes, 3, n + 2) = [i \in 1 .. n |-> bytes[i + 2]]
      BY DEF SubSeq
    <3>2. f.payload = [i \in 1 .. n |-> f.payload[i]]
      BY <1>1, <2>2
    <3>3. SubSeq(bytes, 3, n + 2) = f.payload
      BY <2>1, <3>1, <3>2
    <3> QED BY <1>2, <3>3
  <2>4. bytes[1] \div 16 = f.type /\ bytes[1] % 16 = f.subsystem
    <3>1. PICK t \in 0 .. 15 : t = f.type
      BY <2>2
    <3>2. PICK u \in 0 .. 15 : u = f.subsystem
      BY <2>2
    <3>3. (t * 16 + u) \div 16 = t /\ (t * 16 + u) % 16 = u
      BY Nibbles, SMTT(30)
    <3> QED BY <2>1, <3>1, <3>2, <3>3
  <2>5. Decode(bytes) = [type |-> f.type, subsystem |-> f.subsystem,
                         command |-> f.command, payload |-> f.payload]
    BY <2>1, <2>3, <2>4 DEF Decode
  <2>6. f = [type |-> f.type, subsystem |-> f.subsystem,
             command |-> f.command, payload |-> f.payload]
    BY SentFields
  <2> QED BY <2>5, <2>6
<1>10. ASSUME NEW k \in 1 .. n + 3, NEW b \in Byte, NEW other,
              other = [bytes EXCEPT ![k] = b], other # bytes
       PROVE  Checksum(Checked(other)) # other[n + 3]
  <2>1. /\ other \in Seq(Byte) /\ Len(other) = n + 3
        /\ other[k] = b /\ \A i \in 1 .. n + 3 : i # k => other[i] = bytes[i]
    BY <1>2, <1>10, ExceptSeq
  <2>2. b # bytes[k]
    <3> SUFFICES ASSUME b = bytes[k]
                 PROVE  FALSE
      OBVIOUS
    <3>1. \A i \in 1 .. n + 3 : other[i] = bytes[i]
      BY <2>1
    <3>2. other = bytes
      BY <1>2, <2>1, <3>1, SeqEqual
    <3> QED BY <1>10, <3>2
  <2>3. /\ Checked(other) \in Seq(Byte) /\ Len(Checked(other)) = n + 3
        /\ Checked(other)[1] = n
        /\ \A i \in 1 .. n + 2 : Checked(other)[i + 1] = other[i]
    <3>1. n + 3 \in 3 .. 258 /\ (n + 3) - 3 = n /\ (n + 3) - 1 = n + 2
      OBVIOUS
    <3>2. Len(other) \in 3 .. 258
      BY <2>1, <3>1
    <3>3. /\ Checked(other) \in Seq(Byte) /\ Len(Checked(other)) = Len(other)
          /\ Checked(other)[1] = Len(other) - 3
          /\ \A i \in 1 .. Len(other) - 1 : Checked(other)[i + 1] = other[i]
      BY <2>1, <3>2, CheckedBytes
    <3> QED BY <2>1, <3>1, <3>3
  <2>4. CASE k = n + 3
    <3>1. ASSUME NEW i \in 1 .. n + 3
          PROVE  Checked(other)[i] = Checked(bytes)[i]
      <4>1. CASE i = 1
        BY <1>6, <2>3, <4>1
      <4>2. CASE i # 1
        <5>1. i - 1 \in 1 .. n + 2 /\ (i - 1) + 1 = i /\ i - 1 \in 1 .. n + 3 /\ i - 1 # k
          BY <2>4, <4>2
        <5> QED BY <1>6, <2>1, <2>3, <5>1
      <4> QED BY <4>1, <4>2
    <3>2. Checked(other) = Checked(bytes)
      BY <1>6, <2>3, <3>1, SeqEqual
    <3> QED BY <1>5, <1>8, <2>1, <2>2, <2>4, <3>2
  <2>5. CASE k # n + 3
    <3>1. k + 1 \in 1 .. n + 3 /\ k \in 1 .. n + 2
      BY <2>5
    <3>2. Checked(other)[k + 1] # Body(f)[k + 1]
      BY <1>4, <2>1, <2>2, <2>3, <3>1
    <3>3. ASSUME NEW i \in 1 .. n + 3, i # k + 1
          PROVE  Body(f)[i] = Checked(other)[i]
      <4>1. CASE i = 1
        BY <1>7, <2>3, <4>1
      <4>2. CASE i # 1
        <5>1. i - 1 \in 1 .. n + 2 /\ (i - 1) + 1 = i /\ i - 1 \in 1 .. n + 3 /\ i - 1 # k
          BY <3>3, <4>2
        <5>2. other[i - 1] = bytes[i - 1]
          BY <2>1, <5>1
        <5>3. bytes[i - 1] = Body(f)[i]
          BY <1>4, <5>1
        <5>4. Checked(other)[i] = other[i - 1]
          BY <2>3, <5>1
        <5> QED BY <5>2, <5>3, <5>4
      <4> QED BY <4>1, <4>2
    <3>4. Checksum(Body(f)) # Checksum(Checked(other))
      <4>1. PICK s \in Seq(Byte) : s = Body(f)
        BY <1>2
      <4>2. PICK t \in Seq(Byte) : t = Checked(other)
        BY <2>3
      <4>3. PICK h \in 1 .. n + 3 : h = k + 1
        BY <3>1
      <4>4. /\ Len(s) = n + 3 /\ Len(t) = n + 3 /\ s[h] # t[h]
            /\ \A i \in 1 .. n + 3 : i # h => s[i] = t[i]
        BY <1>2, <2>3, <3>2, <3>3, <4>1, <4>2, <4>3
      <4>5. Checksum(s) # Checksum(t)
        BY <4>4, ChecksumChanges
      <4> QED BY <4>1, <4>2, <4>5
    <3>5. other[n + 3] = bytes[n + 3]
      BY <2>1, <2>5
    <3> QED BY <1>5, <3>4, <3>5
  <2> QED BY <2>4, <2>5
<1>11. Checksum(Checked(bytes)) = bytes[Len(bytes)]
  BY <1>2, <1>5, <1>8
<1>12. \A k \in 1 .. Len(bytes), b \in Byte :
         LET other == [bytes EXCEPT ![k] = b]
         IN other # bytes => Checksum(Checked(other)) # other[Len(bytes)]
  BY <1>2, <1>10
<1> QED BY <1>9, <1>11, <1>12

-----------------------------------------------------------------------------
(* The line, read as frames.                                                *)
(*                                                                         *)
(* l is the line and p the frames pending.  For each byte of l, and for the *)
(* next one to be written, own says to which frame of p it belongs and at   *)
(* the place it has in the encoding of it; 0 is the place of a stray byte    *)
(* in front of it.  The next byte may be the first of a frame not yet sent.  *)

Places(own, at, l, p) ==
  /\ own \in [1 .. Len(l) + 1 -> Nat \ {0}]
  /\ at \in [1 .. Len(l) + 1 -> Nat]
  /\ \A n \in 1 .. Len(l) + 1 :
       \/ own[n] <= Len(p) /\ at[n] <= Size(p[own[n]])
       \/ own[n] = Len(p) + 1 /\ at[n] \in {0, 1}
  /\ \A n \in 1 .. Len(l) : at[n] # 0 => own[n] <= Len(p)

\* The frames come in their order.
InTurn(own, l) ==
  \A n, m \in 1 .. Len(l) + 1 : n <= m => own[n] <= own[m]

\* The bytes of a frame follow each other.
Whole(own, at, l, p) ==
  \A n, m \in 1 .. Len(l) + 1 :
    n <= m /\ own[n] <= Len(p) /\ at[n] # 0 /\ at[n] + (m - n) <= Size(p[own[n]])
    => own[m] = own[n] /\ at[m] = at[n] + (m - n)

\* Behind the last byte of a frame, and behind a stray byte, a frame begins or
\* there is another stray byte.
Bounds(own, at, l, p) ==
  \A n \in 1 .. Len(l) :
    /\ at[n] = 0 => own[n + 1] = own[n] /\ at[n + 1] \in {0, 1}
    /\ own[n] <= Len(p) /\ at[n] = Size(p[own[n]])
       => own[n + 1] = own[n] + 1 /\ at[n + 1] \in {0, 1}

\* The bytes are those encoded; a stray one is no start of frame.
Spelled(own, at, l, p) ==
  \A n \in 1 .. Len(l) :
    IF at[n] = 0 THEN l[n] # SOF ELSE l[n] = Encode(p[own[n]])[at[n]]

Parse(own, at, l, p) ==
  /\ Places(own, at, l, p)
  /\ InTurn(own, l)
  /\ Whole(own, at, l, p)
  /\ Bounds(own, at, l, p)
  /\ Spelled(own, at, l, p)

\* Bytes are read from the front.
LEMMA ParseRead ==
  ASSUME NEW l \in Seq(Byte), NEW p \in Seq(Sent), NEW own, NEW at, Parse(own, at, l, p),
         NEW k \in 0 .. Len(l), NEW r \in Seq(Byte), Len(r) = Len(l) - k,
         \A n \in 1 .. Len(r) : r[n] = l[n + k]
  PROVE  Parse([n \in 1 .. Len(r) + 1 |-> own[n + k]],
               [n \in 1 .. Len(r) + 1 |-> at[n + k]], r, p)
<1>1. PICK L \in Nat : L = Len(l)
  BY LenProperties
<1>2. PICK R \in Nat : R = Len(r)
  BY LenProperties
<1>3. k \in Nat /\ R + k = L
  BY <1>1, <1>2
<1>4. PICK o : o = [n \in 1 .. R + 1 |-> own[n + k]]
  OBVIOUS
<1>5. PICK a : a = [n \in 1 .. R + 1 |-> at[n + k]]
  OBVIOUS
<1>6. \A n \in 1 .. R + 1 : n + k \in 1 .. L + 1 /\ o[n] = own[n + k] /\ a[n] = at[n + k]
  BY <1>3, <1>4, <1>5
<1>7. \A n \in 1 .. R : n + k \in 1 .. L /\ n \in 1 .. R + 1 /\ r[n] = l[n + k]
  BY <1>2, <1>3
<1>8. Places(o, a, r, p)
  <2>1. /\ own \in [1 .. L + 1 -> Nat \ {0}] /\ at \in [1 .. L + 1 -> Nat]
        /\ \A n \in 1 .. L + 1 :
             \/ own[n] <= Len(p) /\ at[n] <= Size(p[own[n]])
             \/ own[n] = Len(p) + 1 /\ at[n] \in {0, 1}
        /\ \A n \in 1 .. L : at[n] # 0 => own[n] <= Len(p)
    BY <1>1 DEF Parse, Places
  <2>2. \A n \in 1 .. R + 1 : o[n] \in Nat \ {0} /\ a[n] \in Nat
    BY <1>6, <2>1
  <2>3. o \in [1 .. R + 1 -> Nat \ {0}] /\ a \in [1 .. R + 1 -> Nat]
    BY <1>4, <1>5, <2>2
  <2>4. \A n \in 1 .. R + 1 :
          \/ o[n] <= Len(p) /\ a[n] <= Size(p[o[n]])
          \/ o[n] = Len(p) + 1 /\ a[n] \in {0, 1}
    BY <1>6, <2>1
  <2>5. \A n \in 1 .. R : a[n] # 0 => o[n] <= Len(p)
    BY <1>6, <1>7, <2>1
  <2> QED BY <1>2, <2>3, <2>4, <2>5 DEF Places
<1>9. InTurn(o, r)
  <2>1. \A n, m \in 1 .. L + 1 : n <= m => own[n] <= own[m]
    BY <1>1 DEF Parse, InTurn
  <2>2. \A n, m \in 1 .. R + 1 : n <= m => o[n] <= o[m]
    <3> SUFFICES ASSUME NEW n \in 1 .. R + 1, NEW m \in 1 .. R + 1, n <= m
                 PROVE  o[n] <= o[m]
      OBVIOUS
    <3>1. n + k <= m + k
      BY <1>3
    <3> QED BY <1>6, <2>1, <3>1
  <2> QED BY <1>2, <2>2 DEF InTurn
<1>10. Whole(o, a, r, p)
  <2>1. \A n, m \in 1 .. L + 1 :
          n <= m /\ own[n] <= Len(p) /\ at[n] # 0 /\ at[n] + (m - n) <= Size(p[own[n]])
          => own[m] = own[n] /\ at[m] = at[n] + (m - n)
    BY <1>1 DEF Parse, Whole
  <2>2. ASSUME NEW n \in 1 .. R + 1, NEW m \in 1 .. R + 1,
               n <= m, o[n] <= Len(p), a[n] # 0, a[n] + (m - n) <= Size(p[o[n]])
        PROVE  o[m] = o[n] /\ a[m] = a[n] + (m - n)
    <3>1. n + k <= m + k /\ (m + k) - (n + k) = m - n
      BY <1>3, <2>2
    <3>2. PICK i \in 1 .. L + 1 : i = n + k /\ o[n] = own[i] /\ a[n] = at[i]
      BY <1>6
    <3>3. PICK j \in 1 .. L + 1 : j = m + k /\ o[m] = own[j] /\ a[m] = at[j]
      BY <1>6
    <3>4. i <= j /\ j - i = m - n
      BY <3>1, <3>2, <3>3
    <3>5. own[j] = own[i] /\ at[j] = at[i] + (j - i)
      BY <2>1, <2>2, <3>2, <3>4
    <3> QED BY <3>2, <3>3, <3>4, <3>5
  <2>3. \A n, m \in 1 .. R + 1 :
          n <= m /\ o[n] <= Len(p) /\ a[n] # 0 /\ a[n] + (m - n) <= Size(p[o[n]])
          => o[m] = o[n] /\ a[m] = a[n] + (m - n)
    BY <2>2
  <2> QED BY <1>2, <2>3 DEF Whole
<1>11. Bounds(o, a, r, p)
  <2>1. \A n \in 1 .. L :
          /\ at[n] = 0 => own[n + 1] = own[n] /\ at[n + 1] \in {0, 1}
          /\ own[n] <= Len(p) /\ at[n] = Size(p[own[n]])
             => own[n + 1] = own[n] + 1 /\ at[n + 1] \in {0, 1}
    BY <1>1 DEF Parse, Bounds
  <2>2. ASSUME NEW n \in 1 .. R
        PROVE  /\ a[n] = 0 => o[n + 1] = o[n] /\ a[n + 1] \in {0, 1}
               /\ o[n] <= Len(p) /\ a[n] = Size(p[o[n]])
                  => o[n + 1] = o[n] + 1 /\ a[n + 1] \in {0, 1}
    <3>1. n + 1 \in 1 .. R + 1 /\ (n + 1) + k = (n + k) + 1
      BY <1>3
    <3>2. o[n + 1] = own[(n + k) + 1] /\ a[n + 1] = at[(n + k) + 1]
      BY <1>6, <3>1
    <3> QED BY <1>6, <1>7, <2>1, <3>2
  <2> QED BY <1>2, <2>2 DEF Bounds
<1>12. Spelled(o, a, r, p)
  <2>1. \A n \in 1 .. L :
          IF at[n] = 0 THEN l[n] # SOF ELSE l[n] = Encode(p[own[n]])[at[n]]
    BY <1>1 DEF Parse, Spelled
  <2>2. ASSUME NEW n \in 1 .. R
        PROVE  IF a[n] = 0 THEN r[n] # SOF ELSE r[n] = Encode(p[o[n]])[a[n]]
    <3>1. PICK m \in 1 .. L : m = n + k /\ o[n] = own[m] /\ a[n] = at[m] /\ r[n] = l[m]
      BY <1>6, <1>7
    <3>2. IF at[m] = 0 THEN l[m] # SOF ELSE l[m] = Encode(p[own[m]])[at[m]]
      BY <2>1
    <3> QED BY <3>1, <3>2
  <2> QED BY <1>2, <2>2 DEF Spelled
<1> QED BY <1>2, <1>4, <1>5, <1>8, <1>9, <1>10, <1>11, <1>12 DEF Parse

\* The first frame has been read: all that is left belongs to later ones.
LEMMA ParseDone ==
  ASSUME NEW l \in Seq(Byte), NEW p \in Seq(Sent), NEW own, NEW at, Parse(own, at, l, p),
         p # <<>>, own[1] = 2
  PROVE  Parse([n \in 1 .. Len(l) + 1 |-> own[n] - 1], at, l, Tail(p))
<1>1. PICK L \in Nat : L = Len(l)
  BY LenProperties
<1>2. PICK P \in Nat : P + 1 = Len(p)
  <2>1. Len(p) \in Nat /\ Len(p) # 0
    BY LenProperties, EmptySeq
  <2>2. PICK q \in Nat : q = Len(p) /\ q # 0
    BY <2>1
  <2>3. q - 1 \in Nat /\ (q - 1) + 1 = q
    BY <2>2
  <2> QED BY <2>2, <2>3
<1>3. PICK t \in Seq(Sent) : /\ t = Tail(p) /\ Len(t) = P
                             /\ \A i \in 1 .. P : t[i] = p[i + 1]
  <2>1. /\ Tail(p) \in Seq(Sent) /\ Len(Tail(p)) = Len(p) - 1
        /\ \A i \in 1 .. Len(Tail(p)) : Tail(p)[i] = p[i + 1]
    BY HeadTailProperties
  <2>2. PICK t : t = Tail(p)
    OBVIOUS
  <2>3. t \in Seq(Sent) /\ Len(t) = P
    BY <1>2, <2>1, <2>2
  <2> QED BY <2>1, <2>2, <2>3
<1>4. PICK o : o = [n \in 1 .. L + 1 |-> own[n] - 1]
  OBVIOUS
<1>5. /\ own \in [1 .. L + 1 -> Nat \ {0}] /\ at \in [1 .. L + 1 -> Nat]
      /\ \A n \in 1 .. L + 1 :
           \/ own[n] <= P + 1 /\ at[n] <= Size(p[own[n]])
           \/ own[n] = (P + 1) + 1 /\ at[n] \in {0, 1}
      /\ \A n \in 1 .. L : at[n] # 0 => own[n] <= P + 1
  BY <1>1, <1>2 DEF Parse, Places
<1>6. \A n, m \in 1 .. L + 1 : n <= m => own[n] <= own[m]
  BY <1>1 DEF Parse, InTurn
<1>7. ASSUME NEW n \in 1 .. L + 1
      PROVE  /\ own[n] \in Nat /\ own[n] >= 2 /\ o[n] = own[n] - 1 /\ o[n] \in Nat \ {0}
             /\ o[n] <= P <=> own[n] <= P + 1
             /\ own[n] <= P + 1 => t[o[n]] = p[own[n]]
             /\ at[n] \in Nat
  <2>1. 1 \in 1 .. L + 1 /\ 1 <= n
    OBVIOUS
  <2>2. own[1] <= own[n]
    BY <1>6, <2>1
  <2>3. PICK w \in Nat : w = own[n] /\ w >= 2
    BY <1>5, <2>2
  <2>4. o[n] = w - 1 /\ w - 1 \in Nat \ {0} /\ (w - 1 <= P <=> w <= P + 1)
    BY <1>4, <2>3, SMTT(30)
  <2>5. w <= P + 1 => t[w - 1] = p[w]
    <3> SUFFICES ASSUME w <= P + 1
                 PROVE  t[w - 1] = p[w]
      OBVIOUS
    <3>1. w - 1 \in 1 .. P /\ (w - 1) + 1 = w
      BY <2>3
    <3> QED BY <1>3, <3>1
  <2>6. at[n] \in Nat
    BY <1>5
  <2> QED BY <2>3, <2>4, <2>5, <2>6
<1>8. Places(o, at, l, t)
  <2>1. o \in [1 .. L + 1 -> Nat \ {0}]
    BY <1>4, <1>7
  <2>2. ASSUME NEW n \in 1 .. L + 1
        PROVE  \/ o[n] <= P /\ at[n] <= Size(t[o[n]])
               \/ o[n] = P + 1 /\ at[n] \in {0, 1}
    <3>1. CASE own[n] <= P + 1 /\ at[n] <= Size(p[own[n]])
      BY <1>7, <3>1
    <3>2. CASE own[n] = (P + 1) + 1 /\ at[n] \in {0, 1}
      BY <1>7, <3>2
    <3> QED BY <1>5, <3>1, <3>2
  <2>3. ASSUME NEW n \in 1 .. L, at[n] # 0
        PROVE  o[n] <= P
    <3>1. n \in 1 .. L + 1 /\ own[n] <= P + 1
      BY <1>5, <2>3
    <3> QED BY <1>7, <3>1
  <2> QED BY <1>1, <1>3, <1>5, <2>1, <2>2, <2>3 DEF Places
<1>9. InTurn(o, l)
  <2>1. ASSUME NEW n \in 1 .. L + 1, NEW m \in 1 .. L + 1, n <= m
        PROVE  o[n] <= o[m]
    <3>1. own[n] <= own[m]
      BY <1>6, <2>1
    <3> QED BY <1>7, <3>1
  <2> QED BY <1>1, <2>1 DEF InTurn
<1>10. Whole(o, at, l, t)
  <2>1. \A n, m \in 1 .. L + 1 :
          n <= m /\ own[n] <= P + 1 /\ at[n] # 0 /\ at[n] + (m - n) <= Size(p[own[n]])
          => own[m] = own[n] /\ at[m] = at[n] + (m - n)
    BY <1>1, <1>2 DEF Parse, Whole
  <2>2. ASSUME NEW n \in 1 .. L + 1, NEW m \in 1 .. L + 1,
               n <= m, o[n] <= P, at[n] # 0, at[n] + (m - n) <= Size(t[o[n]])
        PROVE  o[m] = o[n] /\ at[m] = at[n] + (m - n)
    <3>1. own[n] <= P + 1 /\ t[o[n]] = p[own[n]]
      BY <1>7, <2>2
    <3>2. own[m] = own[n] /\ at[m] = at[n] + (m - n)
      BY <2>1, <2>2, <3>1
    <3> QED BY <1>7, <3>2
  <2> QED BY <1>1, <1>3, <2>2 DEF Whole
<1>11. Bounds(o, at, l, t)
  <2>1. \A n \in 1 .. L :
          /\ at[n] = 0 => own[n + 1] = own[n] /\ at[n + 1] \in {0, 1}
          /\ own[n] <= P + 1 /\ at[n] = Size(p[own[n]])
             => own[n + 1] = own[n] + 1 /\ at[n + 1] \in {0, 1}
    BY <1>1, <1>2 DEF Parse, Bounds
  <2>2. ASSUME NEW n \in 1 .. L
        PROVE  /\ at[n] = 0 => o[n + 1] = o[n] /\ at[n + 1] \in {0, 1}
               /\ o[n] <= P /\ at[n] = Size(t[o[n]])
                  => o[n + 1] = o[n] + 1 /\ at[n + 1] \in {0, 1}
    <3>1. n \in 1 .. L + 1 /\ n + 1 \in 1 .. L + 1
      OBVIOUS
    <3>2. /\ o[n + 1] = own[n + 1] - 1 /\ own[n + 1] \in Nat
          /\ o[n] = own[n] - 1 /\ own[n] \in Nat
          /\ o[n] <= P => own[n] <= P + 1 /\ t[o[n]] = p[own[n]]
      BY <1>7, <3>1
    <3>3. at[n] = 0 => own[n + 1] = own[n] /\ at[n + 1] \in {0, 1}
      BY <2>1
    <3>4. own[n] <= P + 1 /\ at[n] = Size(p[own[n]])
          => own[n + 1] = own[n] + 1 /\ at[n + 1] \in {0, 1}
      BY <2>1
    <3>5. at[n] = 0 => o[n + 1] = o[n] /\ at[n + 1] \in {0, 1}
      BY <3>2, <3>3
    <3>6. ASSUME o[n] <= P, at[n] = Size(t[o[n]])
          PROVE  o[n + 1] = o[n] + 1 /\ at[n + 1] \in {0, 1}
      <4>1. own[n + 1] = own[n] + 1 /\ at[n + 1] \in {0, 1}
        BY <3>2, <3>4, <3>6
      <4> QED BY <3>2, <4>1
    <3> QED BY <3>5, <3>6
  <2> QED BY <1>1, <1>3, <2>2 DEF Bounds
<1>12. Spelled(o, at, l, t)
  <2>1. \A n \in 1 .. L :
          IF at[n] = 0 THEN l[n] # SOF ELSE l[n] = Encode(p[own[n]])[at[n]]
    BY <1>1 DEF Parse, Spelled
  <2>2. ASSUME NEW n \in 1 .. L
        PROVE  IF at[n] = 0 THEN l[n] # SOF ELSE l[n] = Encode(t[o[n]])[at[n]]
    <3>1. n \in 1 .. L + 1 /\ (at[n] # 0 => own[n] <= P + 1)
      BY <1>5
    <3> QED BY <1>7, <2>1, <3>1
  <2> QED BY <1>1, <2>2 DEF Spelled
<1> QED BY <1>1, <1>3, <1>4, <1>8, <1>9, <1>10, <1>11, <1>12 DEF Parse

\* A frame sent comes behind all there is.
LEMMA ParseSent ==
  ASSUME NEW l \in Seq(Byte), NEW p \in Seq(Sent), NEW own, NEW at, Parse(own, at, l, p),
         NEW f \in Sent
  PROVE  Parse(own, at, l, Append(p, f))
<1>1. PICK L \in Nat : L = Len(l)
  BY LenProperties
<1>2. PICK P \in Nat : P = Len(p)
  BY LenProperties
<1>3. PICK t \in Seq(Sent) : /\ t = Append(p, f) /\ Len(t) = P + 1
                             /\ t[P + 1] = f /\ \A i \in 1 .. P : t[i] = p[i]
  <2>1. /\ Append(p, f) \in Seq(Sent) /\ Len(Append(p, f)) = Len(p) + 1
        /\ \A i \in 1 .. Len(p) : Append(p, f)[i] = p[i]
        /\ Append(p, f)[Len(p) + 1] = f
    BY AppendProperties
  <2> QED BY <1>2, <2>1
<1>4. /\ own \in [1 .. L + 1 -> Nat \ {0}] /\ at \in [1 .. L + 1 -> Nat]
      /\ \A n \in 1 .. L + 1 :
           \/ own[n] <= P /\ at[n] <= Size(p[own[n]])
           \/ own[n] = P + 1 /\ at[n] \in {0, 1}
      /\ \A n \in 1 .. L : at[n] # 0 => own[n] <= P
  BY <1>1, <1>2 DEF Parse, Places
<1>5. PICK z \in 5 .. 260 : z = Size(f)
  BY EncodeBytes
<1>6. ASSUME NEW n \in 1 .. L + 1
      PROVE  /\ own[n] \in Nat /\ own[n] # 0 /\ at[n] \in Nat /\ own[n] <= P + 1
             /\ own[n] <= P => t[own[n]] = p[own[n]] /\ at[n] <= Size(p[own[n]])
             /\ ~(own[n] <= P) => at[n] \in {0, 1} /\ Size(t[own[n]]) = z
                                  /\ (at[n] # 0 => n = L + 1)
  <2>1. PICK w \in Nat : w = own[n] /\ w # 0
    BY <1>4
  <2>2. at[n] \in Nat /\ w <= P + 1
    <3>1. w <= P \/ w = P + 1
      BY <1>4, <2>1
    <3>2. at[n] \in Nat
      BY <1>4
    <3> QED BY <3>1, <3>2
  <2>3. w <= P => t[w] = p[w] /\ at[n] <= Size(p[w])
    <3> SUFFICES ASSUME w <= P
                 PROVE  t[w] = p[w] /\ at[n] <= Size(p[w])
      OBVIOUS
    <3>1. w \in 1 .. P /\ w # P + 1
      BY <2>1
    <3> QED BY <1>3, <1>4, <2>1, <3>1
  <2>4. ~(w <= P) => at[n] \in {0, 1} /\ Size(t[w]) = z
    <3> SUFFICES ASSUME ~(w <= P)
                 PROVE  at[n] \in {0, 1} /\ Size(t[w]) = z
      OBVIOUS
    <3>1. w = P + 1
      BY <2>2
    <3> QED BY <1>3, <1>4, <1>5, <2>1, <3>1
  <2>5. ~(w <= P) /\ at[n] # 0 => n = L + 1
    BY <1>4, <2>1
  <2> QED BY <2>1, <2>2, <2>3, <2>4, <2>5
<1>7. Places(own, at, l, t)
  <2>1. ASSUME NEW n \in 1 .. L + 1
        PROVE  own[n] <= P + 1 /\ at[n] <= Size(t[own[n]])
    <3>1. CASE own[n] <= P
      BY <1>6, <3>1
    <3>2. CASE ~(own[n] <= P)
      <4>1. PICK a \in {0, 1} : a = at[n] /\ Size(t[own[n]]) = z
        BY <1>6, <3>2
      <4>2. a <= z
        OBVIOUS
      <4> QED BY <1>6, <4>1, <4>2
    <3> QED BY <1>6, <3>1, <3>2
  <2>2. ASSUME NEW n \in 1 .. L
        PROVE  own[n] <= P + 1
    <3>1. n \in 1 .. L + 1
      OBVIOUS
    <3> QED BY <1>6, <3>1
  <2> QED BY <1>1, <1>3, <1>4, <2>1, <2>2 DEF Places
<1>8. InTurn(own, l)
  BY DEF Parse
<1>9. Whole(own, at, l, t)
  <2>1. \A n, m \in 1 .. L + 1 :
          n <= m /\ own[n] <= P /\ at[n] # 0 /\ at[n] + (m - n) <= Size(p[own[n]])
          => own[m] = own[n] /\ at[m] = at[n] + (m - n)
    BY <1>1, <1>2 DEF Parse, Whole
  <2>2. ASSUME NEW n \in 1 .. L + 1, NEW m \in 1 .. L + 1,
               n <= m, own[n] <= P + 1, at[n] # 0, at[n] + (m - n) <= Size(t[own[n]])
        PROVE  own[m] = own[n] /\ at[m] = at[n] + (m - n)
    <3>1. CASE own[n] <= P
      <4>1. t[own[n]] = p[own[n]]
        BY <1>6, <3>1
      <4> QED BY <2>1, <2>2, <3>1, <4>1
    <3>2. CASE ~(own[n] <= P)
      <4>1. n = L + 1 /\ at[n] \in Nat
        BY <1>6, <2>2, <3>2
      <4>2. m = n
        BY <2>2, <4>1
      <4> QED BY <4>1, <4>2
    <3> QED BY <3>1, <3>2
  <2> QED BY <1>1, <1>3, <2>2 DEF Whole
<1>10. Bounds(own, at, l, t)
  <2>1. \A n \in 1 .. L :
          /\ at[n] = 0 => own[n + 1] = own[n] /\ at[n + 1] \in {0, 1}
          /\ own[n] <= P /\ at[n] = Size(p[own[n]])
             => own[n + 1] = own[n] + 1 /\ at[n + 1] \in {0, 1}
    BY <1>1, <1>2 DEF Parse, Bounds
  <2>2. ASSUME NEW n \in 1 .. L
        PROVE  /\ at[n] = 0 => own[n + 1] = own[n] /\ at[n + 1] \in {0, 1}
               /\ own[n] <= P + 1 /\ at[n] = Size(t[own[n]])
                  => own[n + 1] = own[n] + 1 /\ at[n + 1] \in {0, 1}
    <3>1. n \in 1 .. L + 1
      OBVIOUS
    <3>2. CASE own[n] <= P
      BY <1>6, <2>1, <3>1, <3>2
    <3>3. CASE ~(own[n] <= P)
      <4>1. at[n] # Size(t[own[n]])
        <5>1. PICK a \in {0, 1} : a = at[n] /\ Size(t[own[n]]) = z
          BY <1>6, <3>1, <3>3
        <5>2. a # z
          OBVIOUS
        <5> QED BY <5>1, <5>2
      <4> QED BY <2>1, <4>1
    <3> QED BY <3>2, <3>3
  <2> QED BY <1>1, <1>3, <2>2 DEF Bounds
<1>11. Spelled(own, at, l, t)
  <2>1. \A n \in 1 .. L :
          IF at[n] = 0 THEN l[n] # SOF ELSE l[n] = Encode(p[own[n]])[at[n]]
    BY <1>1 DEF Parse, Spelled
  <2>2. ASSUME NEW n \in 1 .. L
        PROVE  IF at[n] = 0 THEN l[n] # SOF ELSE l[n] = Encode(t[own[n]])[at[n]]
    <3>1. n \in 1 .. L + 1 /\ (at[n] # 0 => own[n] <= P)
      BY <1>4
    <3>2. at[n] # 0 => t[own[n]] = p[own[n]]
      BY <1>6, <3>1
    <3> QED BY <2>1, <3>2
  <2> QED BY <1>1, <2>2 DEF Spelled
<1> QED BY <1>3, <1>7, <1>8, <1>9, <1>10, <1>11 DEF Parse

\* f with one value more.
Extended(f, n, x) == [i \in 1 .. n + 1 |-> IF i <= n THEN f[i] ELSE x]

\* A byte of a frame is written: it goes to the back of the line.
LEMMA ParseWrite ==
  ASSUME NEW l \in Seq(Byte), NEW p \in Seq(Sent), NEW own, NEW at, Parse(own, at, l, p),
         NEW b \in Byte, NEW w \in 1 .. Len(p), NEW a \in 1 .. Size(p[w]),
         own[Len(l) + 1] = w, at[Len(l) + 1] = a, b = Encode(p[w])[a],
         NEW w2, NEW a2,
         a < Size(p[w]) => w2 = w /\ a2 = a + 1,
         ~(a < Size(p[w])) => w2 = w + 1 /\ a2 = 1
  PROVE  Parse(Extended(own, Len(l) + 1, w2), Extended(at, Len(l) + 1, a2),
               Append(l, b), p)
<1>1. PICK L \in Nat : L = Len(l)
  BY LenProperties
<1>2. PICK P \in Nat : P = Len(p)
  BY LenProperties
<1>3. PICK k \in Seq(Byte) : /\ k = Append(l, b) /\ Len(k) = L + 1
                             /\ k[L + 1] = b /\ \A i \in 1 .. L : k[i] = l[i]
  <2>1. /\ Append(l, b) \in Seq(Byte) /\ Len(Append(l, b)) = Len(l) + 1
        /\ \A i \in 1 .. Len(l) : Append(l, b)[i] = l[i]
        /\ Append(l, b)[Len(l) + 1] = b
    BY AppendProperties
  <2> QED BY <1>1, <2>1
<1>4. PICK z \in 5 .. 260 : z = Size(p[w])
  <2>1. p[w] \in Sent
    BY ElementOfSeq
  <2> QED BY <2>1, EncodeBytes
<1>5. /\ w \in Nat /\ w # 0 /\ w <= P /\ a \in Nat /\ a # 0 /\ a <= z
      /\ w2 \in Nat /\ w2 # 0 /\ w <= w2 /\ w2 <= P + 1
      /\ a2 \in Nat /\ a2 # 0 /\ (w2 = w + 1 => a2 = 1) /\ (w2 # w + 1 => w2 = w /\ a2 = a + 1 /\ a2 <= z)
      /\ (a = z <=> w2 = w + 1)
  BY <1>2, <1>4
<1>6. PICK o : o = [n \in 1 .. (L + 1) + 1 |-> IF n <= L + 1 THEN own[n] ELSE w2]
  OBVIOUS
<1>7. PICK c : c = [n \in 1 .. (L + 1) + 1 |-> IF n <= L + 1 THEN at[n] ELSE a2]
  OBVIOUS
<1>8. /\ \A n \in 1 .. L + 1 : o[n] = own[n] /\ c[n] = at[n]
      /\ o[(L + 1) + 1] = w2 /\ c[(L + 1) + 1] = a2
      /\ o[L + 1] = w /\ c[L + 1] = a
  <2>1. \A n \in 1 .. L + 1 : o[n] = own[n] /\ c[n] = at[n]
    BY <1>6, <1>7
  <2>2. o[(L + 1) + 1] = w2 /\ c[(L + 1) + 1] = a2
    BY <1>6, <1>7
  <2> QED BY <1>1, <2>1, <2>2
<1>9. /\ own \in [1 .. L + 1 -> Nat \ {0}] /\ at \in [1 .. L + 1 -> Nat]
      /\ \A n \in 1 .. L + 1 :
           \/ own[n] <= P /\ at[n] <= Size(p[own[n]])
           \/ own[n] = P + 1 /\ at[n] \in {0, 1}
      /\ \A n \in 1 .. L : at[n] # 0 => own[n] <= P
  BY <1>1, <1>2 DEF Parse, Places
<1>10. \A n \in 1 .. (L + 1) + 1 : n \in 1 .. L + 1 \/ n = (L + 1) + 1
  OBVIOUS
<1>11. \A n \in 1 .. L + 1 : n \in 1 .. L \/ n = L + 1
  OBVIOUS
<1>12. Places(o, c, k, p)
  <2>1. o \in [1 .. (L + 1) + 1 -> Nat \ {0}] /\ c \in [1 .. (L + 1) + 1 -> Nat]
    <3>1. \A n \in 1 .. L + 1 : own[n] \in Nat \ {0} /\ at[n] \in Nat
      BY <1>9
    <3>2. w2 \in Nat \ {0} /\ a2 \in Nat
      BY <1>5
    <3>3. \A n \in 1 .. (L + 1) + 1 : o[n] \in Nat \ {0} /\ c[n] \in Nat
      BY <1>8, <1>10, <3>1, <3>2
    <3> QED BY <1>6, <1>7, <3>3
  <2>2. ASSUME NEW n \in 1 .. (L + 1) + 1
        PROVE  \/ o[n] <= P /\ c[n] <= Size(p[o[n]])
               \/ o[n] = P + 1 /\ c[n] \in {0, 1}
    <3>1. CASE n \in 1 .. L + 1
      BY <1>8, <1>9, <3>1
    <3>2. CASE n = (L + 1) + 1
      <4>1. CASE w2 = w
        BY <1>4, <1>5, <1>8, <3>2, <4>1
      <4>2. CASE w2 = w + 1 /\ w < P
        <5>1. w2 \in 1 .. P
          BY <1>5, <4>2
        <5>2. p[w2] \in Sent
          BY <1>2, <5>1, ElementOfSeq
        <5>3. PICK y \in 5 .. 260 : y = Size(p[w2])
          BY <5>2, EncodeBytes
        <5>4. a2 <= y
          BY <1>5, <4>2
        <5> QED BY <1>8, <3>2, <5>1, <5>3, <5>4
      <4>3. CASE w2 = w + 1 /\ ~(w < P)
        <5>1. w2 = P + 1 /\ a2 = 1
          BY <1>5, <4>3
        <5> QED BY <1>8, <3>2, <5>1
      <4> QED BY <1>5, <4>1, <4>2, <4>3
    <3> QED BY <1>10, <3>1, <3>2
  <2>3. ASSUME NEW n \in 1 .. L + 1, c[n] # 0
        PROVE  o[n] <= P
    BY <1>5, <1>8, <1>9, <1>11, <2>3
  <2> QED BY <1>2, <1>3, <2>1, <2>2, <2>3 DEF Places
<1>13. InTurn(o, k)
  <2>1. \A n, m \in 1 .. L + 1 : n <= m => own[n] <= own[m]
    BY <1>1 DEF Parse, InTurn
  <2>2. ASSUME NEW n \in 1 .. (L + 1) + 1, NEW m \in 1 .. (L + 1) + 1, n <= m
        PROVE  o[n] <= o[m]
    <3>1. CASE m \in 1 .. L + 1
      <4>1. n \in 1 .. L + 1
        BY <2>2, <3>1
      <4> QED BY <1>8, <2>1, <2>2, <3>1, <4>1
    <3>2. CASE m = (L + 1) + 1 /\ n \in 1 .. L + 1
      <4>1. n <= L + 1 /\ L + 1 \in 1 .. L + 1
        BY <3>2
      <4>2. PICK v \in Nat : v = own[n]
        BY <1>9, <3>2
      <4>3. own[n] <= w
        BY <1>1, <2>1, <3>2, <4>1
      <4>4. v <= w2
        BY <1>5, <4>2, <4>3
      <4> QED BY <1>8, <3>2, <4>2, <4>4
    <3>3. CASE m = (L + 1) + 1 /\ n = (L + 1) + 1
      BY <1>5, <1>8, <3>3
    <3> QED BY <1>10, <3>1, <3>2, <3>3
  <2> QED BY <1>3, <2>2 DEF InTurn
<1>14. Whole(o, c, k, p)
  <2>1. \A n, m \in 1 .. L + 1 :
          n <= m /\ own[n] <= P /\ at[n] # 0 /\ at[n] + (m - n) <= Size(p[own[n]])
          => own[m] = own[n] /\ at[m] = at[n] + (m - n)
    BY <1>1, <1>2 DEF Parse, Whole
  <2>2. ASSUME NEW n \in 1 .. (L + 1) + 1, NEW m \in 1 .. (L + 1) + 1,
               n <= m, o[n] <= P, c[n] # 0, c[n] + (m - n) <= Size(p[o[n]])
        PROVE  o[m] = o[n] /\ c[m] = c[n] + (m - n)
    <3>1. CASE m \in 1 .. L + 1
      <4>1. n \in 1 .. L + 1
        BY <2>2, <3>1
      <4>2. o[n] = own[n] /\ c[n] = at[n] /\ o[m] = own[m] /\ c[m] = at[m]
        BY <1>8, <3>1, <4>1
      <4> QED BY <2>1, <2>2, <3>1, <4>1, <4>2
    <3>2. CASE m = (L + 1) + 1 /\ n \in 1 .. L + 1
      <4>1. PICK x \in Nat : x = c[n] /\ x = at[n] /\ o[n] = own[n]
        BY <1>8, <1>9, <3>2
      <4>2. PICK y \in Nat : y = Size(p[own[n]])
        <5>1. PICK v \in 1 .. P : v = own[n]
          <6>1. PICK v \in Nat \ {0} : v = own[n]
            BY <1>9, <3>2
          <6>2. v <= P
            BY <2>2, <4>1, <6>1
          <6> QED BY <6>1, <6>2
        <5>2. p[v] \in Sent
          BY <1>2, ElementOfSeq
        <5> QED BY <5>1, <5>2, EncodeBytes
      <4>3. x + (((L + 1) + 1) - n) <= y
        BY <2>2, <3>2, <4>1, <4>2
      <4>4. x + ((L + 1) - n) <= y /\ n <= L + 1 /\ L + 1 \in 1 .. L + 1
        BY <3>2, <4>3
      <4>5. w = own[n] /\ a = x + ((L + 1) - n)
        BY <1>1, <2>1, <2>2, <3>2, <4>1, <4>2, <4>4, ZenonT(30)
      <4>6. z = y /\ a + 1 <= z
        BY <1>4, <3>2, <4>2, <4>3, <4>5
      <4>7. w2 = w /\ a2 = a + 1
        BY <1>5, <4>6
      <4>8. a2 = x + (m - n)
        BY <3>2, <4>5, <4>7
      <4> QED BY <1>8, <3>2, <4>1, <4>5, <4>7, <4>8
    <3>3. CASE m = (L + 1) + 1 /\ n = (L + 1) + 1
      BY <1>5, <1>8, <3>3
    <3> QED BY <1>10, <3>1, <3>2, <3>3
  <2> QED BY <1>2, <1>3, <2>2 DEF Whole
<1>15. Bounds(o, c, k, p)
  <2>1. \A n \in 1 .. L :
          /\ at[n] = 0 => own[n + 1] = own[n] /\ at[n + 1] \in {0, 1}
          /\ own[n] <= P /\ at[n] = Size(p[own[n]])
             => own[n + 1] = own[n] + 1 /\ at[n + 1] \in {0, 1}
    BY <1>1, <1>2 DEF Parse, Bounds
  <2>2. ASSUME NEW n \in 1 .. L + 1
        PROVE  /\ c[n] = 0 => o[n + 1] = o[n] /\ c[n + 1] \in {0, 1}
               /\ o[n] <= P /\ c[n] = Size(p[o[n]])
                  => o[n + 1] = o[n] + 1 /\ c[n + 1] \in {0, 1}
    <3>1. CASE n \in 1 .. L
      <4>1. n + 1 \in 1 .. L + 1 /\ n \in 1 .. L + 1
        BY <3>1
      <4>2. o[n] = own[n] /\ c[n] = at[n] /\ o[n + 1] = own[n + 1] /\ c[n + 1] = at[n + 1]
        BY <1>8, <4>1
      <4> QED BY <2>1, <3>1, <4>2
    <3>2. CASE n = L + 1
      <4>1. o[n] = w /\ c[n] = a /\ o[n + 1] = w2 /\ c[n + 1] = a2
        BY <1>8, <3>2
      <4>2. a = z => w2 = w + 1 /\ a2 \in {0, 1}
        BY <1>5
      <4> QED BY <1>4, <1>5, <4>1, <4>2
    <3> QED BY <1>11, <3>1, <3>2
  <2> QED BY <1>2, <1>3, <2>2 DEF Bounds
<1>16. Spelled(o, c, k, p)
  <2>1. \A n \in 1 .. L :
          IF at[n] = 0 THEN l[n] # SOF ELSE l[n] = Encode(p[own[n]])[at[n]]
    BY <1>1 DEF Parse, Spelled
  <2>2. ASSUME NEW n \in 1 .. L + 1
        PROVE  IF c[n] = 0 THEN k[n] # SOF ELSE k[n] = Encode(p[o[n]])[c[n]]
    <3>1. CASE n \in 1 .. L
      <4>1. o[n] = own[n] /\ c[n] = at[n] /\ k[n] = l[n]
        BY <1>3, <1>8, <3>1
      <4>2. IF at[n] = 0 THEN l[n] # SOF ELSE l[n] = Encode(p[own[n]])[at[n]]
        BY <2>1, <3>1
      <4> QED BY <4>1, <4>2
    <3>2. CASE n = L + 1
      BY <1>3, <1>5, <1>8, <3>2
    <3> QED BY <1>11, <3>1, <3>2
  <2> QED BY <1>3, <2>2 DEF Spelled
<1>17. Parse(o, c, k, p)
  BY <1>12, <1>13, <1>14, <1>15, <1>16 DEF Parse
<1>18. o = Extended(own, L + 1, w2) /\ c = Extended(at, L + 1, a2)
  BY <1>6, <1>7 DEF Extended
<1> QED BY <1>1, <1>3, <1>17, <1>18

\* A stray byte comes to the back of the line, where a frame may begin.
LEMMA ParseStray ==
  ASSUME NEW l \in Seq(Byte), NEW p \in Seq(Sent), NEW own, NEW at, Parse(own, at, l, p),
         NEW b \in Byte, b # SOF, at[Len(l) + 1] = 1
  PROVE  Parse([n \in 1 .. (Len(l) + 1) + 1 |->
                 IF n <= Len(l) + 1 THEN own[n] ELSE own[Len(l) + 1]],
               [n \in 1 .. (Len(l) + 1) + 1 |->
                 IF n <= Len(l) THEN at[n] ELSE IF n = Len(l) + 1 THEN 0 ELSE 1],
               Append(l, b), p)
<1>1. PICK L \in Nat : L = Len(l)
  BY LenProperties
<1>2. PICK P \in Nat : P = Len(p)
  BY LenProperties
<1>3. PICK k \in Seq(Byte) : /\ k = Append(l, b) /\ Len(k) = L + 1
                             /\ k[L + 1] = b /\ \A i \in 1 .. L : k[i] = l[i]
  <2>1. /\ Append(l, b) \in Seq(Byte) /\ Len(Append(l, b)) = Len(l) + 1
        /\ \A i \in 1 .. Len(l) : Append(l, b)[i] = l[i]
        /\ Append(l, b)[Len(l) + 1] = b
    BY AppendProperties
  <2> QED BY <1>1, <2>1
<1>4. PICK w : w = own[L + 1]
  OBVIOUS
<1>5. PICK o : o = [n \in 1 .. (L + 1) + 1 |-> IF n <= L + 1 THEN own[n] ELSE w]
  OBVIOUS
<1>6. PICK c : c = [n \in 1 .. (L + 1) + 1 |->
                      IF n <= L THEN at[n] ELSE IF n = L + 1 THEN 0 ELSE 1]
  OBVIOUS
<1>7. /\ \A n \in 1 .. L : o[n] = own[n] /\ c[n] = at[n]
      /\ o[(L + 1) + 1] = w /\ c[(L + 1) + 1] = 1
      /\ o[L + 1] = w /\ c[L + 1] = 0
  <2>1. \A n \in 1 .. L : n \in 1 .. (L + 1) + 1 /\ n <= L + 1 /\ n <= L
    OBVIOUS
  <2>2. \A n \in 1 .. L : o[n] = own[n] /\ c[n] = at[n]
    BY <1>5, <1>6, <2>1
  <2>3. o[(L + 1) + 1] = w /\ c[(L + 1) + 1] = 1
    BY <1>5, <1>6
  <2>4. o[L + 1] = w /\ c[L + 1] = 0
    BY <1>4, <1>5, <1>6
  <2> QED BY <2>2, <2>3, <2>4
<1>8. /\ own \in [1 .. L + 1 -> Nat \ {0}] /\ at \in [1 .. L + 1 -> Nat]
      /\ \A n \in 1 .. L + 1 :
           \/ own[n] <= P /\ at[n] <= Size(p[own[n]])
           \/ own[n] = P + 1 /\ at[n] \in {0, 1}
      /\ \A n \in 1 .. L : at[n] # 0 => own[n] <= P
  BY <1>1, <1>2 DEF Parse, Places
<1>9. \A n \in 1 .. (L + 1) + 1 : n \in 1 .. L \/ n = L + 1 \/ n = (L + 1) + 1
  OBVIOUS
<1>10. \A n \in 1 .. L + 1 : n \in 1 .. L \/ n = L + 1
  OBVIOUS
<1>11. at[L + 1] = 1 /\ L + 1 \in 1 .. L + 1
  BY <1>1
<1>12. w \in Nat /\ w # 0
  BY <1>4, <1>8, <1>11
<1>13. \A n \in 1 .. L : n \in 1 .. L + 1
  OBVIOUS
<1>14. Places(o, c, k, p)
  <2>1. \A n \in 1 .. L + 1 : own[n] \in Nat \ {0} /\ at[n] \in Nat
    BY <1>8
  <2>2. ASSUME NEW n \in 1 .. (L + 1) + 1
        PROVE  o[n] \in Nat \ {0} /\ c[n] \in Nat
    <3>1. n \in 1 .. L => o[n] \in Nat \ {0} /\ c[n] \in Nat
      BY <1>7, <1>13, <2>1
    <3>2. n = L + 1 \/ n = (L + 1) + 1 => o[n] \in Nat \ {0} /\ c[n] \in Nat
      BY <1>7, <1>12
    <3> QED BY <1>9, <3>1, <3>2
  <2>3. o \in [1 .. (L + 1) + 1 -> Nat \ {0}] /\ c \in [1 .. (L + 1) + 1 -> Nat]
    BY <1>5, <1>6, <2>2
  <2>4. \/ w <= P /\ 1 <= Size(p[w])
        \/ w = P + 1
    BY <1>4, <1>8, <1>11
  <2>5. w <= P => 0 <= Size(p[w])
    <3> SUFFICES ASSUME w <= P
                 PROVE  0 <= Size(p[w])
      OBVIOUS
    <3>1. w \in 1 .. P
      BY <1>12
    <3>2. p[w] \in Sent
      BY <1>2, <3>1, ElementOfSeq
    <3>3. PICK y \in 5 .. 260 : y = Size(p[w])
      BY <3>2, EncodeBytes
    <3>4. 0 <= y
      OBVIOUS
    <3> QED BY <3>3, <3>4
  <2>6. ASSUME NEW n \in 1 .. (L + 1) + 1
        PROVE  \/ o[n] <= P /\ c[n] <= Size(p[o[n]])
               \/ o[n] = P + 1 /\ c[n] \in {0, 1}
    <3>1. CASE n \in 1 .. L
      BY <1>7, <1>8, <1>13, <3>1
    <3>2. CASE n = L + 1
      BY <1>7, <2>4, <2>5, <3>2
    <3>3. CASE n = (L + 1) + 1
      BY <1>7, <2>4, <3>3
    <3> QED BY <1>9, <3>1, <3>2, <3>3
  <2>7. ASSUME NEW n \in 1 .. L + 1, c[n] # 0
        PROVE  o[n] <= P
    BY <1>7, <1>8, <1>10, <2>7
  <2> QED BY <1>2, <1>3, <2>3, <2>6, <2>7 DEF Places
<1>15. InTurn(o, k)
  <2>1. \A n, m \in 1 .. L + 1 : n <= m => own[n] <= own[m]
    BY <1>1 DEF Parse, InTurn
  <2>2. ASSUME NEW n \in 1 .. (L + 1) + 1, NEW m \in 1 .. (L + 1) + 1, n <= m
        PROVE  o[n] <= o[m]
    <3>1. CASE m \in 1 .. L
      <4>1. n \in 1 .. L
        BY <2>2, <3>1
      <4>2. own[n] <= own[m]
        BY <1>13, <2>1, <2>2, <3>1, <4>1
      <4> QED BY <1>7, <3>1, <4>1, <4>2
    <3>2. CASE m \notin 1 .. L /\ n \in 1 .. L
      <4>1. o[m] = w
        BY <1>7, <1>9, <3>2
      <4>2. n <= L + 1
        BY <3>2
      <4>3. own[n] <= w
        BY <1>4, <1>11, <1>13, <2>1, <3>2, <4>2
      <4> QED BY <1>7, <3>2, <4>1, <4>3
    <3>3. CASE m \notin 1 .. L /\ n \notin 1 .. L
      <4>1. o[m] = w /\ o[n] = w
        BY <1>7, <1>9, <3>3
      <4> QED BY <1>12, <4>1
    <3> QED BY <3>1, <3>2, <3>3, <2>2
  <2> QED BY <1>3, <2>2 DEF InTurn
<1>16. Whole(o, c, k, p)
  <2>1. \A n, m \in 1 .. L + 1 :
          n <= m /\ own[n] <= P /\ at[n] # 0 /\ at[n] + (m - n) <= Size(p[own[n]])
          => own[m] = own[n] /\ at[m] = at[n] + (m - n)
    BY <1>1, <1>2 DEF Parse, Whole
  <2>2. ASSUME NEW n \in 1 .. (L + 1) + 1, NEW m \in 1 .. (L + 1) + 1,
               n <= m, o[n] <= P, c[n] # 0, c[n] + (m - n) <= Size(p[o[n]])
        PROVE  o[m] = o[n] /\ c[m] = c[n] + (m - n)
    <3>1. CASE n \in 1 .. L /\ m \in 1 .. L
      <4>1. o[n] = own[n] /\ c[n] = at[n] /\ o[m] = own[m] /\ c[m] = at[m]
        BY <1>7, <3>1
      <4> QED BY <1>13, <2>1, <2>2, <3>1, <4>1
    <3>2. CASE n \in 1 .. L /\ m \notin 1 .. L
      <4>1. PICK x \in Nat : x = c[n] /\ x = at[n] /\ o[n] = own[n]
        BY <1>7, <1>8, <1>13, <3>2
      <4>2. PICK y \in Nat : y = Size(p[own[n]])
        <5>1. PICK v \in Nat \ {0} : v = own[n]
          BY <1>8, <1>13, <3>2
        <5>2. v \in 1 .. P
          BY <2>2, <4>1, <5>1
        <5>3. p[v] \in Sent
          BY <1>2, <5>2, ElementOfSeq
        <5> QED BY <5>1, <5>3, EncodeBytes
      <4>3. x + (m - n) <= y
        BY <2>2, <4>1, <4>2
      <4>4. x + ((L + 1) - n) <= y /\ n <= L + 1
        BY <3>2, <4>3
      <4>5. at[L + 1] = x + ((L + 1) - n)
        BY <1>11, <1>13, <2>1, <2>2, <3>2, <4>1, <4>2, <4>4
      <4>6. x # 0
        BY <2>2, <4>1
      <4>7. x + ((L + 1) - n) # 1
        BY <3>2, <4>6
      <4> QED BY <1>11, <4>5, <4>7
    <3>3. CASE n \notin 1 .. L
      <4>1. n = (L + 1) + 1 /\ m = (L + 1) + 1
        BY <1>7, <1>9, <2>2, <3>3
      <4> QED BY <1>7, <1>12, <4>1
    <3> QED BY <3>1, <3>2, <3>3
  <2> QED BY <1>2, <1>3, <2>2 DEF Whole
<1>17. Bounds(o, c, k, p)
  <2>1. \A n \in 1 .. L :
          /\ at[n] = 0 => own[n + 1] = own[n] /\ at[n + 1] \in {0, 1}
          /\ own[n] <= P /\ at[n] = Size(p[own[n]])
             => own[n + 1] = own[n] + 1 /\ at[n + 1] \in {0, 1}
    BY <1>1, <1>2 DEF Parse, Bounds
  <2>2. ASSUME NEW n \in 1 .. L + 1
        PROVE  /\ c[n] = 0 => o[n + 1] = o[n] /\ c[n + 1] \in {0, 1}
               /\ o[n] <= P /\ c[n] = Size(p[o[n]])
                  => o[n + 1] = o[n] + 1 /\ c[n + 1] \in {0, 1}
    <3>1. CASE n \in 1 .. L
      <4>1. o[n] = own[n] /\ c[n] = at[n]
        BY <1>7, <3>1
      <4>2. o[n + 1] = own[n + 1] /\ (at[n + 1] \in {0, 1} => c[n + 1] \in {0, 1})
        <5>1. CASE n = L
          BY <1>4, <1>7, <5>1
        <5>2. CASE n # L
          <6>1. n + 1 \in 1 .. L
            BY <3>1, <5>2
          <6> QED BY <1>7, <6>1
        <5> QED BY <5>1, <5>2
      <4> QED BY <2>1, <3>1, <4>1, <4>2
    <3>2. CASE n = L + 1
      <4>1. o[n] = w /\ c[n] = 0 /\ o[n + 1] = w /\ c[n + 1] = 1
        BY <1>7, <3>2
      <4>2. w <= P => Size(p[w]) # 0
        <5> SUFFICES ASSUME w <= P
                     PROVE  Size(p[w]) # 0
          OBVIOUS
        <5>1. w \in 1 .. P
          BY <1>12
        <5>2. p[w] \in Sent
          BY <1>2, <5>1, ElementOfSeq
        <5>3. PICK y \in 5 .. 260 : y = Size(p[w])
          BY <5>2, EncodeBytes
        <5>4. y # 0
          OBVIOUS
        <5> QED BY <5>3, <5>4
      <4> QED BY <4>1, <4>2
    <3> QED BY <1>10, <3>1, <3>2
  <2> QED BY <1>2, <1>3, <2>2 DEF Bounds
<1>18. Spelled(o, c, k, p)
  <2>1. \A n \in 1 .. L :
          IF at[n] = 0 THEN l[n] # SOF ELSE l[n] = Encode(p[own[n]])[at[n]]
    BY <1>1 DEF Parse, Spelled
  <2>2. ASSUME NEW n \in 1 .. L + 1
        PROVE  IF c[n] = 0 THEN k[n] # SOF ELSE k[n] = Encode(p[o[n]])[c[n]]
    <3>1. CASE n \in 1 .. L
      <4>1. o[n] = own[n] /\ c[n] = at[n] /\ k[n] = l[n]
        BY <1>3, <1>7, <3>1
      <4>2. IF at[n] = 0 THEN l[n] # SOF ELSE l[n] = Encode(p[own[n]])[at[n]]
        BY <2>1, <3>1
      <4> QED BY <4>1, <4>2
    <3>2. CASE n = L + 1
      BY <1>3, <1>7, <3>2
    <3> QED BY <1>10, <3>1, <3>2
  <2> QED BY <1>3, <2>2 DEF Spelled
<1>19. Parse(o, c, k, p)
  BY <1>14, <1>15, <1>16, <1>17, <1>18 DEF Parse
<1> QED BY <1>1, <1>3, <1>4, <1>5, <1>6, <1>19

-----------------------------------------------------------------------------
(* The inductive invariant.                                                 *)

\* The types; what is queued is encoded, and a write is in progress unless nothing is.
Types ==
  /\ send_queue \in Seq(Encoded)
  /\ send_in_progress = (send_queue # <<>>)
  /\ written \in 0 .. 260
  /\ send_queue # <<>> => written <= Len(send_queue[1])
  /\ line \in Seq(Byte)
  /\ reading \in {"sof", "length", "frame"}
  /\ need \in 0 .. 258
  /\ stopped \in BOOLEAN
  /\ calls \in 0 .. MaxFrames /\ noise \in 0 .. MaxNoise /\ corrupt \in 0 .. MaxCorrupt
  /\ pending \in Seq(Sent) /\ received \in Seq(Frame)

\* The frames queued are the last ones pending; the front one may have been read already.
Queued ==
  \A i \in 1 .. Len(send_queue), j \in 1 .. Len(pending) :
    i + Len(pending) = j + Len(send_queue) => send_queue[i] = Encode(pending[j])

\* The reader is at the place of the first frame it waits for.
Reader(own, at) ==
  /\ own[1] = 1
  /\ \/ reading = "sof" /\ at[1] \in {0, 1}
     \/ reading = "length" /\ at[1] = 2
     \/ reading = "frame" /\ at[1] = 3 /\ need = Len(pending[1].payload) + 3

\* The writer is at the place of the frame at the front of the queue, or behind it.
Writer(own, at) ==
  LET o == own[Len(line) + 1]
      a == at[Len(line) + 1]
  IN \/ send_queue = <<>> /\ o = Len(pending) + 1 /\ a = 1
     \/ /\ send_queue # <<>> /\ written < Len(send_queue[1])
        /\ o + Len(send_queue) = Len(pending) + 1 /\ a = written + 1
     \/ /\ send_queue # <<>> /\ written = Len(send_queue[1])
        /\ o + Len(send_queue) = Len(pending) + 2 /\ a = 1

Framed ==
  \E own, at : Parse(own, at, line, pending) /\ Reader(own, at) /\ Writer(own, at)

IInv == Types /\ Queued /\ Framed /\ OneFrameLostPerError

\* What is encoded is a list of bytes, and not too long.
LEMMA EncodedType ==
  ASSUME NEW e \in Encoded
  PROVE  e \in Seq(Byte) /\ Len(e) \in 5 .. 260
<1>1. PICK f \in Sent : e = Encode(f)
  BY DEF Encoded
<1>2. Encode(f) \in Seq(Byte) /\ Len(Encode(f)) = Size(f) /\ Size(f) \in 5 .. 260
  BY EncodeBytes
<1> QED BY <1>1, <1>2

\* The types of the model follow.
LEMMA TypesSuffice == Types => TypeOK
<1> SUFFICES ASSUME Types
             PROVE  TypeOK
  OBVIOUS
<1>1. Encoded \subseteq Seq(Byte)
  BY EncodedType
<1>2. send_queue \in Seq(Seq(Byte))
  BY <1>1, SeqMonotonic DEF Types
<1>3. Sent \subseteq Frame
  BY DEF Sent
<1>4. pending \in Seq(Frame)
  BY <1>3, SeqMonotonic DEF Types
<1>5. send_in_progress \in BOOLEAN
  BY DEF Types
<1> QED BY <1>2, <1>4, <1>5 DEF Types, TypeOK

\* At the start nothing is on the line and a frame may begin.
LEMMA InitInv == Init => IInv
<1> SUFFICES ASSUME Init
             PROVE  IInv
  OBVIOUS
<1> USE LineAssumption
<1>1. Types
  <2>1. <<>> \in Seq(Encoded) /\ <<>> \in Seq(Byte) /\ <<>> \in Seq(Sent) /\ <<>> \in Seq(Frame)
    BY EmptySeq
  <2>2. 0 \in 0 .. MaxFrames /\ 0 \in 0 .. MaxNoise /\ 0 \in 0 .. MaxCorrupt
    OBVIOUS
  <2>3. 0 \in 0 .. 260 /\ 0 \in 0 .. 258
    OBVIOUS
  <2>4. send_queue = <<>> /\ send_in_progress = (send_queue # <<>>)
    BY DEF Init
  <2> QED BY <2>1, <2>2, <2>3, <2>4 DEF Init, Types
<1>2. Len(line) = 0 /\ Len(pending) = 0 /\ Len(send_queue) = 0 /\ Len(received) = 0
  BY EmptySeq DEF Init
<1>3. Queued
  BY <1>2 DEF Queued
<1>4. Framed
  <2>1. PICK own : own = [n \in 1 .. 1 |-> 1]
    OBVIOUS
  <2>2. own \in [1 .. 1 -> Nat \ {0}] /\ own \in [1 .. 1 -> Nat] /\ own[1] = 1
    BY <2>1
  <2>3. \A n \in 1 .. 1 : n = 1
    OBVIOUS
  <2>4. Parse(own, own, line, pending)
    <3>1. Places(own, own, line, pending)
      BY <1>2, <2>2, <2>3 DEF Places
    <3>2. InTurn(own, line)
      BY <1>2, <2>2, <2>3 DEF InTurn
    <3>3. Whole(own, own, line, pending)
      BY <1>2, <2>2, <2>3 DEF Whole
    <3>4. Bounds(own, own, line, pending)
      BY <1>2 DEF Bounds
    <3>5. Spelled(own, own, line, pending)
      BY <1>2 DEF Spelled
    <3> QED BY <3>1, <3>2, <3>3, <3>4, <3>5 DEF Parse
  <2>5. Reader(own, own)
    BY <2>2 DEF Reader, Init
  <2>6. Writer(own, own)
    BY <1>2, <2>2 DEF Writer, Init
  <2> QED BY <2>4, <2>5, <2>6 DEF Framed
<1>5. OneFrameLostPerError
  BY <1>2 DEF OneFrameLostPerError, Init
<1> QED BY <1>1, <1>3, <1>4, <1>5 DEF IInv

-----------------------------------------------------------------------------
(* The steps.                                                               *)

\* The first frame pending is where the reader is, once its marker was read.
LEMMA FrameOpen ==
  ASSUME Types, NEW own, NEW at, Parse(own, at, line, pending), Reader(own, at),
         reading # "sof"
  PROVE  /\ pending # <<>> /\ Len(pending) \in Nat \ {0}
         /\ pending[1] \in Sent
<1>1. at[1] \notin {0, 1} /\ own[1] = 1
  BY DEF Reader
<1>2. PICK L \in Nat : L = Len(line)
  BY LenProperties DEF Types
<1>3. PICK P \in Nat : P = Len(pending)
  BY LenProperties DEF Types
<1>4. 1 \in 1 .. L + 1
  OBVIOUS
<1>5. own[1] <= P
  BY <1>1, <1>2, <1>3, <1>4 DEF Parse, Places
<1>6. P # 0
  BY <1>1, <1>5
<1>7. 1 \in 1 .. P
  BY <1>6
<1>8. pending[1] \in Sent
  BY <1>3, <1>7, ElementOfSeq DEF Types
<1>9. pending # <<>>
  BY <1>3, <1>6, EmptySeq
<1> QED BY <1>3, <1>6, <1>8, <1>9

\* SendFrame.
LEMMA SendFrameStep ==
  ASSUME IInv, NEW f \in Frame, SendFrame(f)
  PROVE  IInv'
<1>1. f \in Sent
  BY DEF SendFrame, Sent
<1>2. PICK P \in Nat : P = Len(pending)
  BY LenProperties DEF IInv, Types
<1>3. PICK q \in Nat : q = Len(send_queue)
  BY LenProperties DEF IInv, Types
<1>4. PICK L \in Nat : L = Len(line)
  BY LenProperties DEF IInv, Types
<1>5. Encode(f) \in Encoded
  BY <1>1 DEF Encoded
<1>6. /\ pending' = Append(pending, f) /\ pending' \in Seq(Sent) /\ Len(pending') = P + 1
      /\ \A i \in 1 .. P : pending'[i] = pending[i]
      /\ pending'[P + 1] = f
  <2>1. /\ Append(pending, f) \in Seq(Sent) /\ Len(Append(pending, f)) = Len(pending) + 1
        /\ \A i \in 1 .. Len(pending) : Append(pending, f)[i] = pending[i]
        /\ Append(pending, f)[Len(pending) + 1] = f
    BY <1>1, AppendProperties DEF IInv, Types
  <2>2. pending' = Append(pending, f)
    BY DEF SendFrame
  <2> QED BY <1>2, <2>1, <2>2
<1>7. /\ send_queue' \in Seq(Encoded) /\ Len(send_queue') = q + 1
      /\ \A i \in 1 .. q : send_queue'[i] = send_queue[i]
      /\ send_queue'[q + 1] = Encode(f)
  <2> DEFINE e == Encode(f)
  <2> HIDE DEF e
  <2>1. /\ Append(send_queue, e) \in Seq(Encoded)
        /\ Len(Append(send_queue, e)) = Len(send_queue) + 1
        /\ \A i \in 1 .. Len(send_queue) : Append(send_queue, e)[i] = send_queue[i]
        /\ Append(send_queue, e)[Len(send_queue) + 1] = e
    BY <1>5, AppendProperties DEF IInv, Types, e
  <2>2. send_queue' = Append(send_queue, e)
    BY DEF SendFrame, e
  <2>3. /\ send_queue' \in Seq(Encoded) /\ Len(send_queue') = q + 1
        /\ \A i \in 1 .. q : send_queue'[i] = send_queue[i]
        /\ send_queue'[q + 1] = e
    BY <1>3, <2>1, <2>2
  <2> QED BY <2>3 DEF e
<1>8. send_queue' # <<>>
  <2>1. q + 1 # 0
    OBVIOUS
  <2> QED BY <1>7, <2>1, EmptySeq
<1>9. send_queue = <<>> <=> q = 0
  BY <1>3, EmptySeq DEF IInv, Types
<1>10. send_in_progress = (send_queue # <<>>)
  BY DEF IInv, Types
<1>11. q # 0 => send_queue'[1] = send_queue[1] /\ written' = written
  <2> SUFFICES ASSUME q # 0
               PROVE  send_queue'[1] = send_queue[1] /\ written' = written
    OBVIOUS
  <2>1. 1 \in 1 .. q
    OBVIOUS
  <2>2. send_in_progress
    BY <1>9, <1>10
  <2> QED BY <1>7, <2>1, <2>2 DEF SendFrame
<1>12. q = 0 => send_queue'[1] = Encode(f) /\ written' = 0
  <2> SUFFICES ASSUME q = 0
               PROVE  send_queue'[1] = Encode(f) /\ written' = 0
    OBVIOUS
  <2>1. ~send_in_progress
    BY <1>9, <1>10
  <2>2. q + 1 = 1
    OBVIOUS
  <2> QED BY <1>7, <2>1, <2>2 DEF SendFrame
<1>13. PICK z \in 5 .. 260 : z = Len(Encode(f))
  BY <1>1, EncodeBytes
<1>14. Types'
  <2>1. written' \in 0 .. 260
    BY DEF IInv, Types, SendFrame
  <2>2. written' <= Len(send_queue'[1])
    <3>1. CASE q = 0
      <4>1. 0 <= z
        OBVIOUS
      <4> QED BY <1>12, <1>13, <3>1, <4>1
    <3>2. CASE q # 0
      BY <1>9, <1>11, <3>2 DEF IInv, Types
    <3> QED BY <3>1, <3>2
  <2>3. send_in_progress' = (send_queue' # <<>>)
    BY <1>8 DEF SendFrame
  <2>4. calls' \in 0 .. MaxFrames
    BY LineAssumption DEF IInv, Types, SendFrame
  <2>5. /\ line' \in Seq(Byte) /\ reading' \in {"sof", "length", "frame"}
        /\ need' \in 0 .. 258 /\ stopped' \in BOOLEAN
        /\ noise' \in 0 .. MaxNoise /\ corrupt' \in 0 .. MaxCorrupt
        /\ received' \in Seq(Frame)
    BY DEF IInv, Types, SendFrame, receiverVars
  <2> QED BY <1>6, <1>7, <2>1, <2>2, <2>3, <2>4, <2>5 DEF Types
<1>15. Queued'
  <2>1. \A i \in 1 .. q, j \in 1 .. P : i + P = j + q => send_queue[i] = Encode(pending[j])
    BY <1>2, <1>3 DEF IInv, Queued
  <2>2. ASSUME NEW i \in 1 .. q + 1, NEW j \in 1 .. P + 1, i + (P + 1) = j + (q + 1)
        PROVE  send_queue'[i] = Encode(pending'[j])
    <3>1. CASE i = q + 1
      <4>1. j = P + 1
        BY <2>2, <3>1
      <4> QED BY <1>6, <1>7, <3>1, <4>1
    <3>2. CASE i # q + 1
      <4>1. i \in 1 .. q /\ j \in 1 .. P /\ i + P = j + q
        BY <2>2, <3>2
      <4> QED BY <1>6, <1>7, <2>1, <4>1
    <3> QED BY <3>1, <3>2
  <2> QED BY <1>6, <1>7, <2>2 DEF Queued
<1>16. Framed'
  <2>1. PICK own, at : Parse(own, at, line, pending) /\ Reader(own, at) /\ Writer(own, at)
    BY DEF IInv, Framed
  <2>2. line' = line /\ reading' = reading /\ need' = need
    BY DEF SendFrame, receiverVars
  <2>3. line \in Seq(Byte) /\ pending \in Seq(Sent)
    BY DEF IInv, Types
  <2>4. Parse(own, at, line, Append(pending, f))
    BY <1>1, <2>1, <2>3, ParseSent
  <2>5. Parse(own, at, line', pending')
    BY <1>6, <2>2, <2>4
  <2>6. Reader(own, at)'
    <3>1. CASE reading = "sof"
      BY <2>1, <2>2, <3>1 DEF Reader
    <3>2. CASE reading # "sof"
      <4>1. P # 0
        BY <1>2, <2>1, <3>2, FrameOpen DEF IInv
      <4>2. 1 \in 1 .. P
        BY <4>1
      <4>3. pending'[1] = pending[1]
        BY <1>6, <4>2
      <4> QED BY <2>1, <2>2, <4>3 DEF Reader
    <3> QED BY <3>1, <3>2
  <2>7. Writer(own, at)'
    <3> DEFINE o == own[Len(line) + 1]
               a == at[Len(line) + 1]
    <3>1. PICK u \in Nat : u = o
      <4>1. L + 1 \in 1 .. L + 1
        OBVIOUS
      <4> QED BY <1>4, <2>1, <4>1 DEF Parse, Places
    <3>2. CASE q = 0
      <4>1. o = P + 1 /\ a = 1
        BY <1>2, <1>9, <2>1, <3>2 DEF Writer
      <4>2. 0 < z /\ u + (q + 1) = (P + 1) + 1 /\ 1 = 0 + 1
        BY <3>1, <3>2, <4>1
      <4> QED BY <1>6, <1>7, <1>8, <1>12, <1>13, <2>2, <3>1, <3>2, <4>1, <4>2 DEF Writer
    <3>3. CASE q # 0 /\ written < Len(send_queue[1])
      <4>1. o + q = P + 1 /\ a = written + 1
        BY <1>2, <1>3, <1>9, <2>1, <3>3 DEF Writer
      <4>2. u + (q + 1) = (P + 1) + 1
        BY <3>1, <4>1
      <4> QED BY <1>6, <1>7, <1>8, <1>11, <2>2, <3>1, <3>3, <4>1, <4>2 DEF Writer
    <3>4. CASE q # 0 /\ written = Len(send_queue[1])
      <4>1. o + q = P + 2 /\ a = 1
        BY <1>2, <1>3, <1>9, <2>1, <3>4 DEF Writer
      <4>2. u + (q + 1) = (P + 1) + 2
        BY <3>1, <4>1
      <4> QED BY <1>6, <1>7, <1>8, <1>11, <2>2, <3>1, <3>4, <4>1, <4>2 DEF Writer
    <3>5. q # 0 => written < Len(send_queue[1]) \/ written = Len(send_queue[1])
      BY <1>9, <2>1 DEF Writer
    <3> QED BY <3>2, <3>3, <3>4, <3>5
  <2> QED BY <2>5, <2>6, <2>7 DEF Framed
<1>17. OneFrameLostPerError'
  <2>1. PICK x \in Nat : x = Len(received)
    BY LenProperties DEF IInv, Types
  <2>2. corrupt \in Nat /\ calls \in Nat
    BY LineAssumption DEF IInv, Types
  <2>3. x + P + corrupt = calls
    BY <1>2, <2>1 DEF IInv, OneFrameLostPerError
  <2>4. received' = received /\ corrupt' = corrupt /\ calls' = calls + 1
    BY DEF SendFrame, receiverVars
  <2>5. x + (P + 1) + corrupt = calls + 1
    BY <2>2, <2>3
  <2> QED BY <1>6, <2>1, <2>4, <2>5 DEF OneFrameLostPerError
<1> QED BY <1>14, <1>15, <1>16, <1>17 DEF IInv

\* What a step leaves alone keeps the count of the frames.
LEMMA CountKept ==
  ASSUME OneFrameLostPerError,
         pending' = pending, received' = received, corrupt' = corrupt, calls' = calls
  PROVE  OneFrameLostPerError'
  BY DEF OneFrameLostPerError

\* A frame queued is that of the frame pending where the writer is.
LEMMA WriterPlace ==
  ASSUME IInv, send_queue # <<>>, NEW own, NEW at, Parse(own, at, line, pending),
         Writer(own, at), written < Len(send_queue[1])
  PROVE  /\ own[Len(line) + 1] \in 1 .. Len(pending)
         /\ send_queue[1] = Encode(pending[own[Len(line) + 1]])
         /\ Len(send_queue[1]) = Size(pending[own[Len(line) + 1]])
         /\ own[Len(line) + 1] + Len(send_queue) = Len(pending) + 1
         /\ at[Len(line) + 1] = written + 1
<1>1. PICK P \in Nat : P = Len(pending)
  BY LenProperties DEF IInv, Types
<1>2. PICK q \in Nat : q = Len(send_queue) /\ q # 0
  BY LenProperties, EmptySeq DEF IInv, Types
<1>3. PICK L \in Nat : L = Len(line)
  BY LenProperties DEF IInv, Types
<1>4. PICK u \in Nat \ {0} : u = own[L + 1]
  <2>1. L + 1 \in 1 .. L + 1
    OBVIOUS
  <2> QED BY <1>3, <2>1 DEF Parse, Places
<1>5. PICK z \in 5 .. 260 : z = Len(send_queue[1])
  <2>1. 1 \in 1 .. q
    BY <1>2
  <2>2. send_queue[1] \in Encoded
    BY <1>2, <2>1, ElementOfSeq DEF IInv, Types
  <2> QED BY <2>2, EncodedType
<1>6. written \in Nat /\ written < z
  BY <1>5 DEF IInv, Types
<1>7. u + q = P + 1 /\ at[L + 1] = written + 1
  <2>1. written # z
    BY <1>6
  <2>2. /\ own[Len(line) + 1] + Len(send_queue) = Len(pending) + 1
        /\ at[Len(line) + 1] = written + 1
    BY <1>5, <2>1 DEF Writer
  <2> QED BY <1>1, <1>2, <1>3, <1>4, <2>2
<1>8. u \in 1 .. P /\ 1 \in 1 .. q /\ 1 + P = u + q
  BY <1>2, <1>7
<1>9. send_queue[1] = Encode(pending[u])
  BY <1>1, <1>2, <1>8 DEF IInv, Queued
<1>10. pending[u] \in Sent
  BY <1>1, <1>8, ElementOfSeq DEF IInv, Types
<1>11. Len(send_queue[1]) = Size(pending[u])
  BY <1>9, <1>10, EncodeBytes
<1> QED BY <1>1, <1>2, <1>3, <1>4, <1>7, <1>8, <1>9, <1>11

\* async_write: a byte goes from the front buffer to the line.
LEMMA WriteByteStep ==
  ASSUME IInv, WriteByte
  PROVE  IInv'
<1>1. send_queue # <<>>
  BY DEF IInv, Types, WriteByte
<1>2. PICK own, at : Parse(own, at, line, pending) /\ Reader(own, at) /\ Writer(own, at)
  BY DEF IInv, Framed
<1>3. PICK L \in Nat : L = Len(line)
  BY LenProperties DEF IInv, Types
<1>4. PICK q \in Nat : q = Len(send_queue) /\ q # 0
  BY <1>1, LenProperties, EmptySeq DEF IInv, Types
<1>5. Head(send_queue) = send_queue[1]
  BY <1>1, HeadTailProperties DEF IInv, Types
<1>6. PICK z \in 5 .. 260 : z = Len(send_queue[1])
  <2>1. 1 \in 1 .. q
    BY <1>4
  <2>2. send_queue[1] \in Encoded
    BY <1>4, <2>1, ElementOfSeq DEF IInv, Types
  <2> QED BY <2>2, EncodedType
<1>7. PICK v \in 0 .. 260 : v = written /\ v < z
  BY <1>5, <1>6 DEF IInv, Types, WriteByte
<1>8. /\ send_queue' = send_queue /\ send_in_progress' = send_in_progress
      /\ written' = v + 1 /\ stopped' = stopped /\ calls' = calls /\ noise' = noise
      /\ corrupt' = corrupt /\ pending' = pending
      /\ reading' = reading /\ need' = need /\ received' = received
  BY <1>7 DEF WriteByte, receiverVars
<1>9. PICK w \in 1 .. Len(pending) :
         /\ w = own[L + 1] /\ send_queue[1] = Encode(pending[w])
         /\ z = Size(pending[w])
         /\ w + q = Len(pending) + 1 /\ at[L + 1] = v + 1
  <2>1. written < Len(send_queue[1])
    BY <1>6, <1>7
  <2>2. /\ own[Len(line) + 1] \in 1 .. Len(pending)
        /\ send_queue[1] = Encode(pending[own[Len(line) + 1]])
        /\ Len(send_queue[1]) = Size(pending[own[Len(line) + 1]])
        /\ own[Len(line) + 1] + Len(send_queue) = Len(pending) + 1
        /\ at[Len(line) + 1] = written + 1
    BY <1>1, <1>2, <2>1, WriterPlace
  <2> QED BY <1>3, <1>4, <1>6, <1>7, <2>2
<1>10. PICK b \in Byte : b = send_queue[1][v + 1] /\ line' = Append(line, b)
  <2>1. v + 1 \in 1 .. z
    BY <1>7
  <2>2. 1 \in 1 .. q
    BY <1>4
  <2>3. send_queue[1] \in Encoded
    BY <1>4, <2>2, ElementOfSeq DEF IInv, Types
  <2>4. send_queue[1][v + 1] \in Byte
    BY <1>6, <2>1, <2>3, EncodedType, ElementOfSeq
  <2>5. line' = Append(line, send_queue[1][v + 1])
    BY <1>5, <1>7 DEF WriteByte
  <2> QED BY <2>4, <2>5
<1>11. /\ Append(line, b) \in Seq(Byte) /\ Len(Append(line, b)) = L + 1
  BY <1>3, AppendProperties DEF IInv, Types
<1>12. Types'
  <2>1. v + 1 \in 0 .. 260 /\ v + 1 <= z
    BY <1>7
  <2> QED BY <1>6, <1>8, <1>10, <1>11, <2>1 DEF IInv, Types
<1>13. Queued'
  BY <1>8 DEF IInv, Queued
<1>14. OneFrameLostPerError'
  BY <1>8, CountKept DEF IInv
<1>15. Framed'
  <2>1. PICK w2, a2 : IF v + 1 < z THEN w2 = w /\ a2 = (v + 1) + 1
                                   ELSE w2 = w + 1 /\ a2 = 1
    <3>1. CASE v + 1 < z
      BY <3>1
    <3>2. CASE ~(v + 1 < z)
      BY <3>2
    <3> QED BY <3>1, <3>2
  <2>2. PICK a \in 1 .. z : a = v + 1
    BY <1>7
  <2>3. PICK o : o = Extended(own, L + 1, w2)
    OBVIOUS
  <2>4. PICK c : c = Extended(at, L + 1, a2)
    OBVIOUS
  <2>5. Parse(o, c, Append(line, b), pending)
    <3>1. line \in Seq(Byte) /\ pending \in Seq(Sent)
      BY DEF IInv, Types
    <3>2. a \in 1 .. Size(pending[w]) /\ own[Len(line) + 1] = w /\ at[Len(line) + 1] = a
      BY <1>3, <1>9, <2>2
    <3>3. b = Encode(pending[w])[a]
      BY <1>9, <1>10, <2>2
    <3>4. /\ a < Size(pending[w]) => w2 = w /\ a2 = a + 1
          /\ ~(a < Size(pending[w])) => w2 = w + 1 /\ a2 = 1
      BY <1>9, <2>1, <2>2
    <3>5. Parse(Extended(own, Len(line) + 1, w2), Extended(at, Len(line) + 1, a2),
                Append(line, b), pending)
      BY <1>2, <3>1, <3>2, <3>3, <3>4, ParseWrite
    <3> QED BY <1>3, <2>3, <2>4, <3>5
  <2>6. o[1] = own[1] /\ c[1] = at[1] /\ o[(L + 1) + 1] = w2 /\ c[(L + 1) + 1] = a2
    BY <2>3, <2>4 DEF Extended
  <2>7. Parse(o, c, line, pending)'
    BY <1>8, <1>10, <2>5
  <2>8. Reader(o, c)'
    BY <1>2, <1>8, <2>6 DEF Reader
  <2>9. Writer(o, c)'
    <3>1. PICK P \in Nat : P = Len(pending)
      BY LenProperties DEF IInv, Types
    <3>2. w \in Nat /\ w + q = P + 1
      BY <1>9, <3>1
    <3>3. Len(line') = L + 1
      BY <1>10, <1>11
    <3>4. CASE v + 1 < z
      <4>1. w2 + q = P + 1 /\ a2 = (v + 1) + 1
        BY <2>1, <3>2, <3>4
      <4> QED BY <1>1, <1>4, <1>6, <1>8, <2>6, <3>1, <3>3, <3>4, <4>1 DEF Writer
    <3>5. CASE ~(v + 1 < z)
      <4>1. w2 + q = P + 2 /\ a2 = 1 /\ v + 1 = z
        BY <1>7, <2>1, <3>2, <3>5
      <4> QED BY <1>1, <1>4, <1>6, <1>8, <2>6, <3>1, <3>3, <4>1 DEF Writer
    <3> QED BY <3>4, <3>5
  <2> QED BY <2>7, <2>8, <2>9 DEF Framed
<1> QED BY <1>12, <1>13, <1>14, <1>15 DEF IInv

\* SendHandler.
LEMMA SendHandlerStep ==
  ASSUME IInv, SendHandler
  PROVE  IInv'
<1>1. send_queue # <<>>
  BY DEF IInv, Types, SendHandler
<1>2. PICK q \in Nat : q + 1 = Len(send_queue)
  <2>1. PICK n \in Nat : n = Len(send_queue) /\ n # 0
    BY <1>1, LenProperties, EmptySeq DEF IInv, Types
  <2>2. n - 1 \in Nat /\ (n - 1) + 1 = n
    BY <2>1
  <2> QED BY <2>1, <2>2
<1>3. PICK P \in Nat : P = Len(pending)
  BY LenProperties DEF IInv, Types
<1>4. /\ Head(send_queue) = send_queue[1]
      /\ send_queue' \in Seq(Encoded) /\ Len(send_queue') = q
      /\ \A i \in 1 .. q : send_queue'[i] = send_queue[i + 1]
      /\ send_queue' = Tail(send_queue)
  <2>1. /\ Head(send_queue) = send_queue[1]
        /\ Tail(send_queue) \in Seq(Encoded) /\ Len(Tail(send_queue)) = Len(send_queue) - 1
        /\ \A i \in 1 .. Len(Tail(send_queue)) : Tail(send_queue)[i] = send_queue[i + 1]
    BY <1>1, HeadTailProperties DEF IInv, Types
  <2>2. send_queue' = Tail(send_queue)
    BY DEF SendHandler
  <2>3. Len(send_queue') = q
    BY <1>2, <2>1, <2>2
  <2> QED BY <2>1, <2>2, <2>3
<1>5. /\ send_in_progress' = (send_queue' # <<>>) /\ written' = 0
      /\ line' = line /\ stopped' = stopped /\ calls' = calls /\ noise' = noise
      /\ corrupt' = corrupt /\ pending' = pending
      /\ reading' = reading /\ need' = need /\ received' = received
  BY <1>4 DEF SendHandler, receiverVars
<1>6. send_queue' = <<>> <=> q = 0
  BY <1>4, EmptySeq
<1>7. q # 0 => 0 < Len(send_queue'[1])
  <2> SUFFICES ASSUME q # 0
               PROVE  0 < Len(send_queue'[1])
    OBVIOUS
  <2>1. 1 \in 1 .. q
    OBVIOUS
  <2>2. send_queue'[1] \in Encoded
    BY <1>4, <2>1, ElementOfSeq
  <2>3. PICK z \in 5 .. 260 : z = Len(send_queue'[1])
    BY <2>2, EncodedType
  <2>4. 0 < z
    OBVIOUS
  <2> QED BY <2>3, <2>4
<1>8. Types'
  <2>1. 0 \in 0 .. 260
    OBVIOUS
  <2>2. send_queue' # <<>> => 0 <= Len(send_queue'[1])
    <3> SUFFICES ASSUME q # 0
                 PROVE  0 <= Len(send_queue'[1])
      BY <1>6
    <3>1. 1 \in 1 .. q
      OBVIOUS
    <3>2. send_queue'[1] \in Encoded
      BY <1>4, <3>1, ElementOfSeq
    <3>3. PICK z \in 5 .. 260 : z = Len(send_queue'[1])
      BY <3>2, EncodedType
    <3>4. 0 <= z
      OBVIOUS
    <3> QED BY <3>3, <3>4
  <2> QED BY <1>4, <1>5, <2>1, <2>2 DEF IInv, Types
<1>9. Queued'
  <2>1. ASSUME NEW i \in 1 .. q, NEW j \in 1 .. P, i + P = j + q
        PROVE  send_queue'[i] = Encode(pending[j])
    <3>1. i + 1 \in 1 .. q + 1 /\ (i + 1) + P = j + (q + 1)
      BY <2>1
    <3>2. send_queue[i + 1] = Encode(pending[j])
      BY <1>2, <1>3, <3>1 DEF IInv, Queued
    <3> QED BY <1>4, <3>2
  <2> QED BY <1>3, <1>4, <1>5, <2>1 DEF Queued
<1>10. OneFrameLostPerError'
  BY <1>5, CountKept DEF IInv
<1>11. Framed'
  <2>1. PICK own, at : Parse(own, at, line, pending) /\ Reader(own, at) /\ Writer(own, at)
    BY DEF IInv, Framed
  <2>2. Parse(own, at, line, pending)'
    BY <1>5, <2>1
  <2>3. Reader(own, at)'
    BY <1>5, <2>1 DEF Reader
  <2>4. PICK L \in Nat : L = Len(line)
    BY LenProperties DEF IInv, Types
  <2>5. PICK u \in Nat : u = own[L + 1]
    <3>1. L + 1 \in 1 .. L + 1
      OBVIOUS
    <3> QED BY <2>1, <2>4, <3>1 DEF Parse, Places
  <2>6. u + (q + 1) = P + 2 /\ at[L + 1] = 1
    <3>1. PICK z \in 5 .. 260 : z = Len(send_queue[1])
      <4>1. 1 \in 1 .. q + 1
        OBVIOUS
      <4>2. send_queue[1] \in Encoded
        BY <1>2, <4>1, ElementOfSeq DEF IInv, Types
      <4> QED BY <4>2, EncodedType
    <3>2. written = z /\ ~(z < z)
      BY <1>4, <3>1 DEF SendHandler
    <3> QED BY <1>1, <1>2, <1>3, <2>1, <2>4, <2>5, <3>1, <3>2 DEF Writer
  <2>7. u + q = P + 1
    BY <2>6
  <2>8. Writer(own, at)'
    <3>1. CASE q = 0
      <4>1. u = P + 1
        BY <2>7, <3>1
      <4> QED BY <1>3, <1>5, <1>6, <2>4, <2>5, <2>6, <3>1, <4>1 DEF Writer
    <3>2. CASE q # 0
      <4>1. 1 = 0 + 1
        OBVIOUS
      <4> QED BY <1>3, <1>4, <1>5, <1>6, <1>7, <2>4, <2>5, <2>6, <2>7, <3>2, <4>1 DEF Writer
    <3> QED BY <3>1, <3>2
  <2> QED BY <2>2, <2>3, <2>8 DEF Framed
<1> QED BY <1>8, <1>9, <1>10, <1>11 DEF IInv

\* A step that leaves the sender, the reader and the line alone.
LEMMA OnErrorStep ==
  ASSUME IInv, OnError
  PROVE  IInv'
<1>1. /\ send_queue' = send_queue /\ send_in_progress' = send_in_progress
      /\ written' = written /\ line' = line /\ calls' = calls /\ noise' = noise
      /\ corrupt' = corrupt /\ pending' = pending
      /\ reading' = reading /\ need' = need /\ received' = received /\ stopped' = TRUE
  BY DEF OnError, senderVars, receiverVars
<1>2. Types'
  BY <1>1 DEF IInv, Types
<1>3. Queued'
  BY <1>1 DEF IInv, Queued
<1>4. Framed'
  BY <1>1 DEF IInv, Framed, Reader, Writer
<1>5. OneFrameLostPerError'
  BY <1>1, CountKept DEF IInv
<1> QED BY <1>2, <1>3, <1>4, <1>5 DEF IInv

\* A stray byte.
LEMMA NoiseStep ==
  ASSUME IInv, Noise
  PROVE  IInv'
<1>1. PICK b \in Garbled \ {SOF} : line' = Append(line, b)
  BY DEF Noise
<1>2. b \in Byte /\ b # SOF
  BY LineAssumption
<1>3. PICK L \in Nat : L = Len(line)
  BY LenProperties DEF IInv, Types
<1>4. /\ send_queue' = send_queue /\ send_in_progress' = send_in_progress
      /\ written' = written /\ stopped' = stopped /\ calls' = calls
      /\ corrupt' = corrupt /\ pending' = pending
      /\ reading' = reading /\ need' = need /\ received' = received
      /\ noise' = noise + 1 /\ noise < MaxNoise
  BY DEF Noise, senderVars, receiverVars
<1>5. Append(line, b) \in Seq(Byte) /\ Len(Append(line, b)) = L + 1
  BY <1>2, <1>3, AppendProperties DEF IInv, Types
<1>6. Types'
  <2>1. noise' \in 0 .. MaxNoise
    BY <1>4, LineAssumption DEF IInv, Types
  <2> QED BY <1>1, <1>4, <1>5, <2>1 DEF IInv, Types
<1>7. Queued'
  BY <1>4 DEF IInv, Queued
<1>8. OneFrameLostPerError'
  BY <1>4, CountKept DEF IInv
<1>9. PICK own, at : Parse(own, at, line, pending) /\ Reader(own, at) /\ Writer(own, at)
  BY DEF IInv, Framed
<1>10. at[L + 1] = 1
  <2>1. CASE send_queue = <<>>
    BY <1>3, <1>9, <2>1 DEF Writer
  <2>2. CASE send_queue # <<>>
    <3>1. written = 0
      BY <2>2 DEF IInv, Types, Noise
    <3>2. written + 1 = 1
      BY <3>1
    <3> QED BY <1>3, <1>9, <2>2, <3>1, <3>2 DEF Writer
  <2> QED BY <2>1, <2>2
<1>11. PICK o : o = [n \in 1 .. (L + 1) + 1 |->
                      IF n <= L + 1 THEN own[n] ELSE own[L + 1]]
  OBVIOUS
<1>12. PICK c : c = [n \in 1 .. (L + 1) + 1 |->
                      IF n <= L THEN at[n] ELSE IF n = L + 1 THEN 0 ELSE 1]
  OBVIOUS
<1>13. Parse(o, c, Append(line, b), pending)
  <2>1. line \in Seq(Byte) /\ pending \in Seq(Sent)
    BY DEF IInv, Types
  <2>2. at[Len(line) + 1] = 1
    BY <1>3, <1>10
  <2>3. Parse([n \in 1 .. (Len(line) + 1) + 1 |->
                 IF n <= Len(line) + 1 THEN own[n] ELSE own[Len(line) + 1]],
              [n \in 1 .. (Len(line) + 1) + 1 |->
                 IF n <= Len(line) THEN at[n] ELSE IF n = Len(line) + 1 THEN 0 ELSE 1],
              Append(line, b), pending)
    BY <1>2, <1>9, <2>1, <2>2, ParseStray
  <2> QED BY <1>3, <1>11, <1>12, <2>3
<1>14. /\ o[1] = own[1] /\ o[(L + 1) + 1] = own[L + 1]
       /\ c[(L + 1) + 1] = 1 /\ (L # 0 => c[1] = at[1]) /\ (L = 0 => c[1] = 0 /\ at[1] = 1)
  <2>1. o[1] = own[1] /\ o[(L + 1) + 1] = own[L + 1] /\ c[(L + 1) + 1] = 1
    BY <1>11, <1>12
  <2>2. L # 0 => c[1] = at[1]
    BY <1>12
  <2>3. L = 0 => c[1] = 0 /\ at[1] = 1
    BY <1>10, <1>12
  <2> QED BY <2>1, <2>2, <2>3
<1>15. Framed'
  <2>1. Parse(o, c, line, pending)'
    BY <1>1, <1>4, <1>13
  <2>2. Reader(o, c)'
    BY <1>4, <1>9, <1>14 DEF Reader
  <2>3. Writer(o, c)'
    <3>1. Len(line') = L + 1
      BY <1>1, <1>5
    <3> QED BY <1>3, <1>4, <1>9, <1>10, <1>14, <3>1 DEF Writer
  <2> QED BY <2>1, <2>2, <2>3 DEF Framed
<1> QED BY <1>6, <1>7, <1>8, <1>15 DEF IInv

\* The first byte of the line is read.
LEMMA ByteRead ==
  ASSUME IInv, line # <<>>, NEW own, NEW at, Parse(own, at, line, pending),
         Writer(own, at)
  PROVE  /\ Tail(line) \in Seq(Byte) /\ Len(line) = Len(Tail(line)) + 1
         /\ Head(line) = line[1] /\ Head(line) \in Byte
         /\ \E o, c : /\ Parse(o, c, Tail(line), pending)
                      /\ o[1] = own[2] /\ c[1] = at[2]
                      /\ o[Len(Tail(line)) + 1] = own[Len(line) + 1]
                      /\ c[Len(Tail(line)) + 1] = at[Len(line) + 1]
<1>1. line \in Seq(Byte) /\ pending \in Seq(Sent)
  BY DEF IInv, Types
<1>2. PICK R \in Nat : R + 1 = Len(line)
  <2>1. PICK n \in Nat : n = Len(line) /\ n # 0
    BY <1>1, LenProperties, EmptySeq
  <2>2. n - 1 \in Nat /\ (n - 1) + 1 = n
    BY <2>1
  <2> QED BY <2>1, <2>2
<1>3. PICK r \in Seq(Byte) : /\ r = Tail(line) /\ Len(r) = R
                             /\ \A i \in 1 .. R : r[i] = line[i + 1]
  <2>1. /\ Tail(line) \in Seq(Byte) /\ Len(Tail(line)) = Len(line) - 1
        /\ \A i \in 1 .. Len(Tail(line)) : Tail(line)[i] = line[i + 1]
    BY <1>1, HeadTailProperties
  <2>2. Len(Tail(line)) = R
    BY <1>2, <2>1
  <2> QED BY <2>1, <2>2
<1>4. Head(line) = line[1] /\ Head(line) \in Byte
  BY <1>1, HeadTailProperties
<1>5. PICK o : o = [n \in 1 .. R + 1 |-> own[n + 1]]
  OBVIOUS
<1>6. PICK c : c = [n \in 1 .. R + 1 |-> at[n + 1]]
  OBVIOUS
<1>7. Parse(o, c, r, pending)
  <2>1. PICK k \in 0 .. Len(line) : k = 1
    BY <1>2
  <2>2. Len(r) = Len(line) - k /\ \A n \in 1 .. Len(r) : r[n] = line[n + k]
    BY <1>2, <1>3, <2>1
  <2>3. Parse([n \in 1 .. Len(r) + 1 |-> own[n + k]],
              [n \in 1 .. Len(r) + 1 |-> at[n + k]], r, pending)
    BY <1>1, <2>2, ParseRead
  <2> QED BY <1>3, <1>5, <1>6, <2>1, <2>3
<1>8. /\ o[1] = own[2] /\ c[1] = at[2]
      /\ o[R + 1] = own[(R + 1) + 1] /\ c[R + 1] = at[(R + 1) + 1]
  BY <1>5, <1>6
<1> QED BY <1>2, <1>3, <1>4, <1>7, <1>8

\* StartOfFrameHandler: a stray byte is dropped, or a frame begins.
LEMMA StartOfFrameStep ==
  ASSUME IInv, StartOfFrameHandler
  PROVE  IInv'
<1>1. /\ send_queue' = send_queue /\ send_in_progress' = send_in_progress
      /\ written' = written /\ stopped' = stopped /\ calls' = calls /\ noise' = noise
      /\ corrupt' = corrupt /\ pending' = pending /\ need' = need /\ received' = received
      /\ reading = "sof" /\ line # <<>> /\ line' = Tail(line)
      /\ reading' = IF Head(line) = SOF THEN "length" ELSE "sof"
  BY DEF StartOfFrameHandler, senderVars
<1>2. PICK own, at : Parse(own, at, line, pending) /\ Reader(own, at) /\ Writer(own, at)
  BY DEF IInv, Framed
<1>3. /\ Tail(line) \in Seq(Byte) /\ Len(line) = Len(Tail(line)) + 1
      /\ Head(line) = line[1] /\ Head(line) \in Byte
  BY <1>1, <1>2, ByteRead
<1>4. PICK o, c : /\ Parse(o, c, Tail(line), pending)
                  /\ o[1] = own[2] /\ c[1] = at[2]
                  /\ o[Len(Tail(line)) + 1] = own[Len(line) + 1]
                  /\ c[Len(Tail(line)) + 1] = at[Len(line) + 1]
  BY <1>1, <1>2, ByteRead
<1>5. Types'
  BY <1>1, <1>3 DEF IInv, Types
<1>6. Queued'
  BY <1>1 DEF IInv, Queued
<1>7. OneFrameLostPerError'
  BY <1>1, CountKept DEF IInv
<1>8. PICK L \in Nat \ {0} : L = Len(line)
  <2>1. Len(line) \in Nat /\ Len(line) # 0
    BY <1>1, LenProperties, EmptySeq DEF IInv, Types
  <2> QED BY <2>1
<1>9. 1 \in 1 .. L /\ 1 \in 1 .. L + 1 /\ 2 \in 1 .. L + 1 /\ 1 + 1 = 2
  BY <1>8
<1>10. own[1] = 1 /\ at[1] \in {0, 1}
  BY <1>1, <1>2 DEF Reader
<1>11. Reader(o, c)'
  <2>1. CASE at[1] = 0
    <3>1. line[1] # SOF
      BY <1>2, <1>8, <1>9, <2>1 DEF Parse, Spelled
    <3>2. own[2] = own[1] /\ at[2] \in {0, 1}
      BY <1>2, <1>8, <1>9, <2>1 DEF Parse, Bounds
    <3> QED BY <1>1, <1>3, <1>4, <1>10, <3>1, <3>2 DEF Reader
  <2>2. CASE at[1] = 1
    <3>1. PICK P \in Nat : P = Len(pending)
      BY LenProperties DEF IInv, Types
    <3>2. own[1] <= P
      BY <1>2, <1>8, <1>9, <2>2, <3>1 DEF Parse, Places
    <3>3. 1 \in 1 .. P
      BY <1>10, <3>1, <3>2
    <3>4. pending[1] \in Sent
      BY <3>1, <3>3, ElementOfSeq DEF IInv, Types
    <3>5. line[1] = SOF
      <4>1. line[1] = Encode(pending[1])[1]
        BY <1>2, <1>8, <1>9, <1>10, <2>2 DEF Parse, Spelled
      <4> QED BY <3>4, <4>1, EncodeBytes
    <3>6. own[2] = 1 /\ at[2] = 2
      <4>1. PICK z \in 5 .. 260 : z = Size(pending[1])
        BY <3>4, EncodeBytes
      <4>2. 1 <= 2 /\ 1 + (2 - 1) <= z /\ 1 + (2 - 1) = 2
        OBVIOUS
      <4>3. \A n, m \in 1 .. L + 1 :
              n <= m /\ own[n] <= P /\ at[n] # 0 /\ at[n] + (m - n) <= Size(pending[own[n]])
              => own[m] = own[n] /\ at[m] = at[n] + (m - n)
        BY <1>2, <1>8, <3>1 DEF Parse, Whole
      <4>4. at[1] # 0 /\ at[1] + (2 - 1) <= Size(pending[own[1]])
        BY <1>10, <2>2, <4>1, <4>2
      <4>5. own[2] = own[1] /\ at[2] = at[1] + (2 - 1)
        BY <1>9, <3>2, <4>2, <4>3, <4>4
      <4> QED BY <1>10, <2>2, <4>2, <4>5
    <3> QED BY <1>1, <1>3, <1>4, <3>5, <3>6 DEF Reader
  <2> QED BY <1>10, <2>1, <2>2
<1>12. Framed'
  <2>1. Writer(o, c)'
    BY <1>1, <1>2, <1>4 DEF Writer
  <2>2. Parse(o, c, line, pending)'
    BY <1>1, <1>4
  <2> QED BY <1>11, <2>1, <2>2 DEF Framed
<1> QED BY <1>5, <1>6, <1>7, <1>12 DEF IInv

\* FrameLengthHandler: the byte read is the length of the frame that began.
LEMMA FrameLengthStep ==
  ASSUME IInv, FrameLengthHandler
  PROVE  IInv'
<1>1. /\ send_queue' = send_queue /\ send_in_progress' = send_in_progress
      /\ written' = written /\ stopped' = stopped /\ calls' = calls /\ noise' = noise
      /\ corrupt' = corrupt /\ pending' = pending /\ received' = received
      /\ reading = "length" /\ line # <<>> /\ line' = Tail(line)
      /\ reading' = "frame" /\ need' = 2 + Head(line) + 1
  BY DEF FrameLengthHandler, senderVars
<1>2. PICK own, at : Parse(own, at, line, pending) /\ Reader(own, at) /\ Writer(own, at)
  BY DEF IInv, Framed
<1>3. /\ Tail(line) \in Seq(Byte) /\ Len(line) = Len(Tail(line)) + 1
      /\ Head(line) = line[1] /\ Head(line) \in Byte
  BY <1>1, <1>2, ByteRead
<1>4. PICK o, c : /\ Parse(o, c, Tail(line), pending)
                  /\ o[1] = own[2] /\ c[1] = at[2]
                  /\ o[Len(Tail(line)) + 1] = own[Len(line) + 1]
                  /\ c[Len(Tail(line)) + 1] = at[Len(line) + 1]
  BY <1>1, <1>2, ByteRead
<1>5. Types'
  <2>1. PICK h \in 0 .. 255 : h = Head(line)
    BY <1>3 DEF Byte
  <2>2. 2 + h + 1 \in 0 .. 258
    OBVIOUS
  <2>3. need' \in 0 .. 258
    BY <1>1, <2>1, <2>2
  <2> QED BY <1>1, <1>3, <2>3 DEF IInv, Types
<1>6. Queued'
  BY <1>1 DEF IInv, Queued
<1>7. OneFrameLostPerError'
  BY <1>1, CountKept DEF IInv
<1>8. PICK L \in Nat \ {0} : L = Len(line)
  <2>1. Len(line) \in Nat /\ Len(line) # 0
    BY <1>1, LenProperties, EmptySeq DEF IInv, Types
  <2> QED BY <2>1
<1>9. 1 \in 1 .. L /\ 1 \in 1 .. L + 1 /\ 2 \in 1 .. L + 1 /\ 1 + 1 = 2
  BY <1>8
<1>10. own[1] = 1 /\ at[1] = 2
  BY <1>1, <1>2 DEF Reader
<1>11. PICK P \in Nat \ {0} : P = Len(pending) /\ pending[1] \in Sent
  BY <1>1, <1>2, FrameOpen DEF IInv
<1>12. PICK k \in 0 .. 255 : k = Len(pending[1].payload)
  BY <1>11, SentFields
<1>13. line[1] = k
  <2>1. line[1] = Encode(pending[1])[2]
    BY <1>2, <1>8, <1>9, <1>10 DEF Parse, Spelled
  <2>2. Encode(pending[1])[1 + 1] = Body(pending[1])[1]
    <3>1. Len(Body(pending[1])) = k + 3 /\ 1 \in 1 .. k + 3
      BY <1>11, <1>12, BodyBytes
    <3> QED BY <1>11, <3>1, EncodeBytes
  <2> QED BY <1>9, <1>11, <1>12, <2>1, <2>2, BodyBytes
<1>14. own[2] = 1 /\ at[2] = 3
  <2>1. PICK z \in 5 .. 260 : z = Size(pending[1])
    BY <1>11, EncodeBytes
  <2>2. 1 <= 2 /\ 2 + (2 - 1) <= z /\ 2 + (2 - 1) = 3 /\ 1 <= P
    OBVIOUS
  <2>3. \A n, m \in 1 .. L + 1 :
          n <= m /\ own[n] <= P /\ at[n] # 0 /\ at[n] + (m - n) <= Size(pending[own[n]])
          => own[m] = own[n] /\ at[m] = at[n] + (m - n)
    BY <1>2, <1>8, <1>11 DEF Parse, Whole
  <2>4. own[1] <= P /\ at[1] # 0 /\ at[1] + (2 - 1) <= Size(pending[own[1]])
    BY <1>10, <2>1, <2>2
  <2>5. own[2] = own[1] /\ at[2] = at[1] + (2 - 1)
    BY <1>9, <2>2, <2>3, <2>4
  <2> QED BY <1>10, <2>2, <2>5
<1>15. Reader(o, c)'
  <2>1. need' = k + 3
    BY <1>1, <1>3, <1>13
  <2> QED BY <1>1, <1>4, <1>12, <1>14, <2>1 DEF Reader
<1>16. Framed'
  <2>1. Writer(o, c)'
    BY <1>1, <1>2, <1>4 DEF Writer
  <2>2. Parse(o, c, line, pending)'
    BY <1>1, <1>4
  <2> QED BY <1>15, <2>1, <2>2 DEF Framed
<1> QED BY <1>5, <1>6, <1>7, <1>16 DEF IInv

\* When all of a frame is on the line, it is the rest of the first one pending, and
\* behind it another may begin.
LEMMA FrameBytes ==
  ASSUME IInv, reading = "frame", Len(line) >= need,
         NEW own, NEW at, Parse(own, at, line, pending), Reader(own, at)
  PROVE  /\ pending # <<>> /\ pending[1] \in Sent
         /\ need = Len(pending[1].payload) + 3 /\ need \in 3 .. 258 /\ need \in 0 .. Len(line)
         /\ BytesSent \in Seq(Byte) /\ Len(BytesSent) = need
         /\ \A i \in 1 .. need : BytesSent[i] = Encode(pending[1])[i + 2]
         /\ own[need + 1] = 2 /\ at[need + 1] \in {0, 1}
<1>1. PICK P \in Nat \ {0} : P = Len(pending) /\ pending # <<>> /\ pending[1] \in Sent
  BY FrameOpen DEF IInv
<1>2. PICK k \in 0 .. 255 : k = Len(pending[1].payload)
  BY <1>1, SentFields
<1>3. own[1] = 1 /\ at[1] = 3 /\ need = k + 3
  BY <1>2 DEF Reader
<1>4. PICK L \in Nat : L = Len(line)
  BY LenProperties DEF IInv, Types
<1>5. k + 3 <= L /\ k + 3 \in 3 .. 258 /\ k + 3 \in 1 .. L /\ k + 3 \in 0 .. L
  <2>1. k + 3 <= L
    BY <1>3, <1>4
  <2> QED BY <2>1
<1>6. Size(pending[1]) = k + 5
  BY <1>2 DEF Size
<1>7. ASSUME NEW n \in 1 .. k + 3
      PROVE  own[n] = 1 /\ at[n] = n + 2 /\ n \in 1 .. L
  <2>1. \A i, m \in 1 .. L + 1 :
          i <= m /\ own[i] <= P /\ at[i] # 0 /\ at[i] + (m - i) <= Size(pending[own[i]])
          => own[m] = own[i] /\ at[m] = at[i] + (m - i)
    BY <1>1, <1>4 DEF Parse, Whole
  <2>2. 1 \in 1 .. L + 1 /\ n \in 1 .. L + 1 /\ n \in 1 .. L
    BY <1>5
  <2>3. 1 <= n /\ 3 + (n - 1) = n + 2 /\ n + 2 <= k + 5 /\ 1 <= P
    OBVIOUS
  <2>4. own[1] <= P /\ at[1] # 0 /\ at[1] + (n - 1) <= Size(pending[own[1]])
    BY <1>3, <1>6, <2>3
  <2>5. own[n] = own[1] /\ at[n] = at[1] + (n - 1)
    BY <2>1, <2>2, <2>3, <2>4
  <2> QED BY <1>3, <2>2, <2>3, <2>5
<1>8. own[need + 1] = 2 /\ at[need + 1] \in {0, 1}
  <2>1. PICK n \in 1 .. L : n = k + 3
    BY <1>5
  <2>2. own[n] = 1 /\ at[n] = n + 2 /\ n + 2 = k + 5 /\ n \in 1 .. k + 3
    BY <1>7, <2>1, SMTT(30)
  <2>3. own[n] <= P /\ at[n] = Size(pending[own[n]])
    BY <1>6, <2>2
  <2>4. own[n + 1] = own[n] + 1 /\ at[n + 1] \in {0, 1}
    BY <1>1, <1>4, <2>3 DEF Parse, Bounds
  <2>5. own[n + 1] = 2
    BY <2>2, <2>4
  <2> QED BY <1>3, <2>1, <2>4, <2>5
<1>9. /\ BytesSent \in Seq(Byte) /\ Len(BytesSent) = k + 3
      /\ \A i \in 1 .. k + 3 : BytesSent[i] = line[i]
  <2>1. BytesSent = [i \in 1 .. k + 3 |-> line[i]]
    <3>1. SubSeq(line, 1, k + 3) = [i \in 1 .. (1 + ((k + 3) - 1)) |-> line[1 + i - 1]]
      BY DEF SubSeq
    <3>2. \A i \in 1 .. k + 3 : 1 + i - 1 = i
      OBVIOUS
    <3> QED BY <1>3, <3>1, <3>2 DEF BytesSent
  <2>2. \A i \in 1 .. k + 3 : line[i] \in Byte
    BY <1>4, <1>5, ElementOfSeq DEF IInv, Types
  <2> QED BY <2>1, <2>2
<1>10. ASSUME NEW i \in 1 .. k + 3
       PROVE  BytesSent[i] = Encode(pending[1])[i + 2]
  <2>1. own[i] = 1 /\ at[i] = i + 2 /\ i \in 1 .. L
    BY <1>7
  <2>2. at[i] # 0
    BY <2>1
  <2>3. line[i] = Encode(pending[own[i]])[at[i]]
    BY <1>4, <2>1, <2>2 DEF Parse, Spelled
  <2> QED BY <1>9, <2>1, <2>3
<1> QED BY <1>1, <1>2, <1>3, <1>4, <1>5, <1>8, <1>9, <1>10

\* FrameHandler hands on the frame it was, or drops it if a byte was changed.
LEMMA FrameResult ==
  ASSUME IInv, FrameHandler
  PROVE  /\ pending # <<>> /\ pending' = Tail(pending)
         /\ \/ received' = Append(received, Head(pending)) /\ corrupt' = corrupt
            \/ received' = received /\ corrupt' = corrupt + 1
<1>1. PICK own, at : Parse(own, at, line, pending) /\ Reader(own, at) /\ Writer(own, at)
  BY DEF IInv, Framed
<1>2. PICK f \in Sent : f = pending[1]
  BY <1>1, FrameBytes DEF FrameHandler
<1>3. PICK sent \in Seq(Byte) :
        /\ sent = BytesSent /\ need = Len(f.payload) + 3 /\ Len(sent) = need
        /\ \A i \in 1 .. need : sent[i] = Encode(f)[i + 2]
        /\ need \in 3 .. 258 /\ pending # <<>>
  BY <1>1, <1>2, FrameBytes DEF FrameHandler
<1>4. pending' = Tail(pending)
  BY DEF FrameHandler
<1>5. Head(pending) = f
  BY <1>2, <1>3, HeadTailProperties DEF IInv, Types
<1>6. PICK bytes \in BytesRead :
        /\ corrupt' = IF bytes = BytesSent THEN corrupt ELSE corrupt + 1
        /\ received' = IF ChecksumOk(bytes) THEN Append(received, Decode(bytes))
                       ELSE received
  BY DEF FrameHandler
<1>7. /\ Checksum(Checked(sent)) = sent[Len(sent)]
      /\ Decode(sent) = f
      /\ \A k \in 1 .. Len(sent), b \in Byte :
           LET other == [sent EXCEPT ![k] = b]
           IN other # sent => Checksum(Checked(other)) # other[Len(sent)]
  BY <1>3, FrameRead
<1>8. ASSUME NEW any \in Seq(Byte), Len(any) = need
      PROVE  ChecksumOk(any) <=> Checksum(Checked(any)) = any[need]
  BY <1>8 DEF ChecksumOk, Checked
<1>9. CASE bytes = sent
  <2>1. ChecksumOk(bytes)
    BY <1>3, <1>7, <1>8, <1>9
  <2>2. received' = Append(received, f) /\ corrupt' = corrupt
    BY <1>3, <1>6, <1>7, <1>9, <2>1
  <2> QED BY <1>3, <1>4, <1>5, <2>2
<1>10. CASE bytes # sent
  <2>1. PICK k \in 1 .. need, b \in Garbled : bytes = [sent EXCEPT ![k] = b]
    BY <1>3, <1>6, <1>10 DEF BytesRead
  <2>2. b \in Byte
    BY LineAssumption
  <2>3. bytes \in Seq(Byte) /\ Len(bytes) = need
    BY <1>3, <2>1, <2>2, ExceptSeq
  <2>4. Checksum(Checked(bytes)) # bytes[need]
    <3>1. k \in 1 .. Len(sent)
      BY <1>3, <2>1
    <3>2. LET other == [sent EXCEPT ![k] = b]
          IN other # sent => Checksum(Checked(other)) # other[Len(sent)]
      BY <1>7, <2>2, <3>1, Zenon
    <3>3. bytes # sent => Checksum(Checked(bytes)) # bytes[Len(sent)]
      BY <2>1, <3>2, Zenon
    <3> QED BY <1>3, <1>10, <3>3
  <2>5. ~ChecksumOk(bytes)
    BY <1>8, <2>3, <2>4
  <2> QED BY <1>3, <1>4, <1>6, <1>10, <2>5
<1> QED BY <1>9, <1>10

\* FrameHandler.
LEMMA FrameHandlerStep ==
  ASSUME IInv, FrameHandler
  PROVE  IInv'
<1>1. /\ send_queue' = send_queue /\ send_in_progress' = send_in_progress
      /\ written' = written /\ stopped' = stopped /\ calls' = calls /\ noise' = noise
      /\ reading = "frame" /\ reading' = "sof" /\ need' = 0 /\ Len(line) >= need
      /\ line' = SubSeq(line, need + 1, Len(line)) /\ corrupt' <= MaxCorrupt
  BY DEF FrameHandler, senderVars
<1>2. PICK own, at : Parse(own, at, line, pending) /\ Reader(own, at) /\ Writer(own, at)
  BY DEF IInv, Framed
<1>3. PICK k \in 3 .. 258 : k = need /\ k \in 0 .. Len(line)
  BY <1>1, <1>2, FrameBytes
<1>4. pending # <<>> /\ pending[1] \in Sent /\ own[k + 1] = 2 /\ at[k + 1] \in {0, 1}
  BY <1>1, <1>2, <1>3, FrameBytes
<1>5. /\ pending' = Tail(pending)
      /\ \/ received' = Append(received, Head(pending)) /\ corrupt' = corrupt
         \/ received' = received /\ corrupt' = corrupt + 1
  BY FrameResult
<1>6. PICK P \in Nat : P + 1 = Len(pending)
  <2>1. PICK n \in Nat : n = Len(pending) /\ n # 0
    BY <1>4, LenProperties, EmptySeq DEF IInv, Types
  <2>2. n - 1 \in Nat /\ (n - 1) + 1 = n
    BY <2>1
  <2> QED BY <2>1, <2>2
<1>7. /\ Head(pending) = pending[1]
      /\ pending' \in Seq(Sent) /\ Len(pending') = P
      /\ \A i \in 1 .. P : pending'[i] = pending[i + 1]
  <2>1. /\ Head(pending) = pending[1]
        /\ Tail(pending) \in Seq(Sent) /\ Len(Tail(pending)) = Len(pending) - 1
        /\ \A i \in 1 .. Len(Tail(pending)) : Tail(pending)[i] = pending[i + 1]
    BY <1>4, HeadTailProperties DEF IInv, Types
  <2>2. Len(pending') = P
    BY <1>5, <1>6, <2>1
  <2> QED BY <1>5, <2>1, <2>2
<1>8. PICK q \in Nat : q = Len(send_queue)
  BY LenProperties DEF IInv, Types
<1>9. PICK x \in Nat : x = Len(received)
  BY LenProperties DEF IInv, Types
<1>10. received' \in Seq(Frame) /\ (received' = Append(received, Head(pending))
                                    => Len(received') = x + 1)
  <2>1. Head(pending) \in Frame
    BY <1>4, <1>7 DEF Sent
  <2>2. /\ Append(received, Head(pending)) \in Seq(Frame)
        /\ Len(Append(received, Head(pending))) = Len(received) + 1
    BY <2>1, AppendProperties DEF IInv, Types
  <2> QED BY <1>5, <1>9, <2>2 DEF IInv, Types
<1>11. PICK R \in Nat : R + k = Len(line)
  <2>1. PICK L \in Nat : L = Len(line)
    BY LenProperties DEF IInv, Types
  <2>2. L - k \in Nat /\ (L - k) + k = L
    BY <1>3, <2>1
  <2> QED BY <2>1, <2>2
<1>12. PICK r \in Seq(Byte) : r = line' /\ Len(r) = R /\ \A n \in 1 .. R : r[n] = line[n + k]
  <2>1. PICK r : r = [n \in 1 .. R |-> line[n + k]]
    OBVIOUS
  <2>2. r = line'
    <3>1. SubSeq(line, k + 1, R + k)
            = [i \in 1 .. (1 + ((R + k) - (k + 1))) |-> line[(k + 1) + i - 1]]
      BY DEF SubSeq
    <3>2. 1 + ((R + k) - (k + 1)) = R /\ \A i \in 1 .. R : (k + 1) + i - 1 = i + k
      OBVIOUS
    <3>3. SubSeq(line, k + 1, R + k) = r
      BY <2>1, <3>1, <3>2
    <3> QED BY <1>1, <1>3, <1>11, <3>3
  <2>3. ASSUME NEW n \in 1 .. R
        PROVE  line[n + k] \in Byte
    <3>1. n + k \in 1 .. R + k
      OBVIOUS
    <3> QED BY <1>11, <3>1, ElementOfSeq DEF IInv, Types
  <2>4. r \in Seq(Byte) /\ Len(r) = R /\ \A n \in 1 .. R : r[n] = line[n + k]
    BY <2>1, <2>3
  <2> QED BY <2>2, <2>4
<1>13. Types'
  <2>1. corrupt' \in 0 .. MaxCorrupt
    BY <1>1, <1>5, LineAssumption DEF IInv, Types
  <2>2. 0 \in 0 .. 258
    OBVIOUS
  <2> QED BY <1>1, <1>7, <1>10, <1>12, <2>1, <2>2 DEF IInv, Types
<1>14. Queued'
  <2>1. ASSUME NEW i \in 1 .. q, NEW j \in 1 .. P, i + P = j + q
        PROVE  send_queue[i] = Encode(pending'[j])
    <3>1. j + 1 \in 1 .. P + 1 /\ i + (P + 1) = (j + 1) + q
      BY <2>1
    <3>2. send_queue[i] = Encode(pending[j + 1])
      BY <1>6, <1>8, <3>1 DEF IInv, Queued
    <3> QED BY <1>7, <3>2
  <2> QED BY <1>1, <1>7, <1>8, <2>1 DEF Queued
<1>15. OneFrameLostPerError'
  <2>1. x + (P + 1) + corrupt = calls
    BY <1>6, <1>9 DEF IInv, OneFrameLostPerError
  <2>2. PICK y \in Nat : y = corrupt
    BY LineAssumption DEF IInv, Types
  <2>3. (x + 1) + P + y = x + (P + 1) + y /\ x + P + (y + 1) = x + (P + 1) + y
    OBVIOUS
  <2>4. Len(received') + P + corrupt' = calls
    <3>1. CASE received' = Append(received, Head(pending)) /\ corrupt' = corrupt
      BY <1>10, <2>1, <2>2, <2>3, <3>1
    <3>2. CASE received' = received /\ corrupt' = corrupt + 1
      BY <1>9, <2>1, <2>2, <2>3, <3>2
    <3> QED BY <1>5, <3>1, <3>2
  <2> QED BY <1>1, <1>7, <2>4 DEF OneFrameLostPerError
<1>16. PICK o : o = [n \in 1 .. R + 1 |-> own[n + k]]
  OBVIOUS
<1>17. PICK c : c = [n \in 1 .. R + 1 |-> at[n + k]]
  OBVIOUS
<1>18. PICK o2 : o2 = [n \in 1 .. R + 1 |-> o[n] - 1]
  OBVIOUS
<1>19. Parse(o, c, r, pending)
  <2>1. line \in Seq(Byte) /\ pending \in Seq(Sent)
    BY DEF IInv, Types
  <2>2. k \in 0 .. Len(line) /\ Len(r) = Len(line) - k
        /\ \A n \in 1 .. Len(r) : r[n] = line[n + k]
    BY <1>3, <1>11, <1>12
  <2>3. Parse([n \in 1 .. Len(r) + 1 |-> own[n + k]],
              [n \in 1 .. Len(r) + 1 |-> at[n + k]], r, pending)
    BY <1>2, <2>1, <2>2, ParseRead
  <2> QED BY <1>12, <1>16, <1>17, <2>3
<1>20. o[1] = 2 /\ c[1] \in {0, 1}
  <2>1. o[1] = own[1 + k] /\ c[1] = at[1 + k] /\ 1 + k = k + 1
    BY <1>16, <1>17
  <2> QED BY <1>4, <2>1
<1>21. Parse(o2, c, r, Tail(pending))
  <2>1. Parse([n \in 1 .. Len(r) + 1 |-> o[n] - 1], c, r, Tail(pending))
    BY <1>4, <1>19, <1>20, ParseDone DEF IInv, Types
  <2> QED BY <1>12, <1>18, <2>1
<1>22. Framed'
  <2>1. Parse(o2, c, line, pending)'
    BY <1>5, <1>12, <1>21
  <2>2. Reader(o2, c)'
    <3>1. o2[1] = 1
      BY <1>18, <1>20
    <3> QED BY <1>1, <1>20, <3>1 DEF Reader
  <2>3. Writer(o2, c)'
    <3>1. PICK u \in Nat \ {0} : u = own[(R + k) + 1] /\ u = o[R + 1] /\ o2[R + 1] = u - 1
      <4>1. (R + 1) + k = (R + k) + 1 /\ R + 1 \in 1 .. R + 1
        OBVIOUS
      <4>2. o[R + 1] \in Nat \ {0}
        BY <1>12, <1>19, <4>1 DEF Parse, Places
      <4> QED BY <1>16, <1>18, <4>1, <4>2
    <3>2. c[R + 1] = at[(R + k) + 1]
      <4>1. (R + 1) + k = (R + k) + 1 /\ R + 1 \in 1 .. R + 1
        OBVIOUS
      <4> QED BY <1>17, <4>1
    <3>3. \/ /\ send_queue = <<>> /\ u = (P + 1) + 1 /\ c[R + 1] = 1
          \/ /\ send_queue # <<>> /\ written < Len(send_queue[1])
             /\ u + q = (P + 1) + 1 /\ c[R + 1] = written + 1
          \/ /\ send_queue # <<>> /\ written = Len(send_queue[1])
             /\ u + q = (P + 1) + 2 /\ c[R + 1] = 1
      BY <1>2, <1>6, <1>8, <1>11, <3>1, <3>2 DEF Writer
    <3>4. /\ u = (P + 1) + 1 => u - 1 = P + 1
          /\ u + q = (P + 1) + 1 => (u - 1) + q = P + 1
          /\ u + q = (P + 1) + 2 => (u - 1) + q = P + 2
      OBVIOUS
    <3> QED BY <1>1, <1>7, <1>8, <1>12, <3>1, <3>3, <3>4 DEF Writer
  <2> QED BY <2>1, <2>2, <2>3 DEF Framed
<1> QED BY <1>13, <1>14, <1>15, <1>22 DEF IInv

-----------------------------------------------------------------------------
(* The theorems.                                                            *)

\* The invariant is inductive.
LEMMA StepInv == IInv /\ [Next]_vars => IInv'
<1> SUFFICES ASSUME IInv, [Next]_vars
             PROVE  IInv'
  OBVIOUS
<1>1. ASSUME NEW f \in Frame, SendFrame(f)
      PROVE  IInv'
  BY <1>1, SendFrameStep
<1>2. CASE WriteByte
  BY <1>2, WriteByteStep
<1>3. CASE SendHandler
  BY <1>3, SendHandlerStep
<1>4. CASE OnError
  BY <1>4, OnErrorStep
<1>5. CASE StartOfFrameHandler
  BY <1>5, StartOfFrameStep
<1>6. CASE FrameLengthHandler
  BY <1>6, FrameLengthStep
<1>7. CASE FrameHandler
  BY <1>7, FrameHandlerStep
<1>8. CASE Noise
  BY <1>8, NoiseStep
<1>9. CASE UNCHANGED vars
  <2>1. Types'
    BY <1>9 DEF IInv, Types, vars
  <2>2. Queued'
    BY <1>9 DEF IInv, Queued, vars
  <2>3. Framed'
    BY <1>9 DEF IInv, Framed, Reader, Writer, vars
  <2>4. OneFrameLostPerError'
    BY <1>9 DEF IInv, OneFrameLostPerError, vars
  <2> QED BY <2>1, <2>2, <2>3, <2>4 DEF IInv
<1> QED BY <1>1, <1>2, <1>3, <1>4, <1>5, <1>6, <1>7, <1>8, <1>9 DEF Next

LEMMA InvHolds == Spec => []IInv
<1>1. Init => IInv
  BY InitInv
<1>2. IInv /\ [Next]_vars => IInv'
  BY StepInv
<1> QED BY <1>1, <1>2, PTL DEF Spec

\* Every variable keeps its type: in particular what is received is one of the frames,
\* and the sizes of the buffers that are read are those of a frame.
THEOREM TypeCorrect == Spec => []TypeOK
<1>1. IInv => TypeOK
  BY TypesSuffice DEF IInv
<1> QED BY <1>1, InvHolds, PTL

\* A frame is lost for each changed byte and for nothing else (FrameHandler drops what
\* fails the checksum, and finds every other frame that SendFrame wrote).
THEOREM OneLossPerError == Spec => []OneFrameLostPerError
<1>1. IInv => OneFrameLostPerError
  BY DEF IInv
<1> QED BY <1>1, InvHolds, PTL

\* The serial line implements the link that ZnpApi relies on: on_frame_ is called with
\* the frames given to SendFrame, unaltered and in order, some of them lost.
THEOREM Refinement == Spec => ImplementsFrameLink
<1>1. Init => Link!Init
  BY DEF Init, Link!Init
<1>2. IInv /\ [Next]_vars => [Link!Next]_Link!linkVars
  <2> SUFFICES ASSUME IInv, [Next]_vars
               PROVE  [Link!Next]_Link!linkVars
    OBVIOUS
  <2>1. ASSUME NEW f \in Frame, SendFrame(f)
        PROVE  Link!Next
    <3>1. Link!Send(f)
      BY <2>1 DEF SendFrame, receiverVars, Link!Send
    <3> QED BY <3>1 DEF Link!Next
  <2>2. CASE FrameHandler
    <3>1. Link!Deliver \/ Link!Lose
      BY <2>2, FrameResult DEF Link!Deliver, Link!Lose
    <3> QED BY <3>1 DEF Link!Next
  <2>3. CASE WriteByte \/ SendHandler \/ OnError \/ StartOfFrameHandler
             \/ FrameLengthHandler \/ Noise \/ UNCHANGED vars
    <3>1. pending' = pending /\ received' = received
      BY <2>3 DEF WriteByte, SendHandler, OnError, StartOfFrameHandler,
           FrameLengthHandler, Noise, receiverVars, vars
    <3> QED BY <3>1 DEF Link!linkVars
  <2> QED BY <2>1, <2>2, <2>3 DEF Next
<1> QED BY <1>1, <1>2, InvHolds, PTL DEF Spec, ImplementsFrameLink, Link!Spec
=============================================================================
