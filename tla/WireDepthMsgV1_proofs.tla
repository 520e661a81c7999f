----------------------- MODULE WireDepthMsgV1_proofs ------------------------
(***************************************************************************)
(* A message survives serialization and deserialization, whatever the size *)
(* of a byte.  Writing a number of two halves and reading them back is one *)
(* fact about division, Nest, used for two, four and eight bytes.          *)
(***************************************************************************)
EXTENDS WireDepthMsgV1, TLAPS

(* Division with remainder. *)
LEMMA DivFacts ==
  ASSUME NEW d \in Nat \ {0}, NEW v \in Int
  PROVE  /\ v \div d \in Int
         /\ v % d \in 0..(d - 1)
         /\ v = d * (v \div d) + (v % d)
BY SMT

(* Quotient and remainder are unique. *)
LEMMA DivUnique ==
  ASSUME NEW d \in Nat \ {0}, NEW q \in Int, NEW r \in 0..(d - 1)
  PROVE  (d * q + r) % d = r /\ (d * q + r) \div d = q
BY SMT

LEMMA Distribute ==
  ASSUME NEW b \in Int, NEW c \in Int, NEW p \in Int, NEW x \in Int, NEW y \in Int
  PROVE  c * (b * p + y) + x = (b * c) * p + (y * c + x)
<1>1. c * (b * p + y) = c * (b * p) + c * y BY SMT
<1>2. c * (b * p) = (b * c) * p BY SMT
<1> QED BY <1>1, <1>2, SMT

(* A remainder by a product, half by half. *)
LEMMA Nest ==
  ASSUME NEW b \in Nat \ {0}, NEW c \in Nat \ {0}, NEW v \in Int
  PROVE  v % (b * c) = ((v \div c) % b) * c + (v % c)
<1> DEFINE q == v \div c
           p == q \div b
           x == v % c
           y == q % b
<1>1. v = c * q + x /\ q \in Int /\ x \in 0..(c - 1) BY DivFacts
<1>2. q = b * p + y /\ p \in Int /\ y \in 0..(b - 1) BY <1>1, DivFacts
<1> HIDE DEF x, y, p
<1>3. b * c \in Nat \ {0} BY SMT
<1>4. y * c + x \in 0..(b * c - 1)
  <2>1. y * c <= (b - 1) * c /\ y * c >= 0 /\ (b - 1) * c = b * c - c BY <1>2, SMT
  <2>2. y * c \in Int BY <1>2
  <2> QED BY <1>1, <1>3, <2>1, <2>2, SMT
<1>5. v = (b * c) * p + (y * c + x)
  <2>1. v = c * (b * p + y) + x BY <1>1, <1>2
  <2> HIDE DEF q
  <2> QED BY <1>1, <1>2, <2>1, Distribute
<1>6. ((b * c) * p + (y * c + x)) % (b * c) = y * c + x BY <1>2, <1>3, <1>4, DivUnique
<1>7. v % (b * c) = y * c + x BY <1>5, <1>6
<1> QED BY <1>7 DEF x, y

LEMMA Sizes ==
  /\ ByteBase \in Nat \ {0}
  /\ U16 \in Nat \ {0} /\ U32 \in Nat \ {0} /\ U64 \in Nat \ {0}
<1>1. ByteBase \in Nat \ {0} BY ByteAssumption
<1>2. \A n \in Nat \ {0} : n * n \in Nat \ {0} BY SMT
<1>3. U16 \in Nat \ {0} BY <1>1, <1>2 DEF U16
<1>4. U32 \in Nat \ {0} BY <1>2, <1>3 DEF U32
<1> QED BY <1>1, <1>2, <1>3, <1>4 DEF U64

LEMMA Small ==
  ASSUME NEW d \in Nat \ {0}, NEW v \in 0..(d - 1)
  PROVE  v % d = v
BY SMT

LEMMA Below ==
  ASSUME NEW d \in Nat \ {0}, NEW v \in 0..(d - 1)
  PROVE  (v - d) % d = v
BY SMT

LEMMA Layout ==
  /\ TYPE_OFFSET = 0 /\ VERSION_OFFSET = 1 /\ LENGTH_OFFSET = 2
  /\ TIMESTAMP_OFFSET = 4 /\ SEQUENCE_OFFSET = 12 /\ SYMBOL_OFFSET = 14
  /\ YEAR_OFFSET = 20 /\ MONTH_OFFSET = 21 /\ DAY_OFFSET = 22 /\ FLAGS_OFFSET = 23
  /\ STRIKE_OFFSET = 24 /\ PRICE_OFFSET = 28 /\ SIZE = 32
BY DEF TYPE_OFFSET, VERSION_OFFSET, LENGTH_OFFSET, TIMESTAMP_OFFSET, SEQUENCE_OFFSET,
   SYMBOL_OFFSET, YEAR_OFFSET, MONTH_OFFSET, DAY_OFFSET, FLAGS_OFFSET, STRIKE_OFFSET,
   PRICE_OFFSET, SIZE

-----------------------------------------------------------------------------
(* Writing n bytes and reading them back, and leaving the others alone. *)
SameOutside(b1, b2, lo, hi) == \A k \in 0..31 : (k < lo \/ k > hi) => b1[k] = b2[k]

LEMMA RoundTripU8 ==
  ASSUME NEW buf \in Packet, NEW o \in 0..31, NEW v \in Int
  PROVE  /\ WriteU8(buf, o, v) \in Packet
         /\ ReadU8(WriteU8(buf, o, v), o) = v % ByteBase
         /\ SameOutside(WriteU8(buf, o, v), buf, o, o)
<1>1. v % ByteBase \in Byte BY Sizes, DivFacts DEF Byte
<1> QED BY <1>1, Layout DEF WriteU8, ReadU8, Packet, SameOutside

LEMMA RoundTripU16 ==
  ASSUME NEW buf \in Packet, NEW o \in 0..30, NEW v \in Int
  PROVE  /\ WriteU16(buf, o, v) \in Packet
         /\ ReadU16(WriteU16(buf, o, v), o) = v % U16
         /\ SameOutside(WriteU16(buf, o, v), buf, o, o + 1)
<1> DEFINE b1 == WriteU8(buf, o, v \div ByteBase)
           b2 == WriteU8(b1, o + 1, v)
<1>1. v \div ByteBase \in Int BY Sizes, DivFacts
<1>2. o \in 0..31 /\ o + 1 \in 0..31 /\ o # o + 1 BY SMT
<1>3. b1 \in Packet /\ b1[o] = (v \div ByteBase) % ByteBase /\ SameOutside(b1, buf, o, o)
  BY <1>1, <1>2, RoundTripU8 DEF ReadU8
<1> HIDE DEF b1
<1>4. b2 \in Packet /\ b2[o + 1] = v % ByteBase /\ SameOutside(b2, b1, o + 1, o + 1)
  BY <1>2, <1>3, RoundTripU8 DEF ReadU8
<1> HIDE DEF b2
<1>5. b2[o] = (v \div ByteBase) % ByteBase BY <1>2, <1>3, <1>4 DEF SameOutside
<1>6. WriteU16(buf, o, v) = b2 BY DEF WriteU16, b1, b2
<1>7. v % U16 = ((v \div ByteBase) % ByteBase) * ByteBase + (v % ByteBase)
  BY Sizes, Nest DEF U16
<1>8. ReadU16(b2, o) = v % U16 BY <1>4, <1>5, <1>7 DEF ReadU16, ReadU8
<1>9. SameOutside(b2, buf, o, o + 1) BY <1>3, <1>4 DEF SameOutside
<1> QED BY <1>4, <1>6, <1>8, <1>9

LEMMA RoundTripU32 ==
  ASSUME NEW buf \in Packet, NEW o \in 0..28, NEW v \in Int
  PROVE  /\ WriteU32(buf, o, v) \in Packet
         /\ ReadU32(WriteU32(buf, o, v), o) = v % U32
         /\ SameOutside(WriteU32(buf, o, v), buf, o, o + 3)
<1> DEFINE b1 == WriteU16(buf, o, v \div U16)
           b2 == WriteU16(b1, o + 2, v)
<1>1. v \div U16 \in Int BY Sizes, DivFacts
<1>2. o \in 0..30 /\ o + 2 \in 0..30 /\ o + 2 + 1 = o + 3 BY SMT
<1>3. /\ b1 \in Packet /\ ReadU16(b1, o) = (v \div U16) % U16
      /\ SameOutside(b1, buf, o, o + 1)
  BY <1>1, <1>2, RoundTripU16
<1> HIDE DEF b1
<1>4. /\ b2 \in Packet /\ ReadU16(b2, o + 2) = v % U16
      /\ SameOutside(b2, b1, o + 2, o + 3)
  BY <1>2, <1>3, RoundTripU16
<1> HIDE DEF b2
<1>5. ReadU16(b2, o) = (v \div U16) % U16
  <2>1. b2[o] = b1[o] /\ b2[o + 1] = b1[o + 1] BY <1>2, <1>4 DEF SameOutside
  <2> QED BY <1>3, <2>1 DEF ReadU16, ReadU8
<1>6. WriteU32(buf, o, v) = b2 BY DEF WriteU32, b1, b2
<1>7. v % U32 = ((v \div U16) % U16) * U16 + (v % U16)
  BY Sizes, Nest DEF U32
<1>8. ReadU32(b2, o) = v % U32 BY <1>4, <1>5, <1>7 DEF ReadU32
<1>9. SameOutside(b2, buf, o, o + 3) BY <1>3, <1>4 DEF SameOutside
<1> QED BY <1>4, <1>6, <1>8, <1>9

LEMMA RoundTripU64 ==
  ASSUME NEW buf \in Packet, NEW o \in 0..24, NEW v \in Int
  PROVE  /\ WriteU64(buf, o, v) \in Packet
         /\ ReadU64(WriteU64(buf, o, v), o) = v % U64
         /\ SameOutside(WriteU64(buf, o, v), buf, o, o + 7)
<1> DEFINE b1 == WriteU32(buf, o, v \div U32)
           b2 == WriteU32(b1, o + 4, v)
<1>1. v \div U32 \in Int BY Sizes, DivFacts
<1>2. o \in 0..28 /\ o + 4 \in 0..28 /\ o + 4 + 3 = o + 7 BY SMT
<1>3. /\ b1 \in Packet /\ ReadU32(b1, o) = (v \div U32) % U32
      /\ SameOutside(b1, buf, o, o + 3)
  BY <1>1, <1>2, RoundTripU32
<1> HIDE DEF b1
<1>4. /\ b2 \in Packet /\ ReadU32(b2, o + 4) = v % U32
      /\ SameOutside(b2, b1, o + 4, o + 7)
  BY <1>2, <1>3, RoundTripU32
<1> HIDE DEF b2
<1>5. ReadU32(b2, o) = (v \div U32) % U32
  <2>1. \A k \in o..(o + 3) : b2[k] = b1[k] BY <1>2, <1>4 DEF SameOutside
  <2>2. b2[o] = b1[o] /\ b2[o + 1] = b1[o + 1] /\ b2[o + 2] = b1[o + 2] /\ b2[o + 2 + 1] = b1[o + 2 + 1]
    BY <2>1
  <2> QED BY <1>3, <2>2 DEF ReadU32, ReadU16, ReadU8
<1>6. WriteU64(buf, o, v) = b2 BY DEF WriteU64, b1, b2
<1>7. v % U64 = ((v \div U32) % U32) * U32 + (v % U32)
  BY Sizes, Nest DEF U64
<1>8. ReadU64(b2, o) = v % U64 BY <1>4, <1>5, <1>7 DEF ReadU64
<1>9. SameOutside(b2, buf, o, o + 7) BY <1>3, <1>4 DEF SameOutside
<1> QED BY <1>4, <1>6, <1>8, <1>9

LEMMA SymbolEffect ==
  ASSUME NEW buf \in Packet, NEW symbol \in Symbol
  PROVE  /\ WriteSymbol(buf, symbol) \in Packet
         /\ \A k \in 0..5 : WriteSymbol(buf, symbol)[14 + k] = symbol[k]
         /\ SameOutside(WriteSymbol(buf, symbol), buf, 14, 19)
<1> DEFINE b == WriteSymbol(buf, symbol)
<1>1. b = [k \in 0..31 |-> IF k \in 14..19 THEN symbol[k - 14] ELSE buf[k]]
  BY Layout DEF WriteSymbol
<1>2. \A k \in 14..19 : k - 14 \in 0..5 /\ symbol[k - 14] \in Byte BY DEF Symbol
<1>3. \A k \in 0..31 : buf[k] \in Byte BY Layout DEF Packet
<1>4. \A k \in 0..5 : 14 + k \in 14..19 /\ 14 + k \in 0..31 /\ (14 + k) - 14 = k BY SMT
<1> HIDE DEF b
<1>5. b \in Packet BY <1>1, <1>2, <1>3, Layout DEF Packet
<1>6. \A k \in 0..5 : b[14 + k] = symbol[k] BY <1>1, <1>4
<1>7. SameOutside(b, buf, 14, 19) BY <1>1 DEF SameOutside
<1> QED BY <1>5, <1>6, <1>7 DEF b

(* A signed number comes back from its unsigned image. *)
LEMMA Signed ==
  ASSUME NEW v \in I32
  PROVE  (IF v % U32 < U32 \div 2 THEN v % U32 ELSE (v % U32) - U32) = v
<1> DEFINE h == U32 \div 2
<1>1. h \in Int /\ 0 <= h /\ h < U32 BY Sizes, SMT
<1>2. v \in (h - U32)..(h - 1) /\ U32 \in Nat \ {0} BY Sizes DEF I32
<1> HIDE DEF h
<1>3. CASE v >= 0
  <2>1. v \in 0..(U32 - 1) BY <1>1, <1>2, <1>3
  <2>2. v % U32 = v BY <1>2, <2>1, Small
  <2> QED BY <1>1, <1>2, <2>2 DEF h
<1>4. CASE v < 0
  <2>1. v + U32 \in 0..(U32 - 1) BY <1>1, <1>2, <1>4
  <2>2. (v + U32) - U32 = v BY <1>2
  <2>3. ((v + U32) - U32) % U32 = v + U32 BY <1>2, <2>1, Below
  <2>4. v % U32 = v + U32 BY <2>2, <2>3
  <2> QED BY <1>1, <1>2, <2>4 DEF h
<1> QED BY <1>1, <1>2, <1>3, <1>4

(* What Serialize has written where. *)
LEMMA SerializeEffect ==
  ASSUME NEW m \in MarketDepthMessage
  PROVE  LET b == Serialize(m)
         IN  /\ b \in Packet
             /\ ReadU64(b, 4) = m.ts_ns % U64
             /\ ReadU16(b, 12) = m.seq % U16
             /\ \A k \in 0..5 : b[14 + k] = m.option.symbol[k]
             /\ b[20] = m.option.year /\ b[21] = m.option.month
             /\ b[22] = m.option.day /\ b[23] = m.flags
             /\ ReadU32(b, 24) = m.option.strike % U32
             /\ ReadU32(b, 28) = m.price % U32
<1> DEFINE ts == m.ts_ns
           num == m.seq
           symbol == m.option.symbol
           year == m.option.year
           month == m.option.month
           day == m.option.day
           flags == m.flags
           strike == m.option.strike
           price == m.price
<1> DEFINE b1 == WriteU8(Zeroes, 0, 1)
           b2 == WriteU8(b1, 1, 1)
           b3 == WriteU16(b2, 2, 32)
           b4 == WriteU64(b3, 4, ts)
           b5 == WriteU16(b4, 12, num)
           b6 == WriteSymbol(b5, symbol)
           b7 == WriteU8(b6, 20, year)
           b8 == WriteU8(b7, 21, month)
           b9 == WriteU8(b8, 22, day)
           b10 == WriteU8(b9, 23, flags)
           b11 == WriteU32(b10, 24, strike)
           b12 == WriteU32(b11, 28, price)
<1>1. Serialize(m) = b12 BY Layout DEF Serialize, WriteHeader, WriteOption
<1> HIDE DEF b1, b2, b3, b4, b5, b6, b7, b8, b9, b10, b11, b12
<1>2. /\ ts \in Int /\ num \in Int /\ symbol \in Symbol
      /\ year \in Byte /\ month \in Byte
      /\ day \in Byte /\ flags \in Byte
      /\ strike \in Int /\ price \in Int
  <2>1. \A v \in I32 : v \in Int BY Sizes DEF I32
  <2>2. \A v \in 0..(U64 - 1) : v \in Int BY Sizes
  <2>3. \A v \in 0..(U16 - 1) : v \in Int BY Sizes
  <2> QED BY <2>1, <2>2, <2>3 DEF MarketDepthMessage, Option
<1> HIDE DEF ts, num, symbol, year, month, day, flags, strike, price
<1>3. \A v \in Byte : v \in Int /\ v % ByteBase = v BY Sizes, Small DEF Byte
<1>4. Zeroes \in Packet BY ByteAssumption, Layout DEF Zeroes, Packet, Byte
<1>5. b1 \in Packet BY <1>4, RoundTripU8 DEF b1
<1>6. b2 \in Packet BY <1>5, RoundTripU8 DEF b2
<1>7. b3 \in Packet BY <1>6, RoundTripU16 DEF b3
<1>8. b4 \in Packet /\ ReadU64(b4, 4) = ts % U64 BY <1>2, <1>7, RoundTripU64 DEF b4
<1>9. /\ b5 \in Packet
      /\ ReadU16(b5, 12) = num % U16
      /\ SameOutside(b5, b4, 12, 13)
  <2>1. b5 \in Packet BY <1>2, <1>8, RoundTripU16 DEF b5
  <2>2. ReadU16(b5, 12) = num % U16 BY <1>2, <1>8, RoundTripU16 DEF b5
  <2>3. SameOutside(b5, b4, 12, 13) BY <1>2, <1>8, RoundTripU16 DEF b5
  <2> QED BY <2>1, <2>2, <2>3
<1>10. /\ b6 \in Packet /\ \A k \in 0..5 : b6[14 + k] = symbol[k]
       /\ SameOutside(b6, b5, 14, 19)
  BY <1>2, <1>9, SymbolEffect DEF b6
<1>11. b7 \in Packet /\ b7[20] = year /\ SameOutside(b7, b6, 20, 20)
  <2>1. year \in Int /\ year % ByteBase = year BY <1>2, <1>3
  <2>2. b7 \in Packet BY <2>1, <1>10, RoundTripU8 DEF ReadU8, b7
  <2>3. b7[20] = year % ByteBase BY <2>1, <1>10, RoundTripU8 DEF ReadU8, b7
  <2>4. SameOutside(b7, b6, 20, 20) BY <2>1, <1>10, RoundTripU8 DEF ReadU8, b7
  <2> QED BY <2>1, <2>2, <2>3, <2>4
<1>12. b8 \in Packet /\ b8[21] = month /\ SameOutside(b8, b7, 21, 21)
  <2>1. month \in Int /\ month % ByteBase = month BY <1>2, <1>3
  <2>2. b8 \in Packet BY <2>1, <1>11, RoundTripU8 DEF ReadU8, b8
  <2>3. b8[21] = month % ByteBase BY <2>1, <1>11, RoundTripU8 DEF ReadU8, b8
  <2>4. SameOutside(b8, b7, 21, 21) BY <2>1, <1>11, RoundTripU8 DEF ReadU8, b8
  <2> QED BY <2>1, <2>2, <2>3, <2>4
<1>13. b9 \in Packet /\ b9[22] = day /\ SameOutside(b9, b8, 22, 22)
  <2>1. day \in Int /\ day % ByteBase = day BY <1>2, <1>3
  <2>2. b9 \in Packet BY <2>1, <1>12, RoundTripU8 DEF ReadU8, b9
  <2>3. b9[22] = day % ByteBase BY <2>1, <1>12, RoundTripU8 DEF ReadU8, b9
  <2>4. SameOutside(b9, b8, 22, 22) BY <2>1, <1>12, RoundTripU8 DEF ReadU8, b9
  <2> QED BY <2>1, <2>2, <2>3, <2>4
<1>14. b10 \in Packet /\ b10[23] = flags /\ SameOutside(b10, b9, 23, 23)
  <2>1. flags \in Int /\ flags % ByteBase = flags BY <1>2, <1>3
  <2>2. b10 \in Packet BY <2>1, <1>13, RoundTripU8 DEF ReadU8, b10
  <2>3. b10[23] = flags % ByteBase BY <2>1, <1>13, RoundTripU8 DEF ReadU8, b10
  <2>4. SameOutside(b10, b9, 23, 23) BY <2>1, <1>13, RoundTripU8 DEF ReadU8, b10
  <2> QED BY <2>1, <2>2, <2>3, <2>4
<1>15. /\ b11 \in Packet
      /\ ReadU32(b11, 24) = strike % U32
      /\ SameOutside(b11, b10, 24, 27)
  <2>1. b11 \in Packet BY <1>2, <1>14, RoundTripU32 DEF b11
  <2>2. ReadU32(b11, 24) = strike % U32 BY <1>2, <1>14, RoundTripU32 DEF b11
  <2>3. SameOutside(b11, b10, 24, 27) BY <1>2, <1>14, RoundTripU32 DEF b11
  <2> QED BY <2>1, <2>2, <2>3
<1>16. /\ b12 \in Packet
      /\ ReadU32(b12, 28) = price % U32
      /\ SameOutside(b12, b11, 28, 31)
  <2>1. b12 \in Packet BY <1>2, <1>15, RoundTripU32 DEF b12
  <2>2. ReadU32(b12, 28) = price % U32 BY <1>2, <1>15, RoundTripU32 DEF b12
  <2>3. SameOutside(b12, b11, 28, 31) BY <1>2, <1>15, RoundTripU32 DEF b12
  <2> QED BY <2>1, <2>2, <2>3
<1>17. /\ \A k \in 24..27 : b12[k] = b11[k]
       /\ \A k \in 0..23 : b12[k] = b10[k]
       /\ \A k \in 0..22 : b12[k] = b9[k]
       /\ \A k \in 0..21 : b12[k] = b8[k]
       /\ \A k \in 0..20 : b12[k] = b7[k]
       /\ \A k \in 0..19 : b12[k] = b6[k]
       /\ \A k \in 0..13 : b12[k] = b5[k]
       /\ \A k \in 0..11 : b12[k] = b4[k]
  <2>1. \A k \in 0..27 : b12[k] = b11[k] BY <1>16 DEF SameOutside
  <2>2. \A k \in 0..23 : b12[k] = b10[k] BY <1>15, <2>1 DEF SameOutside
  <2>3. \A k \in 0..22 : b12[k] = b9[k] BY <1>14, <2>2 DEF SameOutside
  <2>4. \A k \in 0..21 : b12[k] = b8[k] BY <1>13, <2>3 DEF SameOutside
  <2>5. \A k \in 0..20 : b12[k] = b7[k] BY <1>12, <2>4 DEF SameOutside
  <2>6. \A k \in 0..19 : b12[k] = b6[k] BY <1>11, <2>5 DEF SameOutside
  <2>7. \A k \in 0..13 : b12[k] = b5[k] BY <1>10, <2>6 DEF SameOutside
  <2>8. \A k \in 0..11 : b12[k] = b4[k] BY <1>9, <2>7 DEF SameOutside
  <2> QED BY <2>1, <2>2, <2>3, <2>4, <2>5, <2>6, <2>7, <2>8
<1>18. ReadU64(b12, 4) = ReadU64(b4, 4)
  <2>1. \A k \in 4..11 : b12[k] = b4[k] BY <1>17
  <2>2. ReadU32(b12, 4) = ReadU32(b4, 4) BY <2>1 DEF ReadU32, ReadU16, ReadU8
  <2>3. ReadU32(b12, 4 + 4) = ReadU32(b4, 4 + 4) BY <2>1 DEF ReadU32, ReadU16, ReadU8
  <2> QED BY <2>2, <2>3 DEF ReadU64
<1>19. ReadU16(b12, 12) = ReadU16(b5, 12) BY <1>17 DEF ReadU16, ReadU8
<1>20. ReadU32(b12, 24) = ReadU32(b11, 24) BY <1>17 DEF ReadU32, ReadU16, ReadU8
<1>21. \A k \in 0..5 : b12[14 + k] = b6[14 + k] BY <1>17
<1>22. b12[20] = b7[20] /\ b12[21] = b8[21] /\ b12[22] = b9[22] /\ b12[23] = b10[23] BY <1>17
<1> QED BY <1>1, <1>8, <1>9, <1>10, <1>11, <1>12, <1>13, <1>14, <1>15, <1>16,
           <1>18, <1>19, <1>20, <1>21, <1>22
        DEF ts, num, symbol, year, month, day, flags, strike, price

(* The wire is faithful: deserializing what was serialized gives the        *)
(* message back, signed prices and wide time stamps included, up to the     *)
(* flags of the option.                                                     *)
THEOREM WireRoundTrip ==
  ASSUME NEW m \in MarketDepthMessage
  PROVE  Serialize(m) \in Packet /\ Deserialize(Serialize(m)) = AsSeen(m)
<1> DEFINE b == Serialize(m)
<1>1. /\ b \in Packet
      /\ ReadU64(b, 4) = m.ts_ns % U64 /\ ReadU16(b, 12) = m.seq % U16
      /\ \A k \in 0..5 : b[14 + k] = m.option.symbol[k]
      /\ b[20] = m.option.year /\ b[21] = m.option.month
      /\ b[22] = m.option.day /\ b[23] = m.flags
      /\ ReadU32(b, 24) = m.option.strike % U32
      /\ ReadU32(b, 28) = m.price % U32
  BY SerializeEffect
<1> HIDE DEF b
<1>2. /\ m.ts_ns \in 0..(U64 - 1) /\ m.seq \in 0..(U16 - 1)
      /\ m.option \in Option /\ m.price \in I32
  BY DEF MarketDepthMessage
<1>3. ReadU64(b, 4) = m.ts_ns /\ ReadU16(b, 12) = m.seq BY <1>1, <1>2, Sizes, Small
<1>4. m.option.strike \in I32 /\ m.option.symbol \in Symbol BY <1>2 DEF Option
<1>5. ReadI32(b, 24) = m.option.strike BY <1>1, <1>4, Signed DEF ReadI32
<1>6. ReadI32(b, 28) = m.price BY <1>1, <1>2, Signed DEF ReadI32
<1>7. ReadSymbol(b) = m.option.symbol
  <2>1. ReadSymbol(b) = [k \in 0..5 |-> b[14 + k]] BY Layout DEF ReadSymbol
  <2>2. m.option.symbol = [k \in 0..5 |-> m.option.symbol[k]] BY <1>4 DEF Symbol
  <2> QED BY <1>1, <2>1, <2>2
<1>8. [m.option EXCEPT !.flags = 0] =
        [strike |-> m.option.strike, symbol |-> m.option.symbol, year |-> m.option.year,
         month |-> m.option.month, day |-> m.option.day, flags |-> 0]
  BY <1>2 DEF Option
<1>9. Deserialize(b) =
        [market_ts_ns |-> m.ts_ns, seq |-> m.seq, option |-> [m.option EXCEPT !.flags = 0],
         price |-> m.price, flags |-> m.flags]
  BY <1>1, <1>3, <1>5, <1>6, <1>7, <1>8, Layout DEF Deserialize, ReadU8
<1> QED BY <1>1, <1>9 DEF AsSeen, b
=============================================================================
