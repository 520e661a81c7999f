--------------------------- MODULE WireDepthMsgV1 ---------------------------
(***************************************************************************)
(* A market depth message on the wire: the layout of WireDepthMsgV1        *)
(* (src/include/mms/structs/Structs.hh), how MarketDepthGenerator          *)
(* serializes a MarketDepthMessage into it, and how MarketDepthConsumer    *)
(* deserializes it into an InternalDepthMessage.  Numbers are big-endian.  *)
(***************************************************************************)
EXTENDS Integers

CONSTANT ByteBase       \* how many values a byte has, 256 in the code

ASSUME ByteAssumption == ByteBase \in Nat \ {0, 1}

Byte == 0..(ByteBase - 1)
U16 == ByteBase * ByteBase      \* how many values a u16_t has, and so on
U32 == U16 * U16
U64 == U32 * U32
I32 == (U32 \div 2 - U32)..(U32 \div 2 - 1)     \* the values of an i32_t

(* The members of a struct follow each other on the wire. *)
TYPE_OFFSET == 0
VERSION_OFFSET == TYPE_OFFSET + 1
LENGTH_OFFSET == VERSION_OFFSET + 1
TIMESTAMP_OFFSET == LENGTH_OFFSET + 2
SEQUENCE_OFFSET == TIMESTAMP_OFFSET + 8
SYMBOL_OFFSET == SEQUENCE_OFFSET + 2
YEAR_OFFSET == SYMBOL_OFFSET + 6
MONTH_OFFSET == YEAR_OFFSET + 1
DAY_OFFSET == MONTH_OFFSET + 1
FLAGS_OFFSET == DAY_OFFSET + 1
STRIKE_OFFSET == FLAGS_OFFSET + 1
PRICE_OFFSET == STRIKE_OFFSET + 4
SIZE == PRICE_OFFSET + 4

Packet == [0..(SIZE - 1) -> Byte]
Zeroes == [k \in 0..(SIZE - 1) |-> 0]       \* Buffer buf{}
Symbol == [0..5 -> Byte]

Option == [strike : I32, symbol : Symbol, year : Byte, month : Byte, day : Byte, flags : Byte]
MarketDepthMessage ==
    [ts_ns : 0..(U64 - 1), seq : 0..(U16 - 1), option : Option, price : I32, flags : Byte]
InternalDepthMessage ==
    [market_ts_ns : 0..(U64 - 1), seq : 0..(U16 - 1), option : Option, price : I32, flags : Byte]

-----------------------------------------------------------------------------
(* Writing.  A cast to an unsigned type takes the value modulo its size. *)
WriteU8(buf, offset, val) == [buf EXCEPT ![offset] = val % ByteBase]
WriteU16(buf, offset, val) == WriteU8(WriteU8(buf, offset, val \div ByteBase), offset + 1, val)
WriteU32(buf, offset, val) == WriteU16(WriteU16(buf, offset, val \div U16), offset + 2, val)
WriteU64(buf, offset, val) == WriteU32(WriteU32(buf, offset, val \div U32), offset + 4, val)
WriteSymbol(buf, symbol) ==
    [k \in 0..(SIZE - 1) |->
        IF k \in SYMBOL_OFFSET..(SYMBOL_OFFSET + 5) THEN symbol[k - SYMBOL_OFFSET] ELSE buf[k]]

WriteHeader(m) ==
    LET type == WriteU8(Zeroes, TYPE_OFFSET, 1)
        version == WriteU8(type, VERSION_OFFSET, 1)
        length == WriteU16(version, LENGTH_OFFSET, SIZE)
        time == WriteU64(length, TIMESTAMP_OFFSET, m.ts_ns)
    IN  WriteU16(time, SEQUENCE_OFFSET, m.seq)

WriteOption(buf, option) ==
    LET symbol == WriteSymbol(buf, option.symbol)
        year == WriteU8(symbol, YEAR_OFFSET, option.year)
        month == WriteU8(year, MONTH_OFFSET, option.month)
    IN  WriteU8(month, DAY_OFFSET, option.day)

(* The flags of the option have no place on the wire. *)
BuggySerialize(m) ==
    LET flags == WriteU8(WriteOption(WriteHeader(m), m.option), FLAGS_OFFSET, m.flags)
        strike == WriteU32(flags, STRIKE_OFFSET, m.option.strike)
    IN  WriteU32(strike, PRICE_OFFSET - 1, m.price)
Serialize(m) ==
    LET flags == WriteU8(WriteOption(WriteHeader(m), m.option), FLAGS_OFFSET, m.flags)
        strike == WriteU32(flags, STRIKE_OFFSET, m.option.strike)
    IN  WriteU32(strike, PRICE_OFFSET, m.price)

-----------------------------------------------------------------------------
(* Reading. *)
ReadU8(buf, offset) == buf[offset]
ReadU16(buf, offset) == ReadU8(buf, offset) * ByteBase + ReadU8(buf, offset + 1)
ReadU32(buf, offset) == ReadU16(buf, offset) * U16 + ReadU16(buf, offset + 2)
ReadU64(buf, offset) == ReadU32(buf, offset) * U32 + ReadU32(buf, offset + 4)
ReadI32(buf, offset) ==
    LET val == ReadU32(buf, offset) IN IF val < U32 \div 2 THEN val ELSE val - U32
ReadSymbol(buf) == [k \in 0..5 |-> buf[SYMBOL_OFFSET + k]]

(* The local time stamp is left out: it is only printed. *)
BuggyDeserialize(buf) ==
    [market_ts_ns |-> ReadU64(buf, TIMESTAMP_OFFSET),
     seq |-> ReadU16(buf, SEQUENCE_OFFSET),
     option |-> [strike |-> ReadI32(buf, STRIKE_OFFSET),
                 symbol |-> ReadSymbol(buf),
                 year |-> ReadU8(buf, YEAR_OFFSET),
                 month |-> ReadU8(buf, MONTH_OFFSET),
                 day |-> ReadU8(buf, DAY_OFFSET),
                 flags |-> 0],
     price |-> ReadU32(buf, PRICE_OFFSET),
     flags |-> ReadU8(buf, FLAGS_OFFSET)]
Deserialize(buf) ==
    [market_ts_ns |-> ReadU64(buf, TIMESTAMP_OFFSET),
     seq |-> ReadU16(buf, SEQUENCE_OFFSET),
     option |-> [strike |-> ReadI32(buf, STRIKE_OFFSET),
                 symbol |-> ReadSymbol(buf),
                 year |-> ReadU8(buf, YEAR_OFFSET),
                 month |-> ReadU8(buf, MONTH_OFFSET),
                 day |-> ReadU8(buf, DAY_OFFSET),
                 flags |-> 0],
     price |-> ReadI32(buf, PRICE_OFFSET),
     flags |-> ReadU8(buf, FLAGS_OFFSET)]

(* What a message should be after the journey: all of it up to the flags of *)
(* the option, which the wire does not carry.                               *)
AsSeen(m) ==
    [market_ts_ns |-> m.ts_ns, seq |-> m.seq, option |-> [m.option EXCEPT !.flags = 0],
     price |-> m.price, flags |-> m.flags]
=============================================================================
