------------------------- MODULE MarketDepth_proofs -------------------------
(***************************************************************************)
(* The market depth feed implements DepthFeed, and its numbers tell a      *)
(* reader what it missed, for every byte size, set of clients, sequence of *)
(* draws, capacity and number of faults.                                   *)
(***************************************************************************)
EXTENDS MarketDepth, WireDepthMsgV1_proofs, SequenceLemmas, FiniteSetTheorems

(* Two halves make a number of twice the width. *)
LEMMA Combine ==
  ASSUME NEW b \in Nat \ {0}, NEW hi \in 0..(b - 1), NEW lo \in 0..(b - 1)
  PROVE  hi * b + lo \in 0..(b * b - 1)
<1>1. hi * b <= (b - 1) * b /\ hi * b >= 0 /\ (b - 1) * b = b * b - b BY SMT
<1>2. hi * b \in Int /\ b * b \in Int BY SMT
<1> QED BY <1>1, <1>2, SMT

LEMMA ReadTypes ==
  ASSUME NEW buf \in Packet
  PROVE  /\ \A o \in 0..31 : ReadU8(buf, o) \in Byte
         /\ \A o \in 0..30 : ReadU16(buf, o) \in 0..(U16 - 1)
         /\ \A o \in 0..28 : ReadU32(buf, o) \in 0..(U32 - 1)
         /\ \A o \in 0..24 : ReadU64(buf, o) \in 0..(U64 - 1)
<1>1. \A o \in 0..31 : ReadU8(buf, o) \in 0..(ByteBase - 1)
  BY Layout DEF ReadU8, Packet, Byte
<1>2. ASSUME NEW o \in 0..30 PROVE ReadU16(buf, o) \in 0..(U16 - 1)
  <2>1. o \in 0..31 /\ o + 1 \in 0..31 OBVIOUS
  <2> QED BY <1>1, <2>1, Combine, Sizes DEF ReadU16, U16
<1>3. ASSUME NEW o \in 0..28 PROVE ReadU32(buf, o) \in 0..(U32 - 1)
  <2>1. o \in 0..30 /\ o + 2 \in 0..30 OBVIOUS
  <2> QED BY <1>2, <2>1, Combine, Sizes DEF ReadU32, U32
<1>4. ASSUME NEW o \in 0..24 PROVE ReadU64(buf, o) \in 0..(U64 - 1)
  <2>1. o \in 0..28 /\ o + 4 \in 0..28 OBVIOUS
  <2> QED BY <1>3, <2>1, Combine, Sizes DEF ReadU64, U64
<1> QED BY <1>1, <1>2, <1>3, <1>4 DEF Byte

LEMMA DeserializeType ==
  ASSUME NEW buf \in Packet
  PROVE  Deserialize(buf) \in InternalDepthMessage
<1>1. /\ ReadU64(buf, 4) \in 0..(U64 - 1) /\ ReadU16(buf, 12) \in 0..(U16 - 1)
      /\ ReadU8(buf, 20) \in Byte /\ ReadU8(buf, 21) \in Byte
      /\ ReadU8(buf, 22) \in Byte /\ ReadU8(buf, 23) \in Byte
  BY ReadTypes
<1>2. ASSUME NEW o \in {24, 28} PROVE ReadI32(buf, o) \in I32
  <2>1. ReadU32(buf, o) \in 0..(U32 - 1) BY ReadTypes
  <2>2. U32 \div 2 \in Int /\ 0 <= U32 \div 2 BY Sizes, SMT
  <2> QED BY <2>1, <2>2, Sizes DEF ReadI32, I32
<1>3. ReadSymbol(buf) \in Symbol
  <2>1. \A k \in 0..5 : buf[14 + k] \in Byte BY Layout DEF Packet
  <2> QED BY <2>1, Layout DEF ReadSymbol, Symbol
<1>4. 0 \in Byte BY ByteAssumption DEF Byte
<1> QED BY <1>1, <1>2, <1>3, <1>4, Layout DEF Deserialize, InternalDepthMessage, Option

LEMMA AsSeenType ==
  ASSUME NEW m \in MarketDepthMessage
  PROVE  AsSeen(m) \in InternalDepthMessage
BY WireRoundTrip, DeserializeType

LEMMA ZeroesArePacket == Zeroes \in Packet
BY ByteAssumption, Layout DEF Zeroes, Packet, Byte

(* Blank, which is read before anything was received, carries time 0. *)
LEMMA BlankTime == Deserialize(Zeroes).market_ts_ns = 0
<1>1. \A k \in 0..31 : Zeroes[k] = 0 BY Layout DEF Zeroes
<1>2. \A o \in 0..30 : ReadU16(Zeroes, o) = 0 BY <1>1, Sizes DEF ReadU16, ReadU8
<1>3. \A o \in 0..28 : ReadU32(Zeroes, o) = 0
  <2>1. \A o \in 0..28 : o \in 0..30 /\ o + 2 \in 0..30 OBVIOUS
  <2> QED BY <1>2, <2>1, Sizes DEF ReadU32
<1>4. ReadU64(Zeroes, 4) = 0 BY <1>3, Sizes DEF ReadU64
<1> QED BY <1>4, Layout DEF Deserialize

-----------------------------------------------------------------------------
(* The parts of the network. *)
Copies(p, n) == [k \in 1..n |-> p]
LEMMA WithCopies ==
  ASSUME NEW s \in Seq(Packet), NEW p \in Packet, NEW n \in Nat
  PROVE  LET t == s \o Copies(p, n)
         IN  /\ t \in Seq(Packet)
             /\ Len(t) = Len(s) + n
             /\ \A j \in DOMAIN t : t[j] = IF j <= Len(s) THEN s[j] ELSE p
<1> DEFINE more == Copies(p, n)
           t == s \o more
<1>1. more \in Seq(Packet) /\ Len(more) = n /\ \A k \in 1..n : more[k] = p BY SMT DEF Copies
<1> HIDE DEF more
<1>2. /\ t \in Seq(Packet) /\ Len(t) = Len(s) + n /\ Len(s) \in Nat
      /\ DOMAIN t = 1..(Len(s) + n)
      /\ \A j \in 1..(Len(s) + n) : t[j] = IF j <= Len(s) THEN s[j] ELSE more[j - Len(s)]
  BY <1>1
<1>3. ASSUME NEW j \in DOMAIN t PROVE t[j] = IF j <= Len(s) THEN s[j] ELSE p
  <2>1. CASE j <= Len(s) BY <1>2, <2>1
  <2>2. CASE ~(j <= Len(s))
    <3>1. j - Len(s) \in 1..n BY <1>2, <2>2
    <3> QED BY <1>1, <1>2, <2>2, <3>1
  <2> QED BY <2>1, <2>2
<1> QED BY <1>2, <1>3 DEF more

LEMMA InitHolds == Init => DepthInv
<1> SUFFICES ASSUME Init PROVE DepthInv OBVIOUS
<1> USE DEF Init, NetInit, GeneratorInit, ConsumerInit
<1>1. DepthTypeOK
  BY ZeroesArePacket, Sizes, NetworkAssumption, GeneratorAssumption, ConsumerAssumption DEF DepthTypeOK
<1>2. Numbered
  <2>1. Len(Draws) \in Nat BY GeneratorAssumption
  <2>2. 0 % U16 = 0 BY Sizes, Small
  <2> QED BY <2>1, <2>2 DEF Numbered
<1>3. NothingInvented BY DEF NothingInvented
<1> QED BY <1>1, <1>2, <1>3 DEF DepthInv

(* One more message, counted modulo the size of the counter. *)
LEMMA CountOn ==
  ASSUME NEW d \in Nat \ {0}, NEW n \in Int
  PROVE  ((n % d) + 1) % d = (n + 1) % d
<1> DEFINE q == n \div d
           r == n % d
<1>1. q \in Int /\ r \in 0..(d - 1) /\ n = d * q + r BY DivFacts
<1> HIDE DEF q, r
<1>2. CASE r + 1 < d
  <2>1. r + 1 \in 0..(d - 1) BY <1>1, <1>2
  <2>2. (d * q + (r + 1)) % d = r + 1 BY <1>1, <2>1, DivUnique
  <2>3. n + 1 = d * q + (r + 1) BY <1>1
  <2> QED BY <2>1, <2>2, <2>3, Small DEF r
<1>3. CASE r + 1 = d
  <2>1. n + 1 = d * (q + 1) + 0
    <3>1. d * (q + 1) = d * q + d BY <1>1, SMT
    <3>2. d * q \in Int BY <1>1
    <3> QED BY <1>1, <1>3, <3>1, <3>2
  <2>2. (d * (q + 1) + 0) % d = 0 BY <1>1, DivUnique
  <2>3. d % d = 0 BY SMT
  <2> QED BY <1>3, <2>1, <2>2, <2>3 DEF r
<1> QED BY <1>1, <1>2, <1>3

(* The message of a round is one the wire can carry. *)
LEMMA GeneratedType ==
  ASSUME NEW k \in DOMAIN Draws, DepthTypeOK, Len(sent) + 1 = k
  PROVE  GenerateDepthMessage(Draws[k]) \in MarketDepthMessage
<1> DEFINE d == Draws[k]
           D == [idx : DOMAIN Instruments, isBid : BOOLEAN, modifier : Nat]
           I == [symbol : Symbol, strike : I32, base : I32]
<1>1. d \in D /\ Price(d) \in I32 /\ k \in 1..Len(Draws) /\ Len(Draws) \in Nat
  <2>1. Draws \in Seq(D) BY GeneratorAssumption
  <2> HIDE DEF D
  <2>2. k \in 1..Len(Draws) /\ d \in D /\ Len(Draws) \in Nat BY <2>1
  <2>3. Price(d) \in I32 BY GeneratorAssumption
  <2> QED BY <2>2, <2>3
<1>2. Instruments[d.idx] \in [symbol : Symbol, strike : I32, base : I32]
  <2>1. Instruments \in Seq(I) BY GeneratorAssumption
  <2>2. d.idx \in DOMAIN Instruments BY <1>1
  <2> HIDE DEF I, d
  <2>3. Instruments[d.idx] \in I BY <2>1, <2>2
  <2> QED BY <2>3 DEF I
<1>3. 0 \in Byte /\ 1 \in Byte BY ByteAssumption DEF Byte
<1>4. GenerateOption(d.idx) \in Option
  BY <1>2, <1>3, GeneratorAssumption DEF GenerateOption, Option
<1>5. k \in 0..(U64 - 1) BY <1>1, GeneratorAssumption, Sizes
<1> HIDE DEF d
<1>6. seq \in 0..(U16 - 1) BY DEF DepthTypeOK
<1>7. GenerateDepthMessage(d) \in MarketDepthMessage
  BY <1>1, <1>3, <1>4, <1>5, <1>6 DEF GenerateDepthMessage, MarketDepthMessage
<1> QED BY <1>7 DEF d

LEMMA GenerateHolds ==
  ASSUME DepthInv, Generate, UNCHANGED consumerVars
  PROVE  DepthInv'
<1> USE DEF DepthInv
<1> DEFINE m == GenerateDepthMessage(Draws[Len(sent) + 1])
<1>1. /\ Len(sent) \in Nat /\ Len(Draws) \in Nat /\ Len(sent) + 1 \in DOMAIN Draws
  BY GeneratorAssumption DEF DepthTypeOK, Generate
<1>2. m \in MarketDepthMessage BY <1>1, GeneratedType
<1>3. m.seq = seq /\ m.ts_ns = Len(sent) + 1 BY DEF GenerateDepthMessage
<1>4. sendQueue' = Append(sendQueue, m) /\ sendQueue = <<>>
  <2>1. sendQueue = <<>> BY DEF Generate, Numbered
  <2>2. Len(sendQueue) < SendCap BY <2>1, GeneratorAssumption
  <2> QED BY <2>1, <2>2 DEF Generate, Enqueue
<1> HIDE DEF m
<1>5. sendQueue' = <<m>> BY <1>4
<1>6. /\ genpc' = "send"
      /\ UNCHANGED <<seq, sent, net, doubled, overtakes, recvpc, buffer, recvQueue, shown, failures>>
  BY DEF Generate, netVars, consumerVars
<1>7. DepthTypeOK'
  <2>1. sendQueue' \in Seq(MarketDepthMessage) /\ Len(sendQueue') = 1 BY <1>2, <1>5
  <2>2. 1 <= SendCap BY GeneratorAssumption
  <2> QED BY <1>6, <2>1, <2>2 DEF DepthTypeOK
<1>8. Numbered' BY <1>1, <1>3, <1>5, <1>6 DEF Numbered, Generate
<1>9. NothingInvented' BY <1>6 DEF NothingInvented, WasSent, Known
<1> QED BY <1>7, <1>8, <1>9

(* What goes back to a message sent still does when more is sent. *)
LEMMA MoreSent ==
  ASSUME NEW s \in Seq(MarketDepthMessage), NEW m \in MarketDepthMessage
  PROVE  /\ \A packet : WasSent(packet, s) => WasSent(packet, Append(s, m))
         /\ \A x : Known(x, s) => Known(x, Append(s, m))
         /\ WasSent(Serialize(m), Append(s, m))
<1> DEFINE t == Append(s, m)
<1>1. /\ Len(s) \in Nat /\ DOMAIN t = 1..(Len(s) + 1) /\ DOMAIN s = 1..Len(s)
      /\ \A k \in 1..Len(s) : t[k] = s[k]
      /\ t[Len(s) + 1] = m
  OBVIOUS
<1> HIDE DEF t
<1>2. \A k \in DOMAIN s : k \in DOMAIN t /\ t[k] = s[k] BY <1>1
<1>3. Len(s) + 1 \in DOMAIN t BY <1>1
<1>4. \A packet : WasSent(packet, s) => WasSent(packet, t) BY <1>2 DEF WasSent
<1>5. \A x : Known(x, s) => Known(x, t) BY <1>2 DEF Known
<1>6. WasSent(Serialize(m), t) BY <1>1, <1>3 DEF WasSent
<1> QED BY <1>4, <1>5, <1>6 DEF t

LEMMA SendMsgHolds ==
  ASSUME DepthInv, SendMsg, UNCHANGED consumerVars
  PROVE  DepthInv'
<1> USE DEF DepthInv
<1> DEFINE m == Head(sendQueue)
           p == Serialize(m)
<1>1. /\ genpc = "send" /\ sendQueue' = Tail(sendQueue) /\ sent' = Append(sent, m)
      /\ SendToAll(p) /\ seq' = (seq + 1) % U16 /\ genpc' = "generate"
      /\ UNCHANGED <<recvpc, buffer, recvQueue, shown, failures>>
  BY DEF SendMsg, consumerVars
<1>2. /\ sendQueue \in Seq(MarketDepthMessage) /\ Len(sendQueue) = 1
      /\ sendQueue[1].seq = seq /\ sendQueue[1].ts_ns = Len(sent) + 1
      /\ Len(sent) < Len(Draws) /\ sent \in Seq(MarketDepthMessage) /\ Len(sent) \in Nat
  BY <1>1 DEF DepthTypeOK, Numbered
<1>3. m = sendQueue[1] /\ m \in MarketDepthMessage /\ sendQueue' = <<>>
  <2>1. sendQueue # <<>> BY DEF SendMsg
  <2>2. m = sendQueue[1] BY <1>2, <2>1
  <2>3. m \in MarketDepthMessage
    <3>1. 1 \in 1..Len(sendQueue) BY <1>2
    <3> QED BY <1>2, <2>2, <3>1, ElementOfSeq
  <2>4. Tail(sendQueue) \in Seq(MarketDepthMessage) /\ Len(Tail(sendQueue)) = 0 BY <1>2, <2>1
  <2> QED BY <1>1, <2>2, <2>3, <2>4
<1>4. p \in Packet BY <1>3, WireRoundTrip
<1> HIDE DEF m, p
<1>5. PICK copies \in [Client -> 0..2] :
        /\ net' = [c \in Client |-> net[c] \o Copies(p, copies[c])]
        /\ doubled' = doubled + Cardinality({c \in Client : copies[c] = 2})
        /\ doubled' <= MaxDoubled /\ UNCHANGED overtakes
  BY <1>1 DEF SendToAll, Copies
<1>6. ASSUME NEW c \in Client
      PROVE  /\ net'[c] \in Seq(Packet)
             /\ \A j \in DOMAIN net'[c] :
                  net'[c][j] = p \/ (j \in DOMAIN net[c] /\ net'[c][j] = net[c][j])
  <2>1. copies[c] \in Nat BY <1>5
  <2>2. net[c] \in Seq(Packet) BY DEF DepthTypeOK
  <2>3. net'[c] = net[c] \o Copies(p, copies[c]) BY <1>5
  <2>4. /\ net'[c] \in Seq(Packet) /\ Len(net'[c]) = Len(net[c]) + copies[c]
        /\ \A j \in DOMAIN net'[c] : net'[c][j] = IF j <= Len(net[c]) THEN net[c][j] ELSE p
    <3> DEFINE s == net[c]
               n == copies[c]
    <3>1. s \in Seq(Packet) /\ n \in Nat /\ net'[c] = s \o Copies(p, n) BY <2>1, <2>2, <2>3
    <3> HIDE DEF s, n
    <3> DEFINE t == s \o Copies(p, n)
    <3>2. t \in Seq(Packet) /\ Len(t) = Len(s) + n
      BY ONLY <1>4, <3>1, WithCopies, Zenon
    <3>3. \A j \in DOMAIN t : t[j] = IF j <= Len(s) THEN s[j] ELSE p
      BY ONLY <1>4, <3>1, WithCopies, Zenon
    <3> HIDE DEF t
    <3>4. net'[c] = t BY <3>1 DEF t
    <3> QED BY <3>2, <3>3, <3>4 DEF s, n
  <2>5. \A j \in DOMAIN net'[c] : j <= Len(net[c]) => j \in DOMAIN net[c] BY <2>2, <2>4
  <2> QED BY <2>4, <2>5
<1>7. DepthTypeOK'
  <2>1. net' \in [Client -> Seq(Packet)] BY <1>5, <1>6
  <2>2. doubled' \in 0..MaxDoubled
    <3> DEFINE D == {c \in Client : copies[c] = 2}
    <3>1. IsFiniteSet(D) BY NetworkAssumption, FS_Subset
    <3>2. Cardinality(D) \in Nat BY <3>1, FS_CardinalityType
    <3>3. doubled \in Nat /\ MaxDoubled \in Nat BY NetworkAssumption DEF DepthTypeOK
    <3> QED BY <1>5, <3>2, <3>3
  <2>3. seq' \in 0..(U16 - 1)
    <3>1. seq + 1 \in Int BY Sizes DEF DepthTypeOK
    <3> QED BY <1>1, <3>1, Sizes, DivFacts
  <2>4. sent' \in Seq(MarketDepthMessage) BY <1>1, <1>2, <1>3
  <2>5. sendQueue' \in Seq(MarketDepthMessage) /\ Len(sendQueue') <= SendCap
    BY <1>3, GeneratorAssumption
  <2>6. overtakes' \in [Client -> 0..MaxOvertakes] BY <1>5 DEF DepthTypeOK
  <2> QED BY <1>1, <2>1, <2>2, <2>3, <2>4, <2>5, <2>6 DEF DepthTypeOK
<1>8. Numbered'
  <2>1. /\ Len(sent') = Len(sent) + 1 /\ DOMAIN sent' = 1..(Len(sent) + 1)
        /\ \A k \in 1..Len(sent) : sent'[k] = sent[k]
        /\ sent'[Len(sent) + 1] = m
    BY <1>1, <1>2, <1>3
  <2>2. seq = Len(sent) % U16 /\ \A k \in 1..Len(sent) : sent[k].seq = (k - 1) % U16 /\ sent[k].ts_ns = k
    BY <1>2 DEF Numbered
  <2>3. seq' = (Len(sent) + 1) % U16
    <3>1. \A n \in Int : ((n % U16) + 1) % U16 = (n + 1) % U16 BY CountOn, Sizes, Zenon
    <3> QED BY <1>1, <1>2, <2>2, <3>1
  <2>4. m.seq = ((Len(sent) + 1) - 1) % U16 /\ m.ts_ns = Len(sent) + 1
    <3>1. (Len(sent) + 1) - 1 = Len(sent) BY <1>2
    <3> QED BY <1>2, <1>3, <2>2, <3>1
  <2>5. \A k \in DOMAIN sent' : sent'[k].seq = (k - 1) % U16 /\ sent'[k].ts_ns = k
    <3>1. \A k \in DOMAIN sent' : k \in 1..Len(sent) \/ k = Len(sent) + 1 BY <1>2, <2>1
    <3> QED BY <2>1, <2>2, <2>4, <3>1
  <2>6. Len(sent') <= Len(Draws) BY <1>2, <2>1, GeneratorAssumption
  <2> QED BY <1>1, <1>3, <2>1, <2>3, <2>5, <2>6 DEF Numbered
<1>9. NothingInvented'
  <2>1. /\ \A packet : WasSent(packet, sent) => WasSent(packet, sent')
        /\ \A x : Known(x, sent) => Known(x, sent')
        /\ WasSent(p, sent')
    BY <1>1, <1>2, <1>3, MoreSent DEF p
  <2>2. ASSUME NEW c \in Client PROVE \A j \in DOMAIN net'[c] : WasSent(net'[c][j], sent')
    BY <1>6, <2>1 DEF NothingInvented
  <2> QED BY <1>1, <2>1, <2>2 DEF NothingInvented
<1> QED BY <1>7, <1>8, <1>9

-----------------------------------------------------------------------------
(* The steps of the consumers. *)
LEMMA ReadMsgHolds ==
  ASSUME DepthInv, NEW c \in Client, ReadMsg(c), UNCHANGED generatorVars
  PROVE  DepthInv'
<1> USE DEF DepthInv
<1>1. PICK k \in DOMAIN net[c] :
        /\ buffer' = [buffer EXCEPT ![c] = net[c][k]]
        /\ net' = [net EXCEPT ![c] = RemoveAt(net[c], k)]
        /\ overtakes' = [overtakes EXCEPT ![c] = IF k = 1 THEN overtakes[c] ELSE overtakes[c] + 1]
        /\ overtakes'[c] <= MaxOvertakes
        /\ UNCHANGED doubled
  BY DEF ReadMsg, RecvAt
<1>2. /\ recvpc' = [recvpc EXCEPT ![c] = "push"]
      /\ UNCHANGED <<recvQueue, shown, failures, genpc, seq, sendQueue, sent>>
  BY DEF ReadMsg, generatorVars
<1>3. net[c] \in Seq(Packet) /\ k \in 1..Len(net[c]) /\ net[c][k] \in Packet
  <2>1. net[c] \in Seq(Packet) BY DEF DepthTypeOK
  <2>2. k \in 1..Len(net[c]) BY <2>1
  <2> QED BY <2>1, <2>2, ElementOfSeq
<1> DEFINE s == net[c]
           t == RemoveAt(s, k)
<1>4. /\ t \in Seq(Packet)
      /\ \A j \in DOMAIN t : \E i \in DOMAIN s : t[j] = s[i]
  <2>1. /\ t \in Seq(Packet) /\ Len(t) = Len(s) - 1
        /\ \A j \in 1..(Len(s) - 1) : t[j] = IF j < k THEN s[j] ELSE s[j + 1]
    BY <1>3, RemoveAtProperties
  <2>2. s \in Seq(Packet) /\ Len(s) \in Nat BY <1>3
  <2> HIDE DEF s, t
  <2>3. ASSUME NEW j \in DOMAIN t PROVE \E i \in DOMAIN s : t[j] = s[i]
    <3>1. j \in 1..(Len(s) - 1) BY <2>1, <2>2
    <3>2. j \in DOMAIN s /\ j + 1 \in DOMAIN s BY <2>2, <3>1
    <3> QED BY <2>1, <3>1, <3>2
  <2> QED BY <2>1, <2>3
<1>5. /\ net \in [Client -> Seq(Packet)] /\ buffer \in [Client -> Packet]
      /\ overtakes \in [Client -> 0..MaxOvertakes] /\ recvpc \in [Client -> {"recv", "push"}]
      /\ MaxOvertakes \in Nat
  BY NetworkAssumption DEF DepthTypeOK
<1> HIDE DEF s, t
<1>6. net' = [net EXCEPT ![c] = t] BY <1>1 DEF s, t
<1>7. DepthTypeOK'
  <2>1. net' \in [Client -> Seq(Packet)] BY <1>4, <1>5, <1>6
  <2>2. buffer' \in [Client -> Packet] BY <1>1, <1>3, <1>5
  <2>3. overtakes' \in [Client -> 0..MaxOvertakes]
    <3> DEFINE n == IF k = 1 THEN overtakes[c] ELSE overtakes[c] + 1
    <3>1. overtakes[c] \in 0..MaxOvertakes BY <1>5
    <3>2. overtakes'[c] = n BY <1>1, <1>5
    <3>3. n \in 0..MaxOvertakes BY <1>1, <1>5, <3>1, <3>2
    <3> HIDE DEF n
    <3>4. overtakes' = [overtakes EXCEPT ![c] = n] BY <1>1 DEF n
    <3> QED BY <1>5, <3>3, <3>4
  <2>4. recvpc' \in [Client -> {"recv", "push"}] BY <1>2, <1>5
  <2> QED BY <1>1, <1>2, <2>1, <2>2, <2>3, <2>4 DEF DepthTypeOK
<1>8. Numbered' BY <1>2 DEF Numbered
<1>9. NothingInvented'
  <2> SUFFICES ASSUME NEW d \in Client
               PROVE  /\ \A j \in DOMAIN net'[d] : WasSent(net'[d][j], sent)
                      /\ buffer'[d] = Zeroes \/ WasSent(buffer'[d], sent)
    BY <1>2 DEF NothingInvented
  <2>1. /\ \A j \in DOMAIN net[d] : WasSent(net[d][j], sent)
        /\ buffer[d] = Zeroes \/ WasSent(buffer[d], sent)
    BY DEF NothingInvented
  <2>2. CASE d = c
    <3>1. net'[d] = t /\ buffer'[d] = s[k] BY <1>1, <1>5, <1>6, <2>2 DEF s
    <3>2. k \in DOMAIN s BY <1>1 DEF s
    <3> QED BY <1>4, <2>1, <2>2, <3>1, <3>2 DEF s
  <2>3. CASE d # c BY <1>1, <1>5, <1>6, <2>1, <2>3
  <2> QED BY <2>2, <2>3
<1> QED BY <1>7, <1>8, <1>9

LEMMA ReadFailsHolds ==
  ASSUME DepthInv, NEW c \in Client, ReadFails(c), UNCHANGED generatorVars
  PROVE  DepthInv'
<1> USE DEF DepthInv
<1>1. /\ failures' = [failures EXCEPT ![c] = failures[c] + 1] /\ failures[c] < MaxFailures
      /\ recvpc' = [recvpc EXCEPT ![c] = "push"]
      /\ UNCHANGED <<net, doubled, overtakes, buffer, recvQueue, shown, genpc, seq, sendQueue, sent>>
  BY DEF ReadFails, generatorVars, netVars
<1>2. DepthTypeOK'
  <2>1. failures \in [Client -> 0..MaxFailures] /\ MaxFailures \in Nat
    BY ConsumerAssumption DEF DepthTypeOK
  <2>2. failures[c] + 1 \in 0..MaxFailures BY <1>1, <2>1
  <2>3. failures' \in [Client -> 0..MaxFailures] BY <1>1, <2>1, <2>2
  <2>4. recvpc' \in [Client -> {"recv", "push"}] BY <1>1 DEF DepthTypeOK
  <2> QED BY <1>1, <2>3, <2>4 DEF DepthTypeOK
<1>3. Numbered' BY <1>1 DEF Numbered
<1>4. NothingInvented' BY <1>1 DEF NothingInvented
<1> QED BY <1>2, <1>3, <1>4

(* What the buffer holds is Blank or a message sent. *)
LEMMA BufferKnown ==
  ASSUME DepthInv, NEW c \in Client
  PROVE  Deserialize(buffer[c]) \in InternalDepthMessage /\ Known(Deserialize(buffer[c]), sent)
<1>1. buffer[c] \in Packet BY DEF DepthInv, DepthTypeOK
<1>2. CASE buffer[c] = Zeroes BY <1>1, <1>2, DeserializeType DEF Known
<1>3. CASE WasSent(buffer[c], sent)
  <2>1. PICK k \in DOMAIN sent : buffer[c] = Serialize(sent[k]) BY <1>3 DEF WasSent
  <2>2. sent[k] \in MarketDepthMessage BY DEF DepthInv, DepthTypeOK
  <2>3. Deserialize(buffer[c]) = AsSeen(sent[k]) BY <2>1, <2>2, WireRoundTrip
  <2> QED BY <1>1, <2>3, DeserializeType DEF Known
<1> QED BY <1>2, <1>3 DEF DepthInv, NothingInvented

LEMMA PushHolds ==
  ASSUME DepthInv, NEW c \in Client, Push(c), UNCHANGED generatorVars
  PROVE  DepthInv'
<1> USE DEF DepthInv
<1> DEFINE m == Deserialize(buffer[c])
           q == recvQueue[c]
<1>1. m \in InternalDepthMessage /\ Known(m, sent) BY BufferKnown
<1>2. /\ recvQueue' = [recvQueue EXCEPT ![c] = Append(q, m)] /\ Len(q) < RecvCap
      /\ recvpc' = [recvpc EXCEPT ![c] = "recv"]
      /\ UNCHANGED <<net, doubled, overtakes, buffer, shown, failures, genpc, seq, sendQueue, sent>>
  BY DEF Push, generatorVars, netVars
<1>3. recvQueue \in [Client -> Seq(InternalDepthMessage)] /\ q \in Seq(InternalDepthMessage)
  BY DEF DepthTypeOK
<1> HIDE DEF m
<1>4. /\ Append(q, m) \in Seq(InternalDepthMessage) /\ Len(Append(q, m)) <= RecvCap
      /\ \A j \in DOMAIN Append(q, m) :
           Append(q, m)[j] = m \/ (j \in DOMAIN q /\ Append(q, m)[j] = q[j])
  <2>1. RecvCap \in Nat BY ConsumerAssumption
  <2> HIDE DEF q
  <2>2. /\ Append(q, m) \in Seq(InternalDepthMessage) /\ Len(Append(q, m)) = Len(q) + 1
        /\ Len(q) \in Nat
    BY <1>1, <1>3
  <2>3. \A j \in DOMAIN Append(q, m) :
           Append(q, m)[j] = m \/ (j \in DOMAIN q /\ Append(q, m)[j] = q[j])
    BY <1>1, <1>3
  <2> QED BY <1>2, <2>1, <2>2, <2>3
<1>5. DepthTypeOK'
  <2>1. recvQueue' \in [Client -> Seq(InternalDepthMessage)] BY <1>2, <1>3, <1>4
  <2>2. \A d \in Client : Len(recvQueue'[d]) <= RecvCap BY <1>2, <1>3, <1>4 DEF DepthTypeOK
  <2>3. recvpc' \in [Client -> {"recv", "push"}] BY <1>2 DEF DepthTypeOK
  <2> QED BY <1>2, <2>1, <2>2, <2>3 DEF DepthTypeOK
<1>6. Numbered' BY <1>2 DEF Numbered
<1>7. NothingInvented'
  <2> SUFFICES ASSUME NEW d \in Client PROVE \A j \in DOMAIN recvQueue'[d] : Known(recvQueue'[d][j], sent)
    BY <1>2 DEF NothingInvented
  <2>1. \A j \in DOMAIN recvQueue[d] : Known(recvQueue[d][j], sent) BY DEF NothingInvented
  <2>2. CASE d = c BY <1>1, <1>2, <1>3, <1>4, <2>1, <2>2
  <2>3. CASE d # c BY <1>2, <1>3, <2>1, <2>3
  <2> QED BY <2>2, <2>3
<1> QED BY <1>5, <1>6, <1>7

LEMMA PushFullHolds ==
  ASSUME DepthInv, NEW c \in Client, PushFull(c), UNCHANGED generatorVars
  PROVE  DepthInv'
<1> USE DEF DepthInv
<1>1. /\ recvpc' = [recvpc EXCEPT ![c] = "recv"]
      /\ UNCHANGED <<net, doubled, overtakes, buffer, recvQueue, shown, failures, genpc, seq, sendQueue, sent>>
  BY DEF PushFull, generatorVars, netVars
<1>2. DepthTypeOK'
  <2>1. recvpc' \in [Client -> {"recv", "push"}] BY <1>1 DEF DepthTypeOK
  <2> QED BY <1>1, <2>1 DEF DepthTypeOK
<1>3. Numbered' BY <1>1 DEF Numbered
<1>4. NothingInvented' BY <1>1 DEF NothingInvented
<1> QED BY <1>2, <1>3, <1>4

LEMMA TryPopHolds ==
  ASSUME DepthInv, NEW c \in Client, TryPop(c), UNCHANGED generatorVars
  PROVE  DepthInv'
<1> USE DEF DepthInv
<1> DEFINE q == recvQueue[c]
<1>1. /\ q # <<>> /\ recvQueue' = [recvQueue EXCEPT ![c] = Tail(q)]
      /\ shown' = [shown EXCEPT ![c] = <<Head(q)>>]
      /\ UNCHANGED <<net, doubled, overtakes, recvpc, buffer, failures, genpc, seq, sendQueue, sent>>
  BY DEF TryPop, generatorVars, netVars
<1>2. /\ recvQueue \in [Client -> Seq(InternalDepthMessage)] /\ q \in Seq(InternalDepthMessage)
      /\ shown \in [Client -> Seq(InternalDepthMessage)]
      /\ Len(q) <= RecvCap /\ RecvCap \in Nat
  BY ConsumerAssumption DEF DepthTypeOK
<1>3. \A j \in DOMAIN q : Known(q[j], sent) BY DEF NothingInvented
<1> DEFINE h == Head(q)
           t == Tail(q)
<1> HIDE DEF q
<1>4. h \in InternalDepthMessage /\ Known(h, sent)
  <2>1. 1 \in DOMAIN q /\ h = q[1] BY <1>1, <1>2
  <2> QED BY <1>2, <1>3, <2>1, ElementOfSeq
<1>5. /\ t \in Seq(InternalDepthMessage) /\ Len(t) = Len(q) - 1 /\ Len(q) \in Nat
      /\ \A j \in DOMAIN t : Known(t[j], sent)
  <2>1. t \in Seq(InternalDepthMessage) /\ Len(t) = Len(q) - 1 /\ Len(q) \in Nat BY <1>1, <1>2
  <2>2. \A j \in DOMAIN t : j + 1 \in DOMAIN q /\ t[j] = q[j + 1] BY <1>1, <1>2
  <2> QED BY <1>3, <2>1, <2>2
<1>6. recvQueue' = [recvQueue EXCEPT ![c] = t] /\ shown' = [shown EXCEPT ![c] = <<h>>]
  BY <1>1
<1> HIDE DEF h, t
<1>7. DepthTypeOK'
  <2>1. recvQueue' \in [Client -> Seq(InternalDepthMessage)] BY <1>2, <1>5, <1>6
  <2>2. <<h>> \in Seq(InternalDepthMessage) BY <1>4
  <2>3. shown' \in [Client -> Seq(InternalDepthMessage)] BY <1>2, <1>6, <2>2
  <2>4. Len(t) <= RecvCap BY <1>2, <1>5
  <2>5. \A d \in Client : Len(recvQueue'[d]) <= RecvCap BY <1>2, <1>6, <2>4 DEF DepthTypeOK
  <2> QED BY <1>1, <2>1, <2>3, <2>5 DEF DepthTypeOK
<1>8. Numbered' BY <1>1 DEF Numbered
<1>9. NothingInvented'
  <2> SUFFICES ASSUME NEW d \in Client
               PROVE  /\ \A j \in DOMAIN recvQueue'[d] : Known(recvQueue'[d][j], sent)
                      /\ \A j \in DOMAIN shown'[d] : Known(shown'[d][j], sent)
    BY <1>1 DEF NothingInvented
  <2>1. /\ \A j \in DOMAIN recvQueue[d] : Known(recvQueue[d][j], sent)
        /\ \A j \in DOMAIN shown[d] : Known(shown[d][j], sent)
    BY DEF NothingInvented
  <2>2. CASE d = c
    <3>1. recvQueue'[d] = t /\ shown'[d] = <<h>> BY <1>2, <1>6, <2>2
    <3>2. \A j \in DOMAIN <<h>> : <<h>>[j] = h OBVIOUS
    <3> QED BY <1>4, <1>5, <3>1, <3>2
  <2>3. CASE d # c BY <1>2, <1>6, <2>1, <2>3
  <2> QED BY <2>2, <2>3
<1> QED BY <1>7, <1>8, <1>9

-----------------------------------------------------------------------------
(* The theorems. *)
LEMMA NextHolds == DepthInv /\ [Next]_vars => DepthInv'
<1> SUFFICES ASSUME DepthInv, [Next]_vars PROVE DepthInv' OBVIOUS
<1>1. CASE Generate /\ UNCHANGED consumerVars BY <1>1, GenerateHolds
<1>2. CASE SendMsg /\ UNCHANGED consumerVars BY <1>2, SendMsgHolds
<1>3. ASSUME NEW c \in Client, ReadMsg(c), UNCHANGED generatorVars PROVE DepthInv'
  BY <1>3, ReadMsgHolds
<1>4. ASSUME NEW c \in Client, ReadFails(c), UNCHANGED generatorVars PROVE DepthInv'
  BY <1>4, ReadFailsHolds
<1>5. ASSUME NEW c \in Client, Push(c), UNCHANGED generatorVars PROVE DepthInv'
  BY <1>5, PushHolds
<1>6. ASSUME NEW c \in Client, PushFull(c), UNCHANGED generatorVars PROVE DepthInv'
  BY <1>6, PushFullHolds
<1>7. ASSUME NEW c \in Client, TryPop(c), UNCHANGED generatorVars PROVE DepthInv'
  BY <1>7, TryPopHolds
<1>8. CASE UNCHANGED vars
  BY <1>8 DEF DepthInv, DepthTypeOK, Numbered, NothingInvented,
              vars, netVars, generatorVars, consumerVars
<1> QED BY <1>1, <1>2, <1>3, <1>4, <1>5, <1>6, <1>7, <1>8 DEF Next, GeneratorStep, ReceiverStep

(* The inductive invariant: everything a datagram, a buffer, a queue or a   *)
(* screen holds goes back to a message that was sent and numbered.          *)
THEOREM DepthInvariant == Spec => []DepthInv
<1>1. Init => DepthInv BY InitHolds
<1>2. DepthInv /\ [Next]_vars => DepthInv' BY NextHolds
<1> QED BY <1>1, <1>2, PTL DEF Spec

(* No thread of the feed leaves the types of its state: no number is cut    *)
(* off, and no queue is longer than its capacity.                           *)
THEOREM DepthTypeCorrect == Spec => []DepthTypeOK
<1>1. DepthInv => DepthTypeOK BY DEF DepthInv
<1> QED BY <1>1, DepthInvariant, PTL

(* A difference of two numbers survives a counter that wraps. *)
LEMMA WrappedDifference ==
  ASSUME NEW d \in Nat \ {0}, NEW a \in Int, NEW b \in Int
  PROVE  ((b % d) - (a % d)) % d = (b - a) % d
<1> DEFINE qa == a \div d
           ra == a % d
           qb == b \div d
           rb == b % d
           q == (rb - ra) \div d
           r == (rb - ra) % d
<1>1. qa \in Int /\ ra \in 0..(d - 1) /\ a = d * qa + ra BY DivFacts
<1>2. qb \in Int /\ rb \in 0..(d - 1) /\ b = d * qb + rb BY DivFacts
<1>3. q \in Int /\ r \in 0..(d - 1) /\ rb - ra = d * q + r BY <1>1, <1>2, DivFacts
<1> HIDE DEF qa, ra, qb, rb, q, r
<1>4. b - a = d * (qb - qa + q) + r
  <2>1. d * (qb - qa + q) = d * qb - d * qa + d * q BY <1>1, <1>2, <1>3, SMT
  <2>2. d * qb \in Int /\ d * qa \in Int /\ d * q \in Int BY <1>1, <1>2, <1>3
  <2> QED BY <1>1, <1>2, <1>3, <2>1, <2>2
<1>5. qb - qa + q \in Int BY <1>1, <1>2, <1>3
<1>6. (b - a) % d = r BY <1>3, <1>4, <1>5, DivUnique
<1> QED BY <1>6 DEF r, rb, ra

(* What a client was shown, holds or is about to receive goes back to a    *)
(* message sent, or is Blank.                                               *)
LEMMA LineKnown ==
  ASSUME DepthInv, NEW c \in Client
  PROVE  Line(c) \in Seq({m \in InternalDepthMessage : Known(m, sent)})
<1> USE DEF DepthInv
<1> DEFINE K == {m \in InternalDepthMessage : Known(m, sent)}
           held == IF recvpc[c] = "push" THEN <<Deserialize(buffer[c])>> ELSE <<>>
           coming == Coming(c)
<1>1. shown[c] \in Seq(K)
  <2>1. shown[c] \in Seq(InternalDepthMessage) /\ \A j \in DOMAIN shown[c] : Known(shown[c][j], sent)
    BY DEF DepthTypeOK, NothingInvented
  <2> QED BY <2>1
<1>2. recvQueue[c] \in Seq(K)
  <2>1. /\ recvQueue[c] \in Seq(InternalDepthMessage)
        /\ \A j \in DOMAIN recvQueue[c] : Known(recvQueue[c][j], sent)
    BY DEF DepthTypeOK, NothingInvented
  <2> QED BY <2>1
<1>3. held \in Seq(K)
  <2>1. Deserialize(buffer[c]) \in K BY BufferKnown
  <2> HIDE DEF K
  <2> QED BY <2>1
<1>4. coming \in Seq(K)
  <2>1. net[c] \in Seq(Packet) /\ \A j \in DOMAIN net[c] : WasSent(net[c][j], sent)
    BY DEF DepthTypeOK, NothingInvented
  <2>2. ASSUME NEW j \in DOMAIN net[c] PROVE Deserialize(net[c][j]) \in K
    <3>1. PICK k \in DOMAIN sent : net[c][j] = Serialize(sent[k]) BY <2>1 DEF WasSent
    <3>2. sent[k] \in MarketDepthMessage BY DEF DepthTypeOK
    <3>3. Deserialize(net[c][j]) = AsSeen(sent[k]) BY <3>1, <3>2, WireRoundTrip
    <3>4. AsSeen(sent[k]) \in InternalDepthMessage BY <3>2, AsSeenType
    <3> QED BY <3>3, <3>4 DEF Known
  <2> HIDE DEF K
  <2> QED BY <2>1, <2>2 DEF Coming
<1>5. Line(c) = ((shown[c] \o recvQueue[c]) \o held) \o coming BY DEF Line, Held
<1> HIDE DEF K, held, coming
<1>6. ((shown[c] \o recvQueue[c]) \o held) \o coming \in Seq(K)
  BY <1>1, <1>2, <1>3, <1>4, ConcatProperties
<1> QED BY <1>5, <1>6 DEF K

(* The sequence numbers of any two messages a client holds, was shown or is *)
(* about to receive differ by as many messages as were sent between them,   *)
(* modulo the counter: a gap is never hidden by a loss, a repeat, an        *)
(* overtaking or a failed recv.                                             *)
THEOREM SeqTellsLossHolds == Spec => []SeqTellsLoss
<1>1. DepthInv => SeqTellsLoss
  <2> SUFFICES ASSUME DepthInv, NEW c \in Client,
                      NEW j \in DOMAIN Line(c), NEW k \in DOMAIN Line(c),
                      Line(c)[j].market_ts_ns > 0, Line(c)[k].market_ts_ns > 0
               PROVE  (Line(c)[k].seq - Line(c)[j].seq) % U16
                        = (Line(c)[k].market_ts_ns - Line(c)[j].market_ts_ns) % U16
    BY DEF SeqTellsLoss
  <2> DEFINE K == {m \in InternalDepthMessage : Known(m, sent)}
  <2>1. ASSUME NEW i \in DOMAIN Line(c) PROVE Line(c)[i] \in K
    <3>1. Line(c) \in Seq(K) BY LineKnown
    <3> HIDE DEF K
    <3> QED BY <3>1
  <2>2. ASSUME NEW m \in K, m.market_ts_ns > 0
        PROVE  m.market_ts_ns \in Int /\ m.seq = (m.market_ts_ns - 1) % U16
    <3>1. ~(0 > 0) OBVIOUS
    <3>2. m # Deserialize(Zeroes) BY <2>2, <3>1, BlankTime
    <3>3. PICK n \in DOMAIN sent : m = AsSeen(sent[n]) BY <3>2 DEF Known
    <3>4. n \in Int BY DEF DepthInv, DepthTypeOK
    <3>5. sent[n].seq = (n - 1) % U16 /\ sent[n].ts_ns = n BY DEF DepthInv, Numbered
    <3> QED BY <3>3, <3>4, <3>5 DEF AsSeen
  <2> DEFINE b == Line(c)[k].market_ts_ns
             a == Line(c)[j].market_ts_ns
  <2>3. a \in Int /\ b \in Int BY <2>1, <2>2
  <2>4. Line(c)[k].seq = (b - 1) % U16 /\ Line(c)[j].seq = (a - 1) % U16 BY <2>1, <2>2
  <2> HIDE DEF a, b
  <2>5. (((b - 1) % U16) - ((a - 1) % U16)) % U16 = ((b - 1) - (a - 1)) % U16
    <3>1. b - 1 \in Int /\ a - 1 \in Int BY <2>3
    <3> QED BY <3>1, Sizes, WrappedDifference, Zenon
  <2>6. (b - 1) - (a - 1) = b - a BY <2>3
  <2> QED BY <2>4, <2>5, <2>6 DEF a, b
<1> QED BY <1>1, DepthInvariant, PTL

-----------------------------------------------------------------------------
(* The refinement: what was sent, as a client sees it, is what DepthFeed    *)
(* publishes.                                                               *)
LEMMA SeenMessages ==
  ASSUME NEW s \in Seq(MarketDepthMessage), NEW m \in MarketDepthMessage
  PROVE  LET seen == [k \in DOMAIN s |-> AsSeen(s[k])]
             t == Append(s, m)
         IN  /\ Len(seen) = Len(s)
             /\ [k \in DOMAIN t |-> AsSeen(t[k])] = Append(seen, AsSeen(m))
<1> DEFINE seen == [k \in DOMAIN s |-> AsSeen(s[k])]
           t == Append(s, m)
           seenToo == [k \in DOMAIN t |-> AsSeen(t[k])]
<1>1. /\ Len(s) \in Nat /\ DOMAIN s = 1..Len(s) /\ DOMAIN t = 1..(Len(s) + 1)
      /\ \A k \in 1..Len(s) : t[k] = s[k]
      /\ t[Len(s) + 1] = m
  OBVIOUS
<1>2. \A k \in 1..Len(s) : AsSeen(s[k]) \in InternalDepthMessage BY AsSeenType, ElementOfSeq
<1>3. AsSeen(m) \in InternalDepthMessage BY AsSeenType
<1> HIDE DEF t
<1>4. seen \in Seq(InternalDepthMessage) /\ Len(seen) = Len(s) BY <1>1, <1>2
<1>5. /\ Append(seen, AsSeen(m)) \in Seq(InternalDepthMessage)
      /\ Len(Append(seen, AsSeen(m))) = Len(s) + 1
      /\ \A k \in 1..Len(s) : Append(seen, AsSeen(m))[k] = seen[k]
      /\ Append(seen, AsSeen(m))[Len(s) + 1] = AsSeen(m)
  BY <1>3, <1>4, AppendProperties
<1>6. seenToo \in Seq(InternalDepthMessage) /\ Len(seenToo) = Len(s) + 1
  <2>1. \A k \in 1..(Len(s) + 1) : AsSeen(t[k]) \in InternalDepthMessage
    <3>1. \A k \in 1..(Len(s) + 1) : k \in 1..Len(s) \/ k = Len(s) + 1 BY <1>1
    <3> QED BY <1>1, <1>2, <1>3, <3>1
  <2> QED BY <1>1, <2>1
<1>7. ASSUME NEW k \in 1..(Len(s) + 1) PROVE seenToo[k] = Append(seen, AsSeen(m))[k]
  <2>1. k \in DOMAIN t /\ seenToo[k] = AsSeen(t[k]) BY <1>1
  <2>2. CASE k \in 1..Len(s)
    <3>1. seen[k] = AsSeen(s[k]) BY <1>1, <2>2
    <3> QED BY <1>1, <1>5, <2>1, <2>2, <3>1
  <2>3. CASE k = Len(s) + 1 BY <1>1, <1>5, <2>1, <2>3
  <2> QED BY <1>1, <2>2, <2>3
<1> HIDE DEF seen, seenToo
<1>8. seenToo = Append(seen, AsSeen(m))
  <2> DEFINE u == Append(seen, AsSeen(m))
  <2> HIDE DEF u
  <2>1. u \in Seq(InternalDepthMessage) /\ Len(u) = Len(s) + 1 BY <1>5 DEF u
  <2>2. seenToo = u BY <1>6, <1>7, <2>1, SeqEqual DEF u
  <2> QED BY <2>2 DEF u
<1> QED BY <1>4, <1>8 DEF seen, seenToo, t

LEMMA InitIsFeedInit == Init => Feed!Init
<1> SUFFICES ASSUME Init PROVE Feed!Init OBVIOUS
<1>1. /\ sent = <<>> /\ buffer = [c \in Client |-> Zeroes]
      /\ recvQueue = [c \in Client |-> <<>>] /\ shown = [c \in Client |-> <<>>]
  BY DEF Init, GeneratorInit, ConsumerInit
<1>2. [k \in DOMAIN sent |-> AsSeen(sent[k])] = <<>> BY <1>1
<1>3. [c \in Client |-> Deserialize(buffer[c])] = [c \in Client |-> Deserialize(Zeroes)] BY <1>1
<1> QED BY <1>1, <1>2, <1>3 DEF Feed!Init

(* send_msg publishes. *)
LEMMA SendMsgPublishes ==
  ASSUME DepthInv, SendMsg, UNCHANGED consumerVars
  PROVE  Feed!Publish
<1> DEFINE m == Head(sendQueue)
           seen == [k \in DOMAIN sent |-> AsSeen(sent[k])]
           seenToo == [k \in DOMAIN sent' |-> AsSeen(sent'[k])]
<1>1. /\ genpc = "send" /\ sent' = Append(sent, m)
      /\ UNCHANGED <<recvpc, buffer, recvQueue, shown, failures>>
  BY DEF SendMsg, consumerVars
<1>2. /\ sendQueue \in Seq(MarketDepthMessage) /\ Len(sendQueue) = 1 /\ sendQueue[1].seq = seq
      /\ sent \in Seq(MarketDepthMessage) /\ seq = Len(sent) % U16
  BY <1>1 DEF DepthInv, DepthTypeOK, Numbered
<1>3. m \in MarketDepthMessage /\ m.seq = Len(sent) % U16
  <2>1. sendQueue # <<>> /\ 1 \in 1..Len(sendQueue)
    <3>1. sendQueue # <<>> BY DEF SendMsg
    <3> QED BY <1>2, <3>1
  <2>2. m = sendQueue[1] BY <1>2, <2>1
  <2> QED BY <1>2, <2>1, <2>2, ElementOfSeq
<1> HIDE DEF m
<1>4. seenToo = Append(seen, AsSeen(m)) /\ Len(seen) = Len(sent)
  BY <1>1, <1>2, <1>3, SeenMessages
<1>5. AsSeen(m) \in InternalDepthMessage /\ AsSeen(m).seq = Len(sent) % U16
  BY <1>3, AsSeenType DEF AsSeen
<1>6. seen \in Seq(InternalDepthMessage)
  <2>1. \A k \in DOMAIN sent : AsSeen(sent[k]) \in InternalDepthMessage BY <1>2, AsSeenType
  <2> QED BY <1>2, <2>1
<1> HIDE DEF seen, seenToo
<1>7. Len(seenToo) = Len(seen) + 1 /\ seenToo[Len(seenToo)] = AsSeen(m)
  BY <1>4, <1>5, <1>6, AppendProperties
<1>8. UNCHANGED <<[c \in Client |-> Deserialize(buffer[c])], recvQueue, shown>> BY <1>1
<1> QED BY <1>4, <1>5, <1>7, <1>8 DEF Feed!Publish, seen, seenToo

(* A client's read_msg hears. *)
LEMMA ReadMsgHears ==
  ASSUME DepthInv, NEW c \in Client, ReadMsg(c), UNCHANGED generatorVars
  PROVE  Feed!Hear(c)
<1> DEFINE heard == [d \in Client |-> Deserialize(buffer[d])]
           heardToo == [d \in Client |-> Deserialize(buffer'[d])]
           seen == [k \in DOMAIN sent |-> AsSeen(sent[k])]
<1>1. PICK j \in DOMAIN net[c] : buffer' = [buffer EXCEPT ![c] = net[c][j]] BY DEF ReadMsg
<1>2. UNCHANGED <<sent, recvQueue, shown>> BY DEF ReadMsg, generatorVars
<1>3. PICK k \in DOMAIN sent : net[c][j] = Serialize(sent[k])
  BY DEF DepthInv, NothingInvented, WasSent
<1>4. sent[k] \in MarketDepthMessage BY DEF DepthInv, DepthTypeOK
<1>5. Deserialize(net[c][j]) = AsSeen(sent[k]) BY <1>3, <1>4, WireRoundTrip
<1>6. k \in DOMAIN seen /\ seen[k] = AsSeen(sent[k]) OBVIOUS
<1>7. heardToo = [heard EXCEPT ![c] = seen[k]]
  <2>1. buffer \in [Client -> Packet] BY DEF DepthInv, DepthTypeOK
  <2>2. buffer'[c] = net[c][j] /\ \A d \in Client : d # c => buffer'[d] = buffer[d] BY <1>1, <2>1
  <2>3. \A d \in Client : heardToo[d] = [heard EXCEPT ![c] = seen[k]][d]
    BY <1>5, <1>6, <2>2
  <2> QED BY <2>3
<1>8. [d \in DOMAIN sent' |-> AsSeen(sent'[d])] = seen BY <1>2
<1> QED BY <1>2, <1>6, <1>7, <1>8 DEF Feed!Hear

(* Its push keeps what it heard last. *)
LEMMA PushKeeps ==
  ASSUME DepthInv, NEW c \in Client, Push(c), UNCHANGED generatorVars
  PROVE  Feed!Keep(c)
<1>1. /\ recvQueue' = [recvQueue EXCEPT ![c] = Append(recvQueue[c], Deserialize(buffer[c]))]
      /\ Len(recvQueue[c]) < RecvCap
      /\ UNCHANGED <<sent, buffer, shown>>
  BY DEF Push, generatorVars
<1>2. [d \in Client |-> Deserialize(buffer[d])][c] = Deserialize(buffer[c]) OBVIOUS
<1> QED BY <1>1, <1>2 DEF Feed!Keep

(* main's try_pop shows. *)
LEMMA TryPopShows ==
  ASSUME NEW c \in Client, TryPop(c), UNCHANGED generatorVars
  PROVE  Feed!Show(c)
<1>1. /\ recvQueue[c] # <<>>
      /\ shown' = [shown EXCEPT ![c] = <<Head(recvQueue[c])>>]
      /\ recvQueue' = [recvQueue EXCEPT ![c] = Tail(recvQueue[c])]
      /\ UNCHANGED <<sent, buffer>>
  BY DEF TryPop, generatorVars
<1> QED BY <1>1 DEF Feed!Show

LEMMA StepIsFeedStep == DepthInv /\ [Next]_vars => [Feed!Next]_Feed!vars
<1> SUFFICES ASSUME DepthInv, [Next]_vars PROVE Feed!Next \/ UNCHANGED Feed!vars OBVIOUS
<1>1. ASSUME UNCHANGED <<sent, buffer, recvQueue, shown>> PROVE UNCHANGED Feed!vars
  BY <1>1 DEF Feed!vars
<1>2. CASE Generate /\ UNCHANGED consumerVars
  BY <1>1, <1>2 DEF Generate, consumerVars
<1>3. CASE SendMsg /\ UNCHANGED consumerVars BY <1>3, SendMsgPublishes DEF Feed!Next
<1>4. ASSUME NEW c \in Client, ReadMsg(c), UNCHANGED generatorVars PROVE Feed!Next
  BY <1>4, ReadMsgHears DEF Feed!Next
<1>5. ASSUME NEW c \in Client, ReadFails(c), UNCHANGED generatorVars PROVE UNCHANGED Feed!vars
  BY <1>1, <1>5 DEF ReadFails, generatorVars
<1>6. ASSUME NEW c \in Client, Push(c), UNCHANGED generatorVars PROVE Feed!Next
  BY <1>6, PushKeeps DEF Feed!Next
<1>7. ASSUME NEW c \in Client, PushFull(c), UNCHANGED generatorVars PROVE UNCHANGED Feed!vars
  BY <1>1, <1>7 DEF PushFull, generatorVars
<1>8. ASSUME NEW c \in Client, TryPop(c), UNCHANGED generatorVars PROVE Feed!Next
  BY <1>8, TryPopShows DEF Feed!Next
<1>9. CASE UNCHANGED vars BY <1>1, <1>9 DEF vars, generatorVars, consumerVars
<1> QED BY <1>2, <1>3, <1>4, <1>5, <1>6, <1>7, <1>8, <1>9 DEF Next, GeneratorStep, ReceiverStep

(* Bytes, buffers, threads and the network implement the feed: whatever is  *)
(* lost, doubled, overtaken, read twice or not kept, a client is shown only *)
(* what was sent, field by field, in the order it heard it.                 *)
THEOREM DepthFeedImplemented == Spec => ImplementsDepthFeed
<1>1. Init => Feed!Init BY InitIsFeedInit
<1>2. DepthInv /\ [Next]_vars => [Feed!Next]_Feed!vars BY StepIsFeedStep
<1> QED BY <1>1, <1>2, DepthInvariant, PTL DEF Spec, ImplementsDepthFeed, Feed!Spec

-----------------------------------------------------------------------------
(* The order of a client's line. *)
LEMMA StampsAreNumbers ==
  ASSUME DepthInv, NEW c \in Client
  PROVE  /\ Held(c) \in Seq(InternalDepthMessage) /\ DOMAIN Held(c) = {1}
         /\ Held(c)[1] = Deserialize(buffer[c])
         /\ Deserialize(buffer[c]).market_ts_ns \in 0..Len(sent)
         /\ Coming(c) \in Seq(InternalDepthMessage) /\ DOMAIN Coming(c) = DOMAIN net[c]
         /\ \A j \in DOMAIN net[c] : /\ Coming(c)[j] = Deserialize(net[c][j])
                                    /\ Coming(c)[j].market_ts_ns \in 0..Len(sent)
         /\ shown[c] \in Seq(InternalDepthMessage) /\ recvQueue[c] \in Seq(InternalDepthMessage)
<1> USE DEF DepthInv
<1>0. sent \in Seq(MarketDepthMessage) /\ Len(sent) \in Nat /\ DOMAIN sent = 1..Len(sent)
  BY DEF DepthTypeOK
<1>1. ASSUME NEW p \in Packet, p = Zeroes \/ WasSent(p, sent)
      PROVE  Deserialize(p).market_ts_ns \in 0..Len(sent)
  <2>1. CASE p = Zeroes BY <1>0, <2>1, BlankTime
  <2>2. CASE WasSent(p, sent)
    <3>1. PICK k \in DOMAIN sent : p = Serialize(sent[k]) BY <2>2 DEF WasSent
    <3>2. sent[k] \in MarketDepthMessage BY <1>0
    <3>3. Deserialize(p) = AsSeen(sent[k]) BY <3>1, <3>2, WireRoundTrip
    <3>4. sent[k].ts_ns = k BY DEF Numbered
    <3>5. Deserialize(p).market_ts_ns = k BY <3>3, <3>4 DEF AsSeen
    <3> QED BY <1>0, <3>5
  <2> QED BY <1>1, <2>1, <2>2
<1>2. /\ buffer[c] \in Packet /\ (buffer[c] = Zeroes \/ WasSent(buffer[c], sent))
      /\ net[c] \in Seq(Packet) /\ \A j \in DOMAIN net[c] : WasSent(net[c][j], sent)
  BY DEF DepthTypeOK, NothingInvented
<1>3. Deserialize(buffer[c]).market_ts_ns \in 0..Len(sent) BY <1>1, <1>2
<1>4. \A j \in DOMAIN net[c] : net[c][j] \in Packet BY <1>2
<1>5. /\ Coming(c) \in Seq(InternalDepthMessage) /\ DOMAIN Coming(c) = DOMAIN net[c]
      /\ \A j \in DOMAIN net[c] : Coming(c)[j] = Deserialize(net[c][j])
  <2>1. \A j \in DOMAIN net[c] : Deserialize(net[c][j]) \in InternalDepthMessage
    BY <1>4, DeserializeType
  <2> QED BY <1>2, <2>1 DEF Coming
<1>6. \A j \in DOMAIN net[c] : Coming(c)[j].market_ts_ns \in 0..Len(sent) BY <1>1, <1>2, <1>4, <1>5
<1>7. /\ Held(c) \in Seq(InternalDepthMessage) /\ DOMAIN Held(c) = {1}
      /\ Held(c)[1] = Deserialize(buffer[c])
  <2>1. Deserialize(buffer[c]) \in InternalDepthMessage BY <1>2, DeserializeType
  <2> QED BY <2>1 DEF Held
<1>8. shown[c] \in Seq(InternalDepthMessage) /\ recvQueue[c] \in Seq(InternalDepthMessage)
  BY DEF DepthTypeOK
<1> QED BY <1>3, <1>5, <1>6, <1>7, <1>8

(* Time stamps can be compared. *)
LEMMA StampType ==
  ASSUME NEW s \in Seq(InternalDepthMessage), NEW j \in DOMAIN s
  PROVE  s[j].market_ts_ns \in Int
<1>1. s[j] \in InternalDepthMessage OBVIOUS
<1>2. s[j].market_ts_ns \in 0..(U64 - 1) BY <1>1 DEF InternalDepthMessage
<1> QED BY <1>2, Sizes

LEMMA InitOrdered == Init => OrderInv
<1> SUFFICES ASSUME Init, NEW c \in Client PROVE Ordered(c) BY DEF OrderInv
<1>1. net[c] = <<>> /\ recvQueue[c] = <<>> /\ shown[c] = <<>>
  BY DEF Init, NetInit, ConsumerInit
<1>2. DOMAIN Coming(c) = {} BY <1>1 DEF Coming
<1> QED BY <1>1, <1>2 DEF Ordered, Before, Rising

(* Every message sent is newer than all before it. *)
LEMMA SendMsgOrdered ==
  ASSUME DepthInv, DepthInv', OrderInv, SendMsg, UNCHANGED consumerVars
  PROVE  OrderInv'
<1> SUFFICES ASSUME NEW c \in Client, overtakes'[c] = 0 PROVE Ordered(c)' BY DEF OrderInv
<1> DEFINE m == Head(sendQueue)
           p == Serialize(m)
<1>1. /\ genpc = "send" /\ SendToAll(p)
      /\ UNCHANGED <<recvpc, buffer, recvQueue, shown, failures>>
  BY DEF SendMsg, consumerVars
<1>2. /\ sendQueue \in Seq(MarketDepthMessage) /\ Len(sendQueue) = 1
      /\ sendQueue[1].ts_ns = Len(sent) + 1 /\ Len(sent) \in Nat
  BY <1>1 DEF DepthInv, DepthTypeOK, Numbered
<1>3. m \in MarketDepthMessage /\ m.ts_ns = Len(sent) + 1
  <2>1. sendQueue # <<>> BY DEF SendMsg
  <2>2. m = sendQueue[1] /\ 1 \in 1..Len(sendQueue) BY <1>2, <2>1
  <2> QED BY <1>2, <2>2, ElementOfSeq
<1> HIDE DEF m
<1>4. p \in Packet /\ Deserialize(p).market_ts_ns = Len(sent) + 1
  BY <1>3, WireRoundTrip DEF AsSeen
<1> HIDE DEF p
<1>5. PICK n \in Nat : net'[c] = net[c] \o Copies(p, n) /\ overtakes'[c] = overtakes[c]
  <2>1. PICK copies \in [Client -> 0..2] :
          /\ net' = [d \in Client |-> net[d] \o Copies(p, copies[d])]
          /\ UNCHANGED overtakes
    BY <1>1 DEF SendToAll, Copies
  <2>2. copies[c] \in Nat BY <2>1
  <2> QED BY <2>1, <2>2
<1>6. net[c] \in Seq(Packet) BY DEF DepthInv, DepthTypeOK
<1>7. /\ net'[c] \in Seq(Packet)
      /\ \A j \in DOMAIN net'[c] : net'[c][j] = IF j <= Len(net[c]) THEN net[c][j] ELSE p
  <2> DEFINE r == net[c]
             t == r \o Copies(p, n)
  <2>1. r \in Seq(Packet) /\ n \in Nat /\ p \in Packet BY <1>4, <1>6
  <2> HIDE DEF r
  <2>2. t \in Seq(Packet) BY ONLY <2>1, WithCopies, Zenon
  <2>3. \A j \in DOMAIN t : t[j] = IF j <= Len(r) THEN r[j] ELSE p
    BY ONLY <2>1, WithCopies, Zenon
  <2> HIDE DEF t
  <2>4. net'[c] = t BY <1>5 DEF r, t
  <2> QED BY <2>2, <2>3, <2>4 DEF r
<1>8. Ordered(c) BY <1>5 DEF OrderInv
<1> DEFINE s == Coming(c)
           t == Coming(c)'
           L == Len(net[c])
<1>9. /\ DOMAIN s = 1..L /\ L \in Nat
      /\ \A j \in 1..L : s[j] = Deserialize(net[c][j]) /\ s[j].market_ts_ns \in 0..Len(sent)
  BY <1>6, StampsAreNumbers
<1>10. \A j \in DOMAIN t : j \in Nat \ {0} /\ t[j] = IF j <= L THEN s[j] ELSE Deserialize(p)
  BY <1>7, <1>9 DEF Coming
<1>11. Deserialize(buffer[c]).market_ts_ns \in 0..Len(sent) BY StampsAreNumbers
<1>12. Held(c)' = Held(c) /\ shown'[c] = shown[c] /\ recvQueue'[c] = recvQueue[c]
  BY <1>1 DEF Held
<1> HIDE DEF s, t, L
<1>13. Before(Held(c), s) /\ Rising(s) BY <1>8 DEF Ordered, s
<1>14. Before(Held(c), t)
  <2>1. Held(c)[1].market_ts_ns \in 0..Len(sent) /\ DOMAIN Held(c) = {1} BY StampsAreNumbers
  <2>2. ASSUME NEW j \in DOMAIN t PROVE Held(c)[1].market_ts_ns <= t[j].market_ts_ns
    <3>1. CASE j <= L
      <4>1. j \in DOMAIN s BY <1>9, <1>10, <3>1
      <4> QED BY <1>10, <1>13, <2>1, <3>1, <4>1 DEF Before
    <3>2. CASE ~(j <= L) BY <1>2, <1>4, <1>10, <2>1, <3>2
    <3> QED BY <3>1, <3>2
  <2> QED BY <2>1, <2>2 DEF Before
<1>15. Rising(t)
  <2> SUFFICES ASSUME NEW i \in DOMAIN t, NEW j \in DOMAIN t, i <= j
               PROVE  t[i].market_ts_ns <= t[j].market_ts_ns
    BY DEF Rising
  <2>1. CASE j <= L
    <3>1. i \in DOMAIN s /\ j \in DOMAIN s /\ i <= L BY <1>9, <1>10, <2>1
    <3> QED BY <1>10, <1>13, <2>1, <3>1 DEF Rising
  <2>2. CASE ~(j <= L) /\ i <= L
    <3>1. i \in 1..L BY <1>9, <1>10, <2>2
    <3> QED BY <1>2, <1>4, <1>9, <1>10, <2>2, <3>1
  <2>3. CASE ~(j <= L) /\ ~(i <= L) BY <1>2, <1>4, <1>10, <2>3
  <2> QED BY <2>1, <2>2, <2>3
<1> QED BY <1>8, <1>12, <1>14, <1>15 DEF Ordered, t

(* A client none of whose variables changes stays in order. *)
LEMMA UntouchedOrdered ==
  ASSUME NEW c \in Client, Ordered(c),
         buffer'[c] = buffer[c], net'[c] = net[c], recvQueue'[c] = recvQueue[c], shown'[c] = shown[c]
  PROVE  Ordered(c)'
<1>1. Held(c)' = Held(c) /\ Coming(c)' = Coming(c) BY DEF Held, Coming
<1> QED BY <1>1 DEF Ordered

LEMMA ReadMsgOrdered ==
  ASSUME DepthInv, OrderInv, NEW c \in Client, ReadMsg(c), UNCHANGED generatorVars
  PROVE  OrderInv'
<1>1. PICK k \in DOMAIN net[c] :
        /\ buffer' = [buffer EXCEPT ![c] = net[c][k]]
        /\ net' = [net EXCEPT ![c] = RemoveAt(net[c], k)]
        /\ overtakes' = [overtakes EXCEPT ![c] = IF k = 1 THEN overtakes[c] ELSE overtakes[c] + 1]
  BY DEF ReadMsg, RecvAt
<1>2. UNCHANGED <<recvQueue, shown>> BY DEF ReadMsg
<1>3. /\ net \in [Client -> Seq(Packet)] /\ buffer \in [Client -> Packet]
      /\ overtakes \in [Client -> 0..MaxOvertakes] /\ MaxOvertakes \in Nat
  BY NetworkAssumption DEF DepthInv, DepthTypeOK
<1> SUFFICES ASSUME NEW d \in Client, overtakes'[d] = 0 PROVE Ordered(d)' BY DEF OrderInv
<1>4. CASE d # c
  <2>1. Ordered(d) BY <1>1, <1>3, <1>4 DEF OrderInv
  <2> QED BY <1>1, <1>2, <1>3, <1>4, <2>1, UntouchedOrdered
<1>5. CASE d = c
  <2>1. k = 1 /\ overtakes[c] = 0
    <3>1. overtakes[c] \in Nat BY <1>3
    <3> QED BY <1>1, <1>3, <1>5, <3>1
  <2>2. Ordered(c) BY <2>1 DEF OrderInv
  <2> DEFINE s == net[c]
             coming == Coming(c)
             comingToo == Coming(c)'
             heldToo == Held(c)'
  <2>3. s \in Seq(Packet) /\ 1 \in 1..Len(s) BY <1>1, <1>3, <2>1
  <2>4. net'[c] = RemoveAt(s, 1) /\ buffer'[c] = s[1] BY <1>1, <1>3, <2>1
  <2>5. /\ RemoveAt(s, 1) \in Seq(Packet) /\ Len(RemoveAt(s, 1)) = Len(s) - 1
        /\ \A j \in 1..(Len(s) - 1) : RemoveAt(s, 1)[j] = IF j < 1 THEN s[j] ELSE s[j + 1]
    <3> HIDE DEF s
    <3> QED BY ONLY <2>3, RemoveAtProperties
  <2>6. DOMAIN coming = 1..Len(s) /\ \A j \in 1..Len(s) : coming[j] = Deserialize(s[j])
    BY <2>3 DEF Coming
  <2>7. /\ DOMAIN comingToo = 1..(Len(s) - 1)
        /\ \A j \in 1..(Len(s) - 1) : j + 1 \in 1..Len(s) /\ comingToo[j] = coming[j + 1]
    <3>1. DOMAIN comingToo = 1..(Len(s) - 1) BY <2>3, <2>4, <2>5 DEF Coming
    <3>2. ASSUME NEW j \in 1..(Len(s) - 1) PROVE j + 1 \in 1..Len(s) /\ comingToo[j] = coming[j + 1]
      <4>1. j + 1 \in 1..Len(s) /\ ~(j < 1) BY <2>3
      <4>2. comingToo[j] = Deserialize(net'[c][j]) BY <3>1 DEF Coming
      <4> QED BY <2>4, <2>5, <2>6, <4>1, <4>2
    <3> QED BY <3>1, <3>2
  <2>8. DOMAIN heldToo = {1} /\ heldToo[1] = coming[1]
    <3>1. heldToo = <<Deserialize(s[1])>> BY <2>4 DEF Held
    <3> QED BY <2>3, <2>6, <3>1
  <2>9. /\ Before(shown[c], recvQueue[c]) /\ Before(shown[c], Held(c)) /\ Rising(recvQueue[c])
        /\ Before(recvQueue[c], Held(c)) /\ Before(Held(c), coming) /\ Rising(coming)
        /\ Len(shown[c]) <= 1
    BY <2>2 DEF Ordered
  <2>10. /\ coming \in Seq(InternalDepthMessage) /\ DOMAIN Held(c) = {1}
         /\ Held(c) \in Seq(InternalDepthMessage)
         /\ shown[c] \in Seq(InternalDepthMessage) /\ recvQueue[c] \in Seq(InternalDepthMessage)
    BY StampsAreNumbers
  <2> HIDE DEF s, coming, comingToo, heldToo
  <2>11. Len(s) \in Nat /\ 1 \in DOMAIN coming BY <2>3, <2>6
  <2>12. Held(c)[1].market_ts_ns \in Int /\ coming[1].market_ts_ns \in Int
         /\ Held(c)[1].market_ts_ns <= coming[1].market_ts_ns
    BY <2>9, <2>10, <2>11, StampType DEF Before
  <2>13. ASSUME NEW t \in Seq(InternalDepthMessage), Before(t, Held(c)) PROVE Before(t, heldToo)
    <3>1. \A i \in DOMAIN t : t[i].market_ts_ns \in Int /\ t[i].market_ts_ns <= Held(c)[1].market_ts_ns
      BY <2>10, <2>13, StampType DEF Before
    <3> QED BY <2>8, <2>12, <3>1 DEF Before
  <2>14. Before(heldToo, comingToo)
    <3>1. \A j \in 1..Len(s) : 1 <= j /\ coming[1].market_ts_ns <= coming[j].market_ts_ns
      BY <2>6, <2>9, <2>11 DEF Rising
    <3> QED BY <2>7, <2>8, <3>1 DEF Before
  <2>15. Rising(comingToo)
    <3> SUFFICES ASSUME NEW i \in DOMAIN comingToo, NEW j \in DOMAIN comingToo, i <= j
                 PROVE  comingToo[i].market_ts_ns <= comingToo[j].market_ts_ns
      BY DEF Rising
    <3>1. i + 1 \in DOMAIN coming /\ j + 1 \in DOMAIN coming /\ i + 1 <= j + 1
      BY <2>6, <2>7, <2>11
    <3> QED BY <2>7, <2>9, <3>1 DEF Rising
  <2>16. Before(shown[c], heldToo) /\ Before(recvQueue[c], heldToo) BY <2>9, <2>10, <2>13
  <2> QED BY <1>2, <1>5, <2>9, <2>14, <2>15, <2>16 DEF Ordered, comingToo, heldToo
<1> QED BY <1>4, <1>5

LEMMA PushOrdered ==
  ASSUME DepthInv, OrderInv, NEW c \in Client, Push(c), UNCHANGED generatorVars
  PROVE  OrderInv'
<1>1. /\ recvQueue' = [recvQueue EXCEPT ![c] = Append(recvQueue[c], Deserialize(buffer[c]))]
      /\ UNCHANGED <<net, overtakes, buffer, shown>>
  BY DEF Push, netVars
<1>2. recvQueue \in [Client -> Seq(InternalDepthMessage)] BY DEF DepthInv, DepthTypeOK
<1> SUFFICES ASSUME NEW d \in Client, overtakes'[d] = 0 PROVE Ordered(d)' BY DEF OrderInv
<1>3. Ordered(d) BY <1>1 DEF OrderInv
<1>4. CASE d # c BY <1>1, <1>2, <1>3, <1>4, UntouchedOrdered
<1>5. CASE d = c
  <2> DEFINE q == recvQueue[c]
             m == Deserialize(buffer[c])
             t == Append(q, m)
  <2>1. /\ Before(shown[c], q) /\ Before(shown[c], Held(c)) /\ Rising(q)
        /\ Before(q, Held(c)) /\ Before(Held(c), Coming(c)) /\ Rising(Coming(c))
        /\ Len(shown[c]) <= 1
    BY <1>3, <1>5 DEF Ordered
  <2>2. DOMAIN Held(c) = {1} /\ Held(c)[1] = m /\ q \in Seq(InternalDepthMessage)
    BY StampsAreNumbers
  <2>3. m \in InternalDepthMessage /\ m.market_ts_ns \in Int
    <3>1. m \in InternalDepthMessage BY BufferKnown
    <3>2. m.market_ts_ns \in 0..(U64 - 1) BY <3>1 DEF InternalDepthMessage
    <3> QED BY <3>1, <3>2, Sizes
  <2>4. recvQueue'[c] = t /\ Held(c)' = Held(c) /\ Coming(c)' = Coming(c) /\ shown'[c] = shown[c]
    BY <1>1, <1>2 DEF Held, Coming
  <2> HIDE DEF m, q
  <2>5. /\ DOMAIN t = 1..(Len(q) + 1) /\ DOMAIN q = 1..Len(q) /\ Len(q) \in Nat
        /\ \A j \in 1..Len(q) : t[j] = q[j]
        /\ t[Len(q) + 1] = m
    BY <2>2, <2>3
  <2> HIDE DEF t
  <2>6. \A j \in DOMAIN t : (j \in DOMAIN q /\ t[j] = q[j]) \/ (j = Len(q) + 1 /\ t[j] = m)
    BY <2>5
  <2>7. Before(shown[c], t) BY <2>1, <2>2, <2>6 DEF Before
  <2>8. Before(t, Held(c)) BY <2>1, <2>2, <2>3, <2>6 DEF Before
  <2>9. Rising(t)
    <3> SUFFICES ASSUME NEW i \in DOMAIN t, NEW j \in DOMAIN t, i <= j
                 PROVE  t[i].market_ts_ns <= t[j].market_ts_ns
      BY DEF Rising
    <3>1. CASE j \in DOMAIN q
      <4>1. i \in DOMAIN q BY <2>5, <3>1
      <4> QED BY <2>1, <2>5, <3>1, <4>1 DEF Rising
    <3>2. CASE j = Len(q) + 1 /\ i \in DOMAIN q BY <2>1, <2>2, <2>5, <3>2 DEF Before
    <3>3. CASE j = Len(q) + 1 /\ i = Len(q) + 1 BY <2>3, <2>5, <3>3
    <3> QED BY <2>5, <2>6, <3>1, <3>2, <3>3
  <2> QED BY <1>5, <2>1, <2>4, <2>7, <2>8, <2>9 DEF Ordered
<1> QED BY <1>4, <1>5

LEMMA TryPopOrdered ==
  ASSUME DepthInv, OrderInv, NEW c \in Client, TryPop(c), UNCHANGED generatorVars
  PROVE  OrderInv'
<1>1. /\ recvQueue[c] # <<>>
      /\ shown' = [shown EXCEPT ![c] = <<Head(recvQueue[c])>>]
      /\ recvQueue' = [recvQueue EXCEPT ![c] = Tail(recvQueue[c])]
      /\ UNCHANGED <<net, overtakes, buffer>>
  BY DEF TryPop, netVars
<1>2. /\ recvQueue \in [Client -> Seq(InternalDepthMessage)]
      /\ shown \in [Client -> Seq(InternalDepthMessage)]
  BY DEF DepthInv, DepthTypeOK
<1> SUFFICES ASSUME NEW d \in Client, overtakes'[d] = 0 PROVE Ordered(d)' BY DEF OrderInv
<1>3. Ordered(d) BY <1>1 DEF OrderInv
<1>4. CASE d # c BY <1>1, <1>2, <1>3, <1>4, UntouchedOrdered
<1>5. CASE d = c
  <2> DEFINE q == recvQueue[c]
             h == <<Head(q)>>
             t == Tail(q)
  <2>1. /\ Rising(q) /\ Before(q, Held(c)) /\ Before(Held(c), Coming(c)) /\ Rising(Coming(c))
    BY <1>3, <1>5 DEF Ordered
  <2>2. q \in Seq(InternalDepthMessage) /\ q # <<>> BY <1>1, <1>2
  <2>3. /\ recvQueue'[c] = t /\ shown'[c] = h
        /\ Held(c)' = Held(c) /\ Coming(c)' = Coming(c)
    BY <1>1, <1>2 DEF Held, Coming
  <2> HIDE DEF q
  <2>4. /\ Len(q) \in Nat /\ DOMAIN q = 1..Len(q) /\ 1 \in DOMAIN q
        /\ DOMAIN t = 1..(Len(q) - 1) /\ \A j \in DOMAIN t : t[j] = q[j + 1]
        /\ DOMAIN h = {1} /\ h[1] = q[1] /\ Len(h) = 1
    BY <2>2
  <2> HIDE DEF t, h
  <2>5. \A j \in DOMAIN t : j + 1 \in DOMAIN q /\ 1 <= j + 1 BY <2>4
  <2>6. Before(h, t) BY <2>1, <2>4, <2>5 DEF Before, Rising
  <2>7. Before(h, Held(c)) BY <2>1, <2>4 DEF Before
  <2>8. Before(t, Held(c)) BY <2>1, <2>4, <2>5 DEF Before
  <2>9. Rising(t)
    <3> SUFFICES ASSUME NEW i \in DOMAIN t, NEW j \in DOMAIN t, i <= j
                 PROVE  t[i].market_ts_ns <= t[j].market_ts_ns
      BY DEF Rising
    <3>1. i + 1 \in DOMAIN q /\ j + 1 \in DOMAIN q /\ i + 1 <= j + 1 BY <2>4, <2>5
    <3> QED BY <2>1, <2>4, <3>1 DEF Rising
  <2> QED BY <1>5, <2>1, <2>3, <2>4, <2>6, <2>7, <2>8, <2>9 DEF Ordered
<1> QED BY <1>4, <1>5

LEMMA NextOrdered == DepthInv /\ DepthInv' /\ OrderInv /\ [Next]_vars => OrderInv'
<1> SUFFICES ASSUME DepthInv, DepthInv', OrderInv, [Next]_vars PROVE OrderInv' OBVIOUS
<1>1. ASSUME UNCHANGED <<net, overtakes, buffer, recvQueue, shown>> PROVE OrderInv'
  <2> SUFFICES ASSUME NEW c \in Client, overtakes'[c] = 0 PROVE Ordered(c)' BY DEF OrderInv
  <2>1. Ordered(c) BY <1>1 DEF OrderInv
  <2> QED BY <1>1, <2>1, UntouchedOrdered
<1>2. CASE Generate /\ UNCHANGED consumerVars
  BY <1>1, <1>2 DEF Generate, consumerVars, netVars
<1>3. CASE SendMsg /\ UNCHANGED consumerVars BY <1>3, SendMsgOrdered
<1>4. ASSUME NEW c \in Client, ReadMsg(c), UNCHANGED generatorVars PROVE OrderInv'
  BY <1>4, ReadMsgOrdered
<1>5. ASSUME NEW c \in Client, ReadFails(c), UNCHANGED generatorVars PROVE OrderInv'
  BY <1>1, <1>5 DEF ReadFails, netVars
<1>6. ASSUME NEW c \in Client, Push(c), UNCHANGED generatorVars PROVE OrderInv'
  BY <1>6, PushOrdered
<1>7. ASSUME NEW c \in Client, PushFull(c), UNCHANGED generatorVars PROVE OrderInv'
  BY <1>1, <1>7 DEF PushFull, netVars
<1>8. ASSUME NEW c \in Client, TryPop(c), UNCHANGED generatorVars PROVE OrderInv'
  BY <1>8, TryPopOrdered
<1>9. CASE UNCHANGED vars BY <1>1, <1>9 DEF vars, netVars, consumerVars
<1> QED BY <1>2, <1>3, <1>4, <1>5, <1>6, <1>7, <1>8, <1>9 DEF Next, GeneratorStep, ReceiverStep

(* Two rising sequences, one before the other, make one. *)
LEMMA RisingJoin ==
  ASSUME NEW s \in Seq(InternalDepthMessage), NEW t \in Seq(InternalDepthMessage),
         Rising(s), Rising(t), Before(s, t)
  PROVE  /\ s \o t \in Seq(InternalDepthMessage) /\ Rising(s \o t)
         /\ \A u \in Seq(InternalDepthMessage) : Before(s, u) /\ Before(t, u) => Before(s \o t, u)
<1> DEFINE w == s \o t
<1>1. /\ w \in Seq(InternalDepthMessage) /\ Len(s) \in Nat /\ Len(t) \in Nat
      /\ DOMAIN s = 1..Len(s) /\ DOMAIN t = 1..Len(t) /\ DOMAIN w = 1..(Len(s) + Len(t))
      /\ \A j \in 1..(Len(s) + Len(t)) : w[j] = IF j <= Len(s) THEN s[j] ELSE t[j - Len(s)]
  OBVIOUS
<1> HIDE DEF w
<1>2. \A j \in DOMAIN w : \/ j <= Len(s) /\ j \in DOMAIN s /\ w[j] = s[j]
                          \/ j > Len(s) /\ j - Len(s) \in DOMAIN t /\ w[j] = t[j - Len(s)]
  <2>1. ASSUME NEW j \in DOMAIN w, j <= Len(s) PROVE j \in DOMAIN s /\ w[j] = s[j] BY <1>1, <2>1
  <2>2. ASSUME NEW j \in DOMAIN w, j > Len(s)
        PROVE  j - Len(s) \in DOMAIN t /\ w[j] = t[j - Len(s)]
    <3>1. ~(j <= Len(s)) /\ j - Len(s) \in 1..Len(t) BY <1>1, <2>2
    <3> QED BY <1>1, <3>1
  <2>3. \A j \in DOMAIN w : j <= Len(s) \/ j > Len(s) BY <1>1
  <2> QED BY <2>1, <2>2, <2>3
<1>3. Rising(w)
  <2> SUFFICES ASSUME NEW i \in DOMAIN w, NEW j \in DOMAIN w, i <= j
               PROVE  w[i].market_ts_ns <= w[j].market_ts_ns
    BY DEF Rising
  <2>1. CASE j <= Len(s)
    <3>1. i <= Len(s) BY <1>1, <2>1
    <3>2. ~(i > Len(s)) /\ ~(j > Len(s)) BY <1>1, <2>1, <3>1
    <3> QED BY <1>2, <3>2 DEF Rising
  <2>2. CASE i <= Len(s) /\ j > Len(s)
    <3>1. ~(i > Len(s)) /\ ~(j <= Len(s)) BY <1>1, <2>2
    <3> QED BY <1>2, <3>1 DEF Before
  <2>3. CASE i > Len(s) /\ j > Len(s)
    <3>1. ~(i <= Len(s)) /\ ~(j <= Len(s)) /\ i - Len(s) <= j - Len(s) BY <1>1, <2>3
    <3> QED BY <1>2, <3>1 DEF Rising
  <2> QED BY <1>1, <2>1, <2>2, <2>3
<1>4. ASSUME NEW u \in Seq(InternalDepthMessage), Before(s, u), Before(t, u) PROVE Before(w, u)
  BY <1>2, <1>4 DEF Before
<1> QED BY <1>1, <1>3, <1>4 DEF w

(* Where nothing was overtaken, a client is never shown an older message    *)
(* after a newer one, and nothing it holds or is about to receive is older  *)
(* than what it was shown.                                                  *)
THEOREM InOrderHolds == Spec => []InOrder
<1>1. DepthInv /\ OrderInv => InOrder
  <2> SUFFICES ASSUME DepthInv, OrderInv, NEW c \in Client, overtakes[c] = 0,
                      NEW k \in 1..(Len(Line(c)) - 1)
               PROVE  Line(c)[k].market_ts_ns <= Line(c)[k + 1].market_ts_ns
    BY DEF InOrder
  <2> DEFINE S == Seq(InternalDepthMessage)
             a == shown[c]
             q == recvQueue[c]
             h == IF recvpc[c] = "push" THEN Held(c) ELSE <<>>
             n == Coming(c)
  <2>1. /\ Len(a) <= 1 /\ Before(a, q) /\ Before(a, Held(c)) /\ Rising(q) /\ Before(q, Held(c))
        /\ Before(Held(c), n) /\ Rising(n)
    BY DEF OrderInv, Ordered
  <2>2. a \in S /\ q \in S /\ Held(c) \in S /\ n \in S /\ DOMAIN Held(c) = {1}
    BY StampsAreNumbers
  <2>3. Line(c) = ((a \o q) \o h) \o n BY DEF Line
  <2>4. h \in S /\ (h = Held(c) \/ DOMAIN h = {}) BY <2>2
  <2> HIDE DEF a, q, h, n
  <2>5. ASSUME NEW s \in S, Before(s, Held(c)) PROVE Before(s, n)
    <3>1. \A i \in DOMAIN s : s[i].market_ts_ns \in Int BY StampType
    <3>2. \A j \in DOMAIN n : n[j].market_ts_ns \in Int BY <2>2, StampType
    <3>3. 1 \in DOMAIN Held(c) /\ Held(c)[1].market_ts_ns \in Int BY <2>2, StampType
    <3>4. ASSUME NEW i \in DOMAIN s, NEW j \in DOMAIN n
          PROVE  s[i].market_ts_ns <= n[j].market_ts_ns
      <4>1. s[i].market_ts_ns <= Held(c)[1].market_ts_ns BY <2>5, <3>3 DEF Before
      <4>2. Held(c)[1].market_ts_ns <= n[j].market_ts_ns BY <2>1, <3>3 DEF Before
      <4> QED BY <3>1, <3>2, <3>3, <4>1, <4>2
    <3> QED BY <3>4 DEF Before
  <2>6. Rising(a)
    <3>1. \A i \in DOMAIN a, j \in DOMAIN a : i = j BY <2>1, <2>2
    <3>2. \A i \in DOMAIN a : a[i].market_ts_ns \in Int BY <2>2, StampType
    <3> QED BY <3>1, <3>2 DEF Rising
  <2>7. Rising(h) /\ Before(a, h) /\ Before(q, h) /\ Before(h, n)
    <3>1. CASE h = Held(c)
      <4>1. h[1].market_ts_ns \in Int BY <2>2, <3>1, StampType
      <4> QED BY <2>1, <2>2, <3>1, <4>1 DEF Rising
    <3>2. CASE DOMAIN h = {} BY <3>2 DEF Rising, Before
    <3> QED BY <2>4, <3>1, <3>2
  <2>8. a \o q \in S /\ Rising(a \o q) /\ Before(a \o q, h) /\ Before(a \o q, n)
    <3>1. Before(a, n) /\ Before(q, n) BY <2>1, <2>2, <2>5
    <3> QED BY <2>1, <2>2, <2>4, <2>6, <2>7, <3>1, RisingJoin
  <2>9. (a \o q) \o h \in S /\ Rising((a \o q) \o h) /\ Before((a \o q) \o h, n)
    BY <2>2, <2>4, <2>7, <2>8, RisingJoin
  <2>10. Line(c) \in S /\ Rising(Line(c))
    <3> DEFINE b == (a \o q) \o h
    <3>1. b \in S /\ Rising(b) /\ Before(b, n) BY <2>9
    <3> HIDE DEF b
    <3>2. b \o n \in S /\ Rising(b \o n) BY <2>1, <2>2, <3>1, RisingJoin
    <3> QED BY <2>3, <3>2 DEF b
  <2>11. k \in DOMAIN Line(c) /\ k + 1 \in DOMAIN Line(c) /\ k <= k + 1 BY <2>10
  <2> QED BY <2>10, <2>11 DEF Rising
<1>2. Init => OrderInv BY InitOrdered
<1>3. DepthInv /\ DepthInv' /\ OrderInv /\ [Next]_vars => OrderInv' BY NextOrdered
<1> QED BY <1>1, <1>2, <1>3, DepthInvariant, PTL DEF Spec

-----------------------------------------------------------------------------
(* How often a client handles a message. *)
Stamps(s) == {s[k].market_ts_ns : k \in DOMAIN s}
HeldNow(c) == IF recvpc[c] = "push" THEN Held(c) ELSE <<>>
Weight(c) == Len(shown[c]) + Len(recvQueue[c]) + Len(HeldNow(c)) + Len(Coming(c))
Seen(c) == Stamps(shown[c]) \cup Stamps(recvQueue[c]) \cup Stamps(HeldNow(c)) \cup Stamps(Coming(c))

Explained(c) == Weight(c) - Cardinality(Seen(c)) <= doubled + failures[c]
RepeatInv == \A c \in Client : Explained(c)

LEMMA StampsCount ==
  ASSUME NEW s \in Seq(InternalDepthMessage)
  PROVE  IsFiniteSet(Stamps(s)) /\ Cardinality(Stamps(s)) \in Nat /\ Cardinality(Stamps(s)) <= Len(s)
<1> DEFINE n == Len(s)
           T == Stamps(s)
           f == [k \in 1..n |-> s[k].market_ts_ns]
<1>1. n \in Nat /\ DOMAIN s = 1..n OBVIOUS
<1>2. T = {s[k].market_ts_ns : k \in 1..n} BY <1>1 DEF Stamps
<1> HIDE DEF n, T
<1>3. f \in Surjection(1..n, T) BY <1>2 DEF Surjection
<1>4. IsFiniteSet(1..n) /\ Cardinality(1..n) = n
  <2>1. 1 \in Int /\ n \in Int BY <1>1
  <2>2. IsFiniteSet(1..n) /\ Cardinality(1..n) = IF 1 > n THEN 0 ELSE n - 1 + 1 BY <2>1, FS_Interval
  <2> QED BY <1>1, <2>2
<1> HIDE DEF f
<1>5. IsFiniteSet(T) /\ Cardinality(T) <= n BY <1>3, <1>4, FS_Surjection
<1>6. Cardinality(T) \in Nat BY <1>5, FS_CardinalityType
<1> QED BY <1>5, <1>6 DEF T, n

LEMMA StampsJoin ==
  ASSUME NEW s \in Seq(InternalDepthMessage), NEW t \in Seq(InternalDepthMessage)
  PROVE  /\ s \o t \in Seq(InternalDepthMessage) /\ Len(s \o t) = Len(s) + Len(t)
         /\ Stamps(s \o t) = Stamps(s) \cup Stamps(t)
<1> DEFINE w == s \o t
<1>1. /\ w \in Seq(InternalDepthMessage) /\ Len(s) \in Nat /\ Len(t) \in Nat
      /\ DOMAIN s = 1..Len(s) /\ DOMAIN t = 1..Len(t) /\ DOMAIN w = 1..(Len(s) + Len(t))
      /\ Len(w) = Len(s) + Len(t)
      /\ \A j \in 1..(Len(s) + Len(t)) : w[j] = IF j <= Len(s) THEN s[j] ELSE t[j - Len(s)]
  OBVIOUS
<1> HIDE DEF w
<1>2. \A j \in DOMAIN s : j \in DOMAIN w /\ w[j] = s[j] BY <1>1
<1>3. \A j \in DOMAIN t : j + Len(s) \in DOMAIN w /\ w[j + Len(s)] = t[j]
  <2> SUFFICES ASSUME NEW j \in DOMAIN t PROVE j + Len(s) \in DOMAIN w /\ w[j + Len(s)] = t[j]
    OBVIOUS
  <2>1. j + Len(s) \in 1..(Len(s) + Len(t)) /\ ~(j + Len(s) <= Len(s)) /\ (j + Len(s)) - Len(s) = j
    BY <1>1
  <2> QED BY <1>1, <2>1
<1>4. \A j \in DOMAIN w : \/ j \in DOMAIN s /\ w[j] = s[j]
                          \/ j - Len(s) \in DOMAIN t /\ w[j] = t[j - Len(s)]
  <2> SUFFICES ASSUME NEW j \in DOMAIN w
               PROVE  \/ j \in DOMAIN s /\ w[j] = s[j]
                      \/ j - Len(s) \in DOMAIN t /\ w[j] = t[j - Len(s)]
    OBVIOUS
  <2>1. CASE j <= Len(s) BY <1>1, <2>1
  <2>2. CASE ~(j <= Len(s))
    <3>1. j - Len(s) \in 1..Len(t) BY <1>1, <2>2
    <3> QED BY <1>1, <2>2, <3>1
  <2> QED BY <2>1, <2>2
<1>5. Stamps(w) \subseteq Stamps(s) \cup Stamps(t) BY <1>4 DEF Stamps
<1>6. Stamps(s) \subseteq Stamps(w) BY <1>2 DEF Stamps
<1>7. Stamps(t) \subseteq Stamps(w) BY <1>3 DEF Stamps
<1> QED BY <1>1, <1>5, <1>6, <1>7 DEF w

(* A client's line, counted part by part. *)
LineCounted ==
  \A c \in Client :
    /\ Weight(c) \in Nat /\ IsFiniteSet(Seen(c)) /\ Cardinality(Seen(c)) \in Nat
    /\ Len(Line(c)) = Weight(c) /\ Stamps(Line(c)) = Seen(c)
    /\ HeldNow(c) \in Seq(InternalDepthMessage) /\ Coming(c) \in Seq(InternalDepthMessage)

LEMMA CountLine == DepthInv => LineCounted
<1> SUFFICES ASSUME DepthInv, NEW c \in Client
             PROVE  /\ Weight(c) \in Nat /\ IsFiniteSet(Seen(c)) /\ Cardinality(Seen(c)) \in Nat
                    /\ Len(Line(c)) = Weight(c) /\ Stamps(Line(c)) = Seen(c)
                    /\ HeldNow(c) \in Seq(InternalDepthMessage)
                    /\ Coming(c) \in Seq(InternalDepthMessage)
  BY DEF LineCounted
<1> DEFINE S == Seq(InternalDepthMessage)
           a == shown[c]
           q == recvQueue[c]
           h == HeldNow(c)
           n == Coming(c)
<1>1. a \in S /\ q \in S /\ h \in S /\ n \in S BY StampsAreNumbers DEF HeldNow
<1>2. Line(c) = ((a \o q) \o h) \o n BY DEF Line, HeldNow
<1>3. Weight(c) = Len(a) + Len(q) + Len(h) + Len(n) BY DEF Weight
<1>4. Seen(c) = Stamps(a) \cup Stamps(q) \cup Stamps(h) \cup Stamps(n) BY DEF Seen
<1> HIDE DEF a, q, h, n
<1>5. a \o q \in S /\ Len(a \o q) = Len(a) + Len(q) /\ Stamps(a \o q) = Stamps(a) \cup Stamps(q)
  BY <1>1, StampsJoin
<1> DEFINE u == a \o q
           v == u \o h
<1>6. v \in S /\ Len(v) = Len(u) + Len(h) /\ Stamps(v) = Stamps(u) \cup Stamps(h)
  <2>1. u \in S BY <1>5
  <2> HIDE DEF u
  <2> QED BY <1>1, <2>1, StampsJoin
<1>7. Line(c) \in S /\ Len(Line(c)) = Len(v) + Len(n) /\ Stamps(Line(c)) = Stamps(v) \cup Stamps(n)
  <2>1. Line(c) = v \o n BY <1>2
  <2>2. v \in S /\ n \in S BY <1>1, <1>6
  <2> HIDE DEF v
  <2>3. /\ v \o n \in S /\ Len(v \o n) = Len(v) + Len(n)
        /\ Stamps(v \o n) = Stamps(v) \cup Stamps(n)
    BY ONLY <2>2, StampsJoin DEF S
  <2> QED BY <2>1, <2>3
<1>8. Len(a) \in Nat /\ Len(q) \in Nat /\ Len(h) \in Nat /\ Len(n) \in Nat BY <1>1
<1>9. Weight(c) \in Nat /\ Len(Line(c)) = Weight(c) BY <1>3, <1>5, <1>6, <1>7, <1>8
<1>10. Stamps(Line(c)) = Seen(c) BY <1>4, <1>5, <1>6, <1>7
<1>11. IsFiniteSet(Seen(c)) /\ Cardinality(Seen(c)) \in Nat BY <1>7, <1>10, StampsCount
<1> QED BY <1>1, <1>9, <1>10, <1>11 DEF h, n

LEMMA CountLineNext == DepthInv' => LineCounted'
<1>1. (DepthInv => LineCounted)' BY CountLine, PTL
<1> QED BY <1>1

(* What leaves a line takes at most its own length of stamps with it.       *)
LEMMA FewerSeen ==
  ASSUME LineCounted, LineCounted', NEW c \in Client, Explained(c),
         NEW D, IsFiniteSet(D), NEW left \in Nat, Cardinality(D) <= left,
         Seen(c) \subseteq Seen(c)' \cup D,
         NEW more \in Nat, Weight(c)' + left <= Weight(c) + more,
         doubled \in Nat, failures[c] \in Nat, doubled' \in Nat, failures'[c] \in Nat,
         doubled + failures[c] + more <= doubled' + failures'[c]
  PROVE  Explained(c)'
<1> DEFINE s == Seen(c)
           t == Seen(c)'
<1>1. /\ IsFiniteSet(s) /\ Cardinality(s) \in Nat /\ IsFiniteSet(t) /\ Cardinality(t) \in Nat
      /\ Weight(c) \in Nat /\ Weight(c)' \in Nat
  BY DEF LineCounted
<1>2. s \subseteq t \cup D OBVIOUS
<1>3. Weight(c) - Cardinality(s) <= doubled + failures[c] BY DEF Explained
<1>4. Explained(c)' <=> Weight(c)' - Cardinality(t) <= doubled' + failures'[c] BY DEF Explained
<1> HIDE DEF s, t
<1>5. Cardinality(s) <= Cardinality(t) + Cardinality(D) /\ Cardinality(D) \in Nat
  <2>1. /\ IsFiniteSet(t \cup D)
        /\ Cardinality(t \cup D) = Cardinality(t) + Cardinality(D) - Cardinality(t \cap D)
    BY <1>1, FS_Union
  <2>2. Cardinality(D) \in Nat BY FS_CardinalityType
  <2>3. IsFiniteSet(t \cap D) BY <1>1, FS_Subset
  <2>4. Cardinality(t \cap D) \in Nat BY <2>3, FS_CardinalityType
  <2>5. Cardinality(s) <= Cardinality(t \cup D) BY <1>2, <2>1, FS_Subset
  <2> QED BY <1>1, <2>1, <2>2, <2>4, <2>5
<1>6. Weight(c)' - Cardinality(t) <= doubled' + failures'[c] BY <1>1, <1>3, <1>5
<1> QED BY <1>4, <1>6

(* What a client has heard was sent, or is the blank it starts with. *)
LEMMA HeardBefore ==
  ASSUME DepthInv, NEW c \in Client
  PROVE  Len(sent) + 1 \notin Seen(c)
<1> DEFINE L == Len(sent)
<1>1. L \in Nat /\ DOMAIN sent = 1..L /\ \A k \in 1..L : sent[k].ts_ns = k
  BY DEF DepthInv, DepthTypeOK, Numbered
<1>2. \A m : Known(m, sent) => m.market_ts_ns \in 0..L
  <2> SUFFICES ASSUME NEW m, Known(m, sent) PROVE m.market_ts_ns \in 0..L OBVIOUS
  <2>1. CASE m = Deserialize(Zeroes) BY <1>1, <2>1, BlankTime
  <2>2. ASSUME NEW k \in DOMAIN sent, m = AsSeen(sent[k]) PROVE m.market_ts_ns \in 0..L
    BY <1>1, <2>2 DEF AsSeen
  <2> QED BY <2>1, <2>2 DEF Known
<1>3. \A k \in DOMAIN shown[c] : shown[c][k].market_ts_ns \in 0..L
  BY <1>2 DEF DepthInv, NothingInvented
<1>4. \A k \in DOMAIN recvQueue[c] : recvQueue[c][k].market_ts_ns \in 0..L
  BY <1>2 DEF DepthInv, NothingInvented
<1>5. \A k \in DOMAIN HeldNow(c) : HeldNow(c)[k].market_ts_ns \in 0..L
  BY StampsAreNumbers DEF HeldNow
<1>6. \A k \in DOMAIN Coming(c) : Coming(c)[k].market_ts_ns \in 0..L BY StampsAreNumbers
<1>7. Seen(c) \subseteq 0..L BY <1>3, <1>4, <1>5, <1>6 DEF Seen, Stamps
<1>8. L + 1 \notin 0..L BY <1>1
<1> QED BY <1>7, <1>8

LEMMA FaultTypes ==
  ASSUME DepthInv, DepthInv', NEW c \in Client
  PROVE  doubled \in Nat /\ failures[c] \in Nat /\ doubled' \in Nat /\ failures'[c] \in Nat
BY NetworkAssumption, ConsumerAssumption DEF DepthInv, DepthTypeOK

(* A line that is not touched. *)
LEMMA SameExplained ==
  ASSUME NEW c \in Client, Explained(c),
         UNCHANGED <<shown[c], recvQueue[c], recvpc[c], buffer[c], net[c], doubled, failures[c]>>
  PROVE  Explained(c)'
<1>1. Held(c)' = Held(c) /\ Coming(c)' = Coming(c) BY DEF Held, Coming
<1>2. HeldNow(c)' = HeldNow(c) BY <1>1 DEF HeldNow
<1>3. Weight(c)' = Weight(c) /\ Seen(c)' = Seen(c) BY <1>1, <1>2 DEF Weight, Seen
<1> QED BY <1>3 DEF Explained

(* A message sent is one no client has heard of, so only a second copy is a *)
(* repeat.                                                                  *)
LEMMA SendMsgExplained ==
  ASSUME DepthInv, DepthInv', RepeatInv, SendMsg, UNCHANGED consumerVars, NEW c \in Client
  PROVE  Explained(c)'
<1> DEFINE m == Head(sendQueue)
           p == Serialize(m)
           ts == Len(sent) + 1
<1>1. /\ genpc = "send" /\ SendToAll(p)
      /\ UNCHANGED <<recvpc, buffer, recvQueue, shown, failures>>
  BY DEF SendMsg, consumerVars
<1>2. /\ sendQueue \in Seq(MarketDepthMessage) /\ Len(sendQueue) = 1
      /\ sendQueue[1].ts_ns = ts /\ Len(sent) \in Nat
  BY <1>1 DEF DepthInv, DepthTypeOK, Numbered
<1>3. m \in MarketDepthMessage /\ m.ts_ns = ts
  <2>1. sendQueue # <<>> BY DEF SendMsg
  <2>2. m = sendQueue[1] /\ 1 \in 1..Len(sendQueue) BY <1>2, <2>1
  <2> QED BY <1>2, <2>2, ElementOfSeq
<1> HIDE DEF m
<1>4. p \in Packet /\ Deserialize(p).market_ts_ns = ts BY <1>3, WireRoundTrip DEF AsSeen
<1> HIDE DEF p
<1>5. PICK copies \in [Client -> 0..2] :
        /\ net' = [d \in Client |-> net[d] \o Copies(p, copies[d])]
        /\ doubled' = doubled + Cardinality({d \in Client : copies[d] = 2})
  BY <1>1 DEF SendToAll, Copies
<1> DEFINE n == copies[c]
           twice == {d \in Client : copies[d] = 2}
           r == net[c]
           s == Coming(c)
           t == Coming(c)'
<1>6. n \in 0..2 /\ n \in Nat /\ r \in Seq(Packet)
  <2>1. n \in 0..2 BY <1>5
  <2>2. r \in Seq(Packet) BY DEF DepthInv, DepthTypeOK
  <2> HIDE DEF n, r
  <2> QED BY <2>1, <2>2
<1>7. Cardinality(twice) \in Nat /\ (n = 2 => Cardinality(twice) >= 1)
  <2>1. IsFiniteSet(twice) BY NetworkAssumption, FS_Subset
  <2>2. n = 2 => {c} \in SUBSET twice OBVIOUS
  <2>3. Cardinality({c}) = 1 BY FS_Singleton
  <2> HIDE DEF twice, n
  <2>4. n = 2 => Cardinality({c}) <= Cardinality(twice) BY <2>1, <2>2, FS_Subset
  <2> QED BY <2>1, <2>3, <2>4, FS_CardinalityType
<1>8. /\ net'[c] \in Seq(Packet) /\ Len(net'[c]) = Len(r) + n
      /\ \A j \in 1..(Len(r) + n) : net'[c][j] = IF j <= Len(r) THEN r[j] ELSE p
  <2> DEFINE w == r \o Copies(p, n)
  <2>1. net'[c] = w BY <1>5
  <2> HIDE DEF r, n
  <2>2. r \in Seq(Packet) /\ n \in Nat /\ p \in Packet BY <1>4, <1>6
  <2>3. w \in Seq(Packet) BY ONLY <2>2, WithCopies, Zenon
  <2>4. Len(w) = Len(r) + n BY ONLY <2>2, WithCopies, Zenon
  <2>5. \A j \in DOMAIN w : w[j] = IF j <= Len(r) THEN r[j] ELSE p
    BY ONLY <2>2, WithCopies, Zenon
  <2> HIDE DEF w
  <2>6. DOMAIN w = 1..(Len(r) + n) BY <2>3, <2>4
  <2> QED BY <2>1, <2>3, <2>5, <2>6, <2>4
<1>9. /\ Len(r) \in Nat /\ DOMAIN r = 1..Len(r) /\ Len(s) = Len(r) /\ DOMAIN s = 1..Len(r)
      /\ \A j \in 1..Len(r) : s[j] = Deserialize(r[j])
  BY <1>6 DEF Coming
<1>10. /\ Len(t) = Len(r) + n /\ DOMAIN t = 1..(Len(r) + n)
       /\ \A j \in 1..(Len(r) + n) : t[j] = IF j <= Len(r) THEN s[j] ELSE Deserialize(p)
  <2>1. DOMAIN net'[c] = 1..(Len(r) + n) BY <1>8
  <2>2. DOMAIN t = 1..(Len(r) + n) /\ \A j \in 1..(Len(r) + n) : t[j] = Deserialize(net'[c][j])
    BY <2>1 DEF Coming
  <2>3. Len(t) = Len(r) + n
    <3>1. t \in Seq(InternalDepthMessage) BY CountLineNext DEF LineCounted
    <3> HIDE DEF t, n, r
    <3>2. Len(r) + n \in Nat BY <1>6, <1>9
    <3> QED BY <2>2, <3>1, <3>2
  <2>4. ASSUME NEW j \in 1..(Len(r) + n) PROVE t[j] = IF j <= Len(r) THEN s[j] ELSE Deserialize(p)
    <3>1. CASE j <= Len(r)
      <4>1. j \in 1..Len(r) BY <1>9, <3>1
      <4>2. t[j] = Deserialize(net'[c][j]) /\ net'[c][j] = r[j] BY <1>8, <2>2, <3>1
      <4> QED BY <1>9, <3>1, <4>1, <4>2
    <3>2. CASE ~(j <= Len(r))
      <4>1. t[j] = Deserialize(net'[c][j]) /\ net'[c][j] = p BY <1>8, <2>2, <3>2
      <4> QED BY <3>2, <4>1
    <3> QED BY <3>1, <3>2
  <2> QED BY <2>2, <2>3, <2>4
<1>11. Weight(c) \in Nat /\ Weight(c)' = Weight(c) + n
  <2>1. HeldNow(c)' = HeldNow(c) /\ shown'[c] = shown[c] /\ recvQueue'[c] = recvQueue[c]
    BY <1>1 DEF HeldNow, Held
  <2>2. /\ Len(shown[c]) \in Nat /\ Len(recvQueue[c]) \in Nat /\ Len(HeldNow(c)) \in Nat
        /\ Weight(c) \in Nat
    <3>1. /\ shown[c] \in Seq(InternalDepthMessage) /\ recvQueue[c] \in Seq(InternalDepthMessage)
          /\ HeldNow(c) \in Seq(InternalDepthMessage) /\ Weight(c) \in Nat
      BY CountLine, StampsAreNumbers DEF LineCounted
    <3> QED BY <3>1
  <2>3. Weight(c) = Len(shown[c]) + Len(recvQueue[c]) + Len(HeldNow(c)) + Len(s) BY DEF Weight
  <2>4. Weight(c)' = Len(shown[c]) + Len(recvQueue[c]) + Len(HeldNow(c)) + Len(t)
    BY <2>1 DEF Weight
  <2> DEFINE A == Len(shown[c])
             B == Len(recvQueue[c])
             C == Len(HeldNow(c))
             W == Weight(c)
             W2 == Weight(c)'
             S == Len(s)
             T == Len(t)
  <2>5. /\ A \in Nat /\ B \in Nat /\ C \in Nat /\ S \in Nat /\ n \in Nat
        /\ W = A + B + C + S /\ W2 = A + B + C + T /\ T = S + n
    BY <1>6, <1>9, <1>10, <2>2, <2>3, <2>4
  <2> HIDE DEF n, A, B, C, W, W2, S, T
  <2>6. W \in Nat /\ W2 = W + n BY <2>5
  <2> QED BY <2>6 DEF W, W2
<1>12. Stamps(t) = Stamps(s) \cup (IF n > 0 THEN {ts} ELSE {})
  <2> HIDE DEF n, r, s, t
  <2>1. \A j \in DOMAIN s : j \in DOMAIN t /\ t[j] = s[j] BY <1>6, <1>9, <1>10
  <2>2. \A j \in DOMAIN t : (j \in DOMAIN s /\ t[j] = s[j]) \/ (n > 0 /\ t[j] = Deserialize(p))
    BY <1>6, <1>9, <1>10
  <2>3. n > 0 => Len(r) + 1 \in DOMAIN t /\ t[Len(r) + 1] = Deserialize(p)
    <3> SUFFICES ASSUME n > 0 PROVE Len(r) + 1 \in DOMAIN t /\ t[Len(r) + 1] = Deserialize(p)
      OBVIOUS
    <3>1. Len(r) + 1 \in 1..(Len(r) + n) /\ ~(Len(r) + 1 <= Len(r)) BY <1>6, <1>9
    <3> QED BY <1>10, <3>1
  <2>4. Stamps(s) \subseteq Stamps(t) BY <2>1 DEF Stamps
  <2>5. n > 0 => ts \in Stamps(t) BY <1>4, <2>3 DEF Stamps
  <2>6. Stamps(t) \subseteq Stamps(s) \cup (IF n > 0 THEN {ts} ELSE {}) BY <1>4, <2>2 DEF Stamps
  <2> QED BY <2>4, <2>5, <2>6
<1>13. Seen(c)' = Seen(c) \cup (IF n > 0 THEN {ts} ELSE {})
  <2>1. HeldNow(c)' = HeldNow(c) /\ shown'[c] = shown[c] /\ recvQueue'[c] = recvQueue[c]
    BY <1>1 DEF HeldNow, Held
  <2>2. Seen(c) = Stamps(shown[c]) \cup Stamps(recvQueue[c]) \cup Stamps(HeldNow(c)) \cup Stamps(s)
    BY DEF Seen
  <2>3. Seen(c)' = Stamps(shown[c]) \cup Stamps(recvQueue[c]) \cup Stamps(HeldNow(c)) \cup Stamps(t)
    BY <2>1 DEF Seen, Stamps
  <2> HIDE DEF s, t, n
  <2> QED BY <1>12, <2>2, <2>3
<1>14. ts \notin Seen(c) BY HeardBefore
<1>15. IsFiniteSet(Seen(c)) /\ Cardinality(Seen(c)) \in Nat BY CountLine DEF LineCounted
<1>16. Cardinality(Seen(c)') = Cardinality(Seen(c)) + (IF n > 0 THEN 1 ELSE 0)
  <2>1. CASE n > 0
    <3>1. Seen(c)' = Seen(c) \cup {ts} BY <1>13, <2>1
    <3>2. Cardinality(Seen(c) \cup {ts}) = Cardinality(Seen(c)) + 1 BY <1>14, <1>15, FS_AddElement
    <3> QED BY <2>1, <3>1, <3>2
  <2>2. CASE ~(n > 0) BY <1>13, <1>15, <2>2
  <2> QED BY <2>1, <2>2
<1>17. /\ doubled \in Nat /\ failures[c] \in Nat
       /\ doubled' = doubled + Cardinality(twice) /\ failures'[c] = failures[c]
  BY <1>1, <1>5, FaultTypes
<1>18. Weight(c) - Cardinality(Seen(c)) <= doubled + failures[c] BY DEF RepeatInv, Explained
<1>19. Weight(c)' - Cardinality(Seen(c)') <= doubled' + failures'[c]
  <2> DEFINE W == Weight(c)
             K == Cardinality(Seen(c))
             T == Cardinality(twice)
             F == failures[c]
             W2 == Weight(c)'
             K2 == Cardinality(Seen(c)')
             D2 == doubled'
             F2 == failures'[c]
  <2>1. /\ W \in Nat /\ K \in Nat /\ T \in Nat /\ F \in Nat /\ doubled \in Nat /\ n \in 0..2
        /\ W2 = W + n /\ K2 = K + (IF n > 0 THEN 1 ELSE 0) /\ D2 = doubled + T /\ F2 = F
        /\ W - K <= doubled + F /\ (n = 2 => T >= 1)
    BY <1>6, <1>7, <1>11, <1>15, <1>16, <1>17, <1>18
  <2> HIDE DEF W, K, T, F, W2, K2, D2, F2, n
  <2>2. W2 - K2 <= D2 + F2
    <3>1. n = 0 \/ n = 1 \/ n = 2 BY <2>1
    <3> QED BY <2>1, <3>1
  <2> QED BY <2>2 DEF W2, K2, D2, F2
<1> QED BY <1>19 DEF Explained

(* The client that takes a step, and the others.                            *)
LEMMA OtherExplained ==
  ASSUME DepthInv, RepeatInv, NEW c \in Client, NEW d \in Client, d # c,
         ReadMsg(c) \/ ReadFails(c) \/ Push(c) \/ PushFull(c) \/ TryPop(c)
  PROVE  Explained(d)'
<1>1. /\ net \in [Client -> Seq(Packet)] /\ buffer \in [Client -> Packet]
      /\ recvpc \in [Client -> {"recv", "push"}] /\ failures \in [Client -> 0..MaxFailures]
      /\ recvQueue \in [Client -> Seq(InternalDepthMessage)]
      /\ shown \in [Client -> Seq(InternalDepthMessage)]
  BY DEF DepthInv, DepthTypeOK
<1>2. UNCHANGED <<shown[d], recvQueue[d], recvpc[d], buffer[d], net[d], doubled, failures[d]>>
  BY <1>1 DEF ReadMsg, RecvAt, ReadFails, Push, PushFull, TryPop, netVars
<1> QED BY <1>2, SameExplained DEF RepeatInv

LEMMA NoneLost == IsFiniteSet({}) /\ Cardinality({}) = 0
BY FS_EmptySet

(* The sequences of a client's line before and after a step. *)
LEMMA LineTypes ==
  ASSUME DepthInv, DepthInv', NEW c \in Client
  PROVE  /\ LineCounted /\ LineCounted'
         /\ Len(shown[c]) \in Nat /\ Len(recvQueue[c]) \in Nat
         /\ Len(HeldNow(c)) \in Nat /\ Len(Coming(c)) \in Nat
<1>1. LineCounted /\ LineCounted' BY CountLine, CountLineNext
<1>2. HeldNow(c) \in Seq(InternalDepthMessage) /\ Coming(c) \in Seq(InternalDepthMessage)
  BY <1>1 DEF LineCounted
<1>3. shown[c] \in Seq(InternalDepthMessage) /\ recvQueue[c] \in Seq(InternalDepthMessage)
  BY DEF DepthInv, DepthTypeOK
<1> QED BY <1>1, <1>2, <1>3

(* recv moves a message from the network to the buffer. *)
LEMMA ReadMsgExplained ==
  ASSUME DepthInv, DepthInv', RepeatInv, NEW c \in Client, ReadMsg(c)
  PROVE  Explained(c)'
<1>1. PICK k \in DOMAIN net[c] :
        /\ buffer' = [buffer EXCEPT ![c] = net[c][k]]
        /\ net' = [net EXCEPT ![c] = RemoveAt(net[c], k)]
  BY DEF ReadMsg, RecvAt
<1>2. /\ recvpc[c] = "recv" /\ recvpc' = [recvpc EXCEPT ![c] = "push"]
      /\ UNCHANGED <<recvQueue, shown, failures, doubled>>
  BY DEF ReadMsg, RecvAt
<1>3. /\ net[c] \in Seq(Packet) /\ net'[c] = RemoveAt(net[c], k) /\ buffer'[c] = net[c][k]
      /\ recvpc'[c] = "push" /\ failures'[c] = failures[c]
  BY <1>1, <1>2 DEF DepthInv, DepthTypeOK
<1> DEFINE r == net[c]
           s == Coming(c)
           t == Coming(c)'
           h == HeldNow(c)'
<1>4. /\ RemoveAt(r, k) \in Seq(Packet) /\ Len(RemoveAt(r, k)) = Len(r) - 1
      /\ \A j \in 1..(Len(r) - 1) : RemoveAt(r, k)[j] = IF j < k THEN r[j] ELSE r[j + 1]
  <2>1. r \in Seq(Packet) /\ k \in 1..Len(r) BY <1>3
  <2> HIDE DEF r
  <2> QED BY ONLY <2>1, RemoveAtProperties
<1>5. /\ Len(r) \in Nat /\ k \in 1..Len(r) /\ DOMAIN s = 1..Len(r) /\ Len(s) = Len(r)
      /\ \A j \in 1..Len(r) : s[j] = Deserialize(r[j])
  BY <1>3 DEF Coming
<1>6. /\ DOMAIN t = 1..(Len(r) - 1) /\ Len(t) = Len(r) - 1
      /\ \A j \in 1..(Len(r) - 1) : t[j] = Deserialize(RemoveAt(r, k)[j])
  <2>1. DOMAIN t = 1..(Len(r) - 1) /\ \A j \in 1..(Len(r) - 1) : t[j] = Deserialize(net'[c][j])
    BY <1>3, <1>4 DEF Coming
  <2>2. t \in Seq(InternalDepthMessage) BY CountLineNext DEF LineCounted
  <2>3. Len(r) - 1 \in Nat BY <1>5
  <2>4. \A j \in 1..(Len(r) - 1) : t[j] = Deserialize(RemoveAt(r, k)[j]) BY <1>3, <2>1
  <2> HIDE DEF t, r
  <2> QED BY <2>1, <2>2, <2>3, <2>4
<1>7. h = <<Deserialize(r[k])>> /\ HeldNow(c) = <<>> BY <1>2, <1>3 DEF HeldNow, Held
<1>8. DOMAIN h = {1} /\ Len(h) = 1 /\ h[1] = s[k] BY <1>5, <1>7
<1>9. shown'[c] = shown[c] /\ recvQueue'[c] = recvQueue[c] BY <1>2
<1>10. Stamps(s) \subseteq Stamps(t) \cup Stamps(h)
  <2> SUFFICES ASSUME NEW j \in 1..Len(r)
               PROVE  s[j].market_ts_ns \in Stamps(t) \cup Stamps(h)
    BY <1>5 DEF Stamps
  <2> HIDE DEF r, s, t, h
  <2>1. CASE j = k
    <3>1. 1 \in DOMAIN h /\ h[1] = s[j] BY <1>8, <2>1
    <3> QED BY <3>1 DEF Stamps
  <2>2. CASE j < k
    <3>1. j \in 1..(Len(r) - 1) BY <1>5, <2>2
    <3>2. j \in DOMAIN t /\ t[j] = s[j] BY <1>4, <1>5, <1>6, <2>2, <3>1
    <3> QED BY <3>2 DEF Stamps
  <2>3. CASE j > k
    <3>1. j - 1 \in 1..(Len(r) - 1) /\ ~(j - 1 < k) /\ (j - 1) + 1 = j BY <1>5, <2>3
    <3>2. j - 1 \in DOMAIN t /\ t[j - 1] = s[j] BY <1>4, <1>5, <1>6, <3>1
    <3> QED BY <3>2 DEF Stamps
  <2> QED BY <1>5, <2>1, <2>2, <2>3
<1> DEFINE D == {}
<1>11. Seen(c) \subseteq Seen(c)' \cup D
  <2>1. Seen(c) = Stamps(shown[c]) \cup Stamps(recvQueue[c]) \cup Stamps(<<>>) \cup Stamps(s)
    BY <1>7 DEF Seen
  <2>2. Seen(c)' = Stamps(shown[c]) \cup Stamps(recvQueue[c]) \cup Stamps(h) \cup Stamps(t)
    BY <1>9 DEF Seen, Stamps
  <2>3. Stamps(<<>>) = {} BY DEF Stamps
  <2> HIDE DEF s, t, h
  <2> QED BY <1>10, <2>1, <2>2, <2>3
<1>12. Weight(c)' + 0 <= Weight(c) + 0
  <2>1. Weight(c) = Len(shown[c]) + Len(recvQueue[c]) + 0 + Len(s) BY <1>7 DEF Weight
  <2>2. Weight(c)' = Len(shown[c]) + Len(recvQueue[c]) + Len(h) + Len(t) BY <1>9 DEF Weight
  <2> DEFINE A == Len(shown[c])
             B == Len(recvQueue[c])
             W == Weight(c)
             W2 == Weight(c)'
             M == Len(r)
  <2>3. A \in Nat /\ B \in Nat /\ M \in Nat BY <1>5, LineTypes
  <2>4. W = A + B + 0 + M /\ W2 = A + B + 1 + (M - 1) BY <1>5, <1>6, <1>8, <2>1, <2>2
  <2> HIDE DEF A, B, W, W2, M
  <2>5. W2 + 0 <= W + 0 BY <2>3, <2>4
  <2> QED BY <2>5 DEF W, W2
<1>13. /\ IsFiniteSet(D) /\ Cardinality(D) <= 0 /\ 0 \in Nat BY NoneLost
<1>14. /\ doubled \in Nat /\ failures[c] \in Nat /\ doubled' \in Nat /\ failures'[c] \in Nat
       /\ doubled + failures[c] + 0 <= doubled' + failures'[c]
  BY <1>2, <1>3, FaultTypes
<1>15. Explained(c) BY DEF RepeatInv
<1> HIDE DEF D
<1> QED BY <1>11, <1>12, <1>13, <1>14, <1>15, LineTypes, FewerSeen

(* A failed recv hands on the buffer once more, and is counted. *)
LEMMA ReadFailsExplained ==
  ASSUME DepthInv, DepthInv', RepeatInv, NEW c \in Client, ReadFails(c)
  PROVE  Explained(c)'
<1>1. /\ recvpc[c] = "recv" /\ recvpc'[c] = "push" /\ failures'[c] = failures[c] + 1
      /\ UNCHANGED <<net, doubled, buffer, recvQueue, shown>>
  BY DEF ReadFails, netVars, DepthInv, DepthTypeOK
<1> DEFINE h == HeldNow(c)'
           D == {}
<1>2. h = <<Deserialize(buffer[c])>> /\ HeldNow(c) = <<>> BY <1>1 DEF HeldNow, Held
<1>3. Len(h) = 1 /\ Len(HeldNow(c)) = 0 BY <1>2
<1>4. Coming(c)' = Coming(c) BY <1>1 DEF Coming
<1>5. Seen(c) \subseteq Seen(c)' \cup D
  <2>1. Seen(c) = Stamps(shown[c]) \cup Stamps(recvQueue[c]) \cup Stamps(<<>>) \cup Stamps(Coming(c))
    BY <1>2 DEF Seen
  <2>2. Seen(c)' = Stamps(shown[c]) \cup Stamps(recvQueue[c]) \cup Stamps(h) \cup Stamps(Coming(c))
    BY <1>1, <1>4 DEF Seen, Stamps
  <2>3. Stamps(<<>>) = {} BY DEF Stamps
  <2> HIDE DEF h
  <2> QED BY <2>1, <2>2, <2>3
<1>6. Weight(c)' + 0 <= Weight(c) + 1
  <2> DEFINE A == Len(shown[c])
             B == Len(recvQueue[c])
             C == Len(Coming(c))
             W == Weight(c)
             W2 == Weight(c)'
  <2>1. A \in Nat /\ B \in Nat /\ C \in Nat BY LineTypes
  <2>2. W = A + B + 0 + C BY <1>3 DEF Weight
  <2>3. W2 = A + B + 1 + C BY <1>1, <1>3, <1>4 DEF Weight
  <2> HIDE DEF A, B, C, W, W2
  <2>4. W2 + 0 <= W + 1 BY <2>1, <2>2, <2>3
  <2> QED BY <2>4 DEF W, W2
<1>7. IsFiniteSet(D) /\ Cardinality(D) <= 0 /\ 0 \in Nat /\ 1 \in Nat BY NoneLost
<1>8. /\ doubled \in Nat /\ failures[c] \in Nat /\ doubled' \in Nat /\ failures'[c] \in Nat
      /\ doubled + failures[c] + 1 <= doubled' + failures'[c]
  BY <1>1, FaultTypes
<1>9. Explained(c) BY DEF RepeatInv
<1> HIDE DEF D
<1> QED BY <1>5, <1>6, <1>7, <1>8, <1>9, LineTypes, FewerSeen

LEMMA PushExplained ==
  ASSUME DepthInv, DepthInv', RepeatInv, NEW c \in Client, Push(c)
  PROVE  Explained(c)'
<1>1. /\ recvpc[c] = "push" /\ recvpc'[c] = "recv" /\ failures'[c] = failures[c]
      /\ recvQueue'[c] = Append(recvQueue[c], Deserialize(buffer[c]))
      /\ UNCHANGED <<net, doubled, buffer, shown>>
  BY DEF Push, netVars, DepthInv, DepthTypeOK
<1> DEFINE q == recvQueue[c]
           m == Deserialize(buffer[c])
           w == Append(q, m)
           D == {}
<1>2. HeldNow(c) = <<m>> /\ HeldNow(c)' = <<>> BY <1>1 DEF HeldNow, Held
<1>3. Len(HeldNow(c)) = 1 /\ Len(HeldNow(c)') = 0 /\ Stamps(<<m>>) = {m.market_ts_ns}
  BY <1>2 DEF Stamps
<1>4. Coming(c)' = Coming(c) BY <1>1 DEF Coming
<1>5. q \in Seq(InternalDepthMessage) /\ m \in InternalDepthMessage
  BY BufferKnown DEF DepthInv, DepthTypeOK
<1>6. Len(w) = Len(q) + 1 /\ Stamps(w) = Stamps(q) \cup {m.market_ts_ns}
  <2> HIDE DEF q, m
  <2>1. <<m>> \in Seq(InternalDepthMessage) /\ Len(<<m>>) = 1 /\ w = q \o <<m>> BY <1>5
  <2> HIDE DEF w
  <2>2. Len(q \o <<m>>) = Len(q) + 1 /\ Stamps(q \o <<m>>) = Stamps(q) \cup Stamps(<<m>>)
    BY <1>5, <2>1, StampsJoin
  <2> QED BY <1>3, <2>1, <2>2
<1>7. Seen(c) \subseteq Seen(c)' \cup D
  <2>1. Seen(c) = Stamps(shown[c]) \cup Stamps(q) \cup {m.market_ts_ns} \cup Stamps(Coming(c))
    BY <1>2, <1>3 DEF Seen
  <2>2. Seen(c)' = Stamps(shown[c]) \cup Stamps(w) \cup Stamps(<<>>) \cup Stamps(Coming(c))
    BY <1>1, <1>2, <1>4 DEF Seen, Stamps
  <2> HIDE DEF q, m, w
  <2> QED BY <1>6, <2>1, <2>2
<1>8. Weight(c)' + 0 <= Weight(c) + 0
  <2> DEFINE A == Len(shown[c])
             B == Len(recvQueue[c])
             C == Len(Coming(c))
             W == Weight(c)
             W2 == Weight(c)'
  <2>1. A \in Nat /\ B \in Nat /\ C \in Nat BY LineTypes
  <2>2. W = A + B + 1 + C BY <1>3 DEF Weight
  <2>3. W2 = A + (B + 1) + 0 + C BY <1>1, <1>3, <1>4, <1>6 DEF Weight
  <2> HIDE DEF A, B, C, W, W2
  <2>4. W2 + 0 <= W + 0 BY <2>1, <2>2, <2>3
  <2> QED BY <2>4 DEF W, W2
<1>9. IsFiniteSet(D) /\ Cardinality(D) <= 0 /\ 0 \in Nat BY NoneLost
<1>10. /\ doubled \in Nat /\ failures[c] \in Nat /\ doubled' \in Nat /\ failures'[c] \in Nat
       /\ doubled + failures[c] + 0 <= doubled' + failures'[c]
  BY <1>1, FaultTypes
<1>11. Explained(c) BY DEF RepeatInv
<1> HIDE DEF D
<1> QED BY <1>7, <1>8, <1>9, <1>10, <1>11, LineTypes, FewerSeen

(* What the full queue loses was one message with one stamp. *)
LEMMA PushFullExplained ==
  ASSUME DepthInv, DepthInv', RepeatInv, NEW c \in Client, PushFull(c)
  PROVE  Explained(c)'
<1>1. /\ recvpc[c] = "push" /\ recvpc'[c] = "recv" /\ failures'[c] = failures[c]
      /\ UNCHANGED <<net, doubled, buffer, shown, recvQueue>>
  BY DEF PushFull, netVars, DepthInv, DepthTypeOK
<1> DEFINE m == Deserialize(buffer[c])
           D == {m.market_ts_ns}
<1>2. HeldNow(c) = <<m>> /\ HeldNow(c)' = <<>> BY <1>1 DEF HeldNow, Held
<1>3. Len(HeldNow(c)) = 1 /\ Len(HeldNow(c)') = 0 /\ Stamps(<<m>>) = D BY <1>2 DEF Stamps
<1>4. Coming(c)' = Coming(c) BY <1>1 DEF Coming
<1>5. Seen(c) \subseteq Seen(c)' \cup D
  <2>1. Seen(c) = Stamps(shown[c]) \cup Stamps(recvQueue[c]) \cup D \cup Stamps(Coming(c))
    BY <1>2, <1>3 DEF Seen
  <2>2. Seen(c)' = Stamps(shown[c]) \cup Stamps(recvQueue[c]) \cup Stamps(<<>>) \cup Stamps(Coming(c))
    BY <1>1, <1>2, <1>4 DEF Seen, Stamps
  <2> HIDE DEF D
  <2> QED BY <2>1, <2>2
<1>6. Weight(c)' + 1 <= Weight(c) + 0
  <2> DEFINE A == Len(shown[c])
             B == Len(recvQueue[c])
             C == Len(Coming(c))
             W == Weight(c)
             W2 == Weight(c)'
  <2>1. A \in Nat /\ B \in Nat /\ C \in Nat BY LineTypes
  <2>2. W = A + B + 1 + C BY <1>3 DEF Weight
  <2>3. W2 = A + B + 0 + C BY <1>1, <1>3, <1>4 DEF Weight
  <2> HIDE DEF A, B, C, W, W2
  <2>4. W2 + 1 <= W + 0 BY <2>1, <2>2, <2>3
  <2> QED BY <2>4 DEF W, W2
<1>7. IsFiniteSet(D) /\ Cardinality(D) <= 1 /\ 0 \in Nat /\ 1 \in Nat
  <2> HIDE DEF m
  <2>1. IsFiniteSet(D) /\ Cardinality(D) = 1 BY FS_Singleton
  <2> QED BY <2>1
<1>8. /\ doubled \in Nat /\ failures[c] \in Nat /\ doubled' \in Nat /\ failures'[c] \in Nat
      /\ doubled + failures[c] + 0 <= doubled' + failures'[c]
  BY <1>1, FaultTypes
<1>9. Explained(c) BY DEF RepeatInv
<1> HIDE DEF D
<1> QED BY <1>5, <1>6, <1>7, <1>8, <1>9, LineTypes, FewerSeen

(* main forgets the message it showed before. *)
LEMMA TryPopExplained ==
  ASSUME DepthInv, DepthInv', RepeatInv, NEW c \in Client, TryPop(c)
  PROVE  Explained(c)'
<1> DEFINE a == shown[c]
           q == recvQueue[c]
           D == Stamps(a)
           L == Len(a)
<1>1. /\ q # <<>> /\ shown'[c] = <<Head(q)>> /\ recvQueue'[c] = Tail(q)
      /\ failures'[c] = failures[c]
      /\ UNCHANGED <<net, doubled, buffer, recvpc>>
  BY DEF TryPop, netVars, DepthInv, DepthTypeOK
<1>2. a \in Seq(InternalDepthMessage) /\ q \in Seq(InternalDepthMessage)
  BY DEF DepthInv, DepthTypeOK
<1>3. HeldNow(c)' = HeldNow(c) /\ Coming(c)' = Coming(c) BY <1>1 DEF HeldNow, Held, Coming
<1>4. Len(<<Head(q)>>) = 1 /\ Len(q) = 1 + Len(Tail(q)) /\ Stamps(q) = Stamps(<<Head(q)>>) \cup Stamps(Tail(q))
  <2> HIDE DEF q
  <2> DEFINE h == <<Head(q)>>
             t == Tail(q)
  <2>1. h \in Seq(InternalDepthMessage) /\ t \in Seq(InternalDepthMessage) /\ Len(h) = 1 /\ q = h \o t
    BY <1>1, <1>2
  <2> HIDE DEF h, t
  <2>2. Len(h \o t) = Len(h) + Len(t) /\ Stamps(h \o t) = Stamps(h) \cup Stamps(t)
    BY <2>1, StampsJoin
  <2>3. Len(h) = 1 /\ Len(q) = 1 + Len(t) /\ Stamps(q) = Stamps(h) \cup Stamps(t) BY <2>1, <2>2
  <2> QED BY <2>3 DEF h, t
<1>5. Seen(c) \subseteq Seen(c)' \cup D
  <2> DEFINE R == Stamps(HeldNow(c)) \cup Stamps(Coming(c))
  <2>1. Seen(c) = D \cup Stamps(q) \cup R BY DEF Seen
  <2>2. Seen(c)' = Stamps(<<Head(q)>>) \cup Stamps(Tail(q)) \cup R
    BY <1>1, <1>3 DEF Seen, Stamps
  <2> HIDE DEF D, R, q
  <2> QED BY <1>4, <2>1, <2>2
<1>6. Weight(c)' + L <= Weight(c) + 0 /\ L \in Nat
  <2> DEFINE A == Len(HeldNow(c))
             B == Len(recvQueue[c])
             C == Len(Coming(c))
             T == Len(Tail(q))
             W == Weight(c)
             W2 == Weight(c)'
  <2>1. L \in Nat /\ A \in Nat /\ B \in Nat /\ C \in Nat BY LineTypes
  <2>2. W = L + B + A + C /\ B = 1 + T BY <1>4 DEF Weight
  <2>3. W2 = 1 + T + A + C BY <1>1, <1>3, <1>4 DEF Weight
  <2>4. T \in Nat BY <1>1, <1>2
  <2> HIDE DEF A, B, C, T, W, W2, L
  <2>5. W2 + L <= W + 0 BY <2>1, <2>2, <2>3, <2>4
  <2> QED BY <2>1, <2>5 DEF W, W2
<1>7. IsFiniteSet(D) /\ Cardinality(D) <= L BY <1>2, StampsCount
<1>8. /\ doubled \in Nat /\ failures[c] \in Nat /\ doubled' \in Nat /\ failures'[c] \in Nat
      /\ doubled + failures[c] + 0 <= doubled' + failures'[c]
  BY <1>1, FaultTypes
<1>9. Explained(c) /\ 0 \in Nat BY DEF RepeatInv
<1> HIDE DEF D, L
<1> QED BY <1>5, <1>6, <1>7, <1>8, <1>9, LineTypes, FewerSeen

LEMMA InitExplained == Init => RepeatInv
<1> SUFFICES ASSUME Init, NEW c \in Client PROVE Explained(c) BY DEF RepeatInv
<1>1. /\ net[c] = <<>> /\ recvQueue[c] = <<>> /\ shown[c] = <<>> /\ recvpc[c] = "recv"
      /\ doubled = 0 /\ failures[c] = 0
  BY DEF Init, NetInit, ConsumerInit
<1>2. Coming(c) = <<>> /\ HeldNow(c) = <<>> BY <1>1 DEF Coming, HeldNow
<1>3. Stamps(<<>>) = {} BY DEF Stamps
<1>4. Seen(c) = {} /\ Weight(c) = 0 BY <1>1, <1>2, <1>3 DEF Seen, Weight
<1> QED BY <1>1, <1>4, NoneLost DEF Explained

LEMMA NextExplained == DepthInv /\ DepthInv' /\ RepeatInv /\ [Next]_vars => RepeatInv'
<1> SUFFICES ASSUME DepthInv, DepthInv', RepeatInv, [Next]_vars, NEW d \in Client PROVE Explained(d)'
  BY DEF RepeatInv
<1>1. ASSUME UNCHANGED <<netVars, consumerVars>> PROVE Explained(d)'
  BY <1>1, SameExplained DEF RepeatInv, netVars, consumerVars
<1>2. CASE Generate /\ UNCHANGED consumerVars BY <1>1, <1>2 DEF Generate
<1>3. CASE SendMsg /\ UNCHANGED consumerVars BY <1>3, SendMsgExplained
<1>4. ASSUME NEW c \in Client, ReadMsg(c) \/ ReadFails(c) \/ Push(c) \/ PushFull(c) \/ TryPop(c)
      PROVE  Explained(d)'
  <2>1. CASE d # c BY <1>4, <2>1, OtherExplained
  <2>2. CASE d = c
    BY <1>4, <2>2, ReadMsgExplained, ReadFailsExplained, PushExplained, PushFullExplained,
       TryPopExplained
  <2> QED BY <2>1, <2>2
<1>5. CASE UNCHANGED vars BY <1>1, <1>5 DEF vars
<1> QED BY <1>2, <1>3, <1>4, <1>5 DEF Next, GeneratorStep, ReceiverStep

(* A message is handled more often than it was sent only where the network  *)
(* doubled it or recv failed, for any number of clients and faults.         *)
THEOREM RepeatsAreExplainedHolds == Spec => []RepeatsAreExplained
<1>1. DepthInv /\ RepeatInv => RepeatsAreExplained
  <2> SUFFICES ASSUME DepthInv, RepeatInv, NEW c \in Client
               PROVE  Len(Line(c)) - Cardinality({Line(c)[k].market_ts_ns : k \in DOMAIN Line(c)})
                        <= doubled + failures[c]
    BY DEF RepeatsAreExplained
  <2>1. Len(Line(c)) = Weight(c) /\ Stamps(Line(c)) = Seen(c) BY CountLine DEF LineCounted
  <2> QED BY <2>1 DEF RepeatInv, Explained, Stamps
<1>2. Init => RepeatInv BY InitExplained
<1>3. DepthInv /\ DepthInv' /\ RepeatInv /\ [Next]_vars => RepeatInv' BY NextExplained
<1> QED BY <1>1, <1>2, <1>3, DepthInvariant, PTL DEF Spec
=============================================================================
