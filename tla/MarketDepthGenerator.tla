------------------------ MODULE MarketDepthGenerator ------------------------
(***************************************************************************)
(* MarketDepthGenerator (src/mms/market_data/MarketDepthGenerator.cc):     *)
(* its thread makes a message, queues it, and sends what the queue holds   *)
(* to every client.  The message comes from generate_depth_message, the    *)
(* default of gen_fn, which draws from a generator seeded once: Draws is   *)
(* what that yields.                                                       *)
(*                                                                         *)
(* run never ends: it looks at no stop token.  Only Draws ends.  The time  *)
(* stamp is the number of the message: the clock is finer than the loop,   *)
(* which sleeps in every round.                                            *)
(***************************************************************************)
EXTENDS WireDepthMsgV1, UdpNetwork

CONSTANTS
    Instruments,    \* what fill_symbols, fill_strikes and fill_baseprice filled in
    Year, Month, Day,       \* 26, 6, 19 in the code
    Draws,          \* index, side and price_modifier of each message
    SendCap         \* capacity of the send queue, 1024 in the code

Price(draw) ==
    LET base == Instruments[draw.idx].base
    IN  IF draw.isBid THEN base - draw.modifier ELSE base + draw.modifier

ASSUME GeneratorAssumption ==
    /\ Instruments \in Seq([symbol : Symbol, strike : I32, base : I32])
    /\ {Year, Month, Day} \subseteq Byte
    /\ Draws \in Seq([idx : DOMAIN Instruments, isBid : BOOLEAN, modifier : Nat])
    /\ \A k \in DOMAIN Draws : Price(Draws[k]) \in I32
    /\ Len(Draws) < U64
    /\ SendCap \in Nat \ {0}

VARIABLES
    genpc,          \* "generate" or "send"
    seq,            \* m_seq
    sendQueue,      \* m_send_q
    sent            \* history: the messages sent, in order

generatorVars == <<genpc, seq, sendQueue, sent>>

-----------------------------------------------------------------------------
GeneratorInit ==
    /\ genpc = "generate"
    /\ seq = 0
    /\ sendQueue = <<>>
    /\ sent = <<>>

GenerateOption(i) ==
    [strike |-> Instruments[i].strike, symbol |-> Instruments[i].symbol,
     year |-> Year, month |-> Month, day |-> Day, flags |-> 1]

(* The bid flag lands in the padding: every message has flags 0. *)
GenerateDepthMessage(draw) ==
    [ts_ns |-> Len(sent) + 1, seq |-> seq,
     option |-> GenerateOption(draw.idx),
     price |-> Price(draw),
     flags |-> 0]

Enqueue(m) ==
    sendQueue' = IF Len(sendQueue) < SendCap THEN Append(sendQueue, m) ELSE sendQueue

Generate ==
    /\ genpc = "generate"
    /\ Len(sent) < Len(Draws)
    /\ Enqueue(GenerateDepthMessage(Draws[Len(sent) + 1]))
    /\ genpc' = "send"
    /\ UNCHANGED <<seq, sent, netVars>>

(* send_msg, which finds what Generate has queued: there is no other reader. *)
BuggySendMsgPeeks ==
    /\ genpc = "send"
    /\ sendQueue # <<>>
    /\ sent' = Append(sent, Head(sendQueue))
    /\ SendToAll(Serialize(Head(sendQueue)))
    /\ seq' = (seq + 1) % U16
    /\ genpc' = "generate"
    /\ UNCHANGED sendQueue
BuggySendMsgCountsArrivals ==
    /\ genpc = "send"
    /\ sendQueue # <<>>
    /\ sendQueue' = Tail(sendQueue)
    /\ sent' = Append(sent, Head(sendQueue))
    /\ SendToAll(Serialize(Head(sendQueue)))
    /\ seq' = (seq + Cardinality({c \in Client : net'[c] # net[c]})) % U16
    /\ genpc' = "generate"
SendMsg ==
    /\ genpc = "send"
    /\ sendQueue # <<>>
    /\ sendQueue' = Tail(sendQueue)
    /\ sent' = Append(sent, Head(sendQueue))
    /\ SendToAll(Serialize(Head(sendQueue)))
    /\ seq' = (seq + 1) % U16
    /\ genpc' = "generate"

GeneratorStep == Generate \/ SendMsg
=============================================================================
