---------------------------- MODULE MarketDepth -----------------------------
(***************************************************************************)
(* The market depth generator, the network and the consumers together.     *)
(***************************************************************************)
EXTENDS MarketDepthGenerator, MarketDepthConsumer

vars == <<netVars, generatorVars, consumerVars>>

Init == NetInit /\ GeneratorInit /\ ConsumerInit

Next ==
    \/ GeneratorStep /\ UNCHANGED consumerVars
    \/ \E c \in Client : (ReceiverStep(c) \/ ReadFails(c) \/ TryPop(c)) /\ UNCHANGED generatorVars

(* Each thread takes a step when it can.  Nobody promises that recv fails,  *)
(* nor that a datagram arrives.                                             *)
Spec ==
    /\ Init /\ [][Next]_vars
    /\ \A c \in Client :
         /\ WF_vars(ReceiverStep(c) /\ UNCHANGED generatorVars)
         /\ WF_vars(TryPop(c) /\ UNCHANGED generatorVars)

-----------------------------------------------------------------------------
(* Properties. *)

DepthTypeOK ==
    /\ net \in [Client -> Seq(Packet)]
    /\ doubled \in 0..MaxDoubled
    /\ overtakes \in [Client -> 0..MaxOvertakes]
    /\ genpc \in {"generate", "send"}
    /\ seq \in 0..(U16 - 1)
    /\ sendQueue \in Seq(MarketDepthMessage) /\ Len(sendQueue) <= SendCap
    /\ sent \in Seq(MarketDepthMessage)
    /\ recvpc \in [Client -> {"recv", "push"}]
    /\ buffer \in [Client -> Packet]
    /\ recvQueue \in [Client -> Seq(InternalDepthMessage)]
    /\ \A c \in Client : Len(recvQueue[c]) <= RecvCap
    /\ shown \in [Client -> Seq(InternalDepthMessage)]
    /\ failures \in [Client -> 0..MaxFailures]

(* Every reader sees only what was sent, field by field, numbered by the    *)
(* order of sending, in the order it heard it, and Blank only before it     *)
(* heard anything: whatever is lost, doubled, overtaken or not read.        *)
Feed == INSTANCE DepthFeed WITH
    Reader <- Client, Update <- InternalDepthMessage, Blank <- Deserialize(Zeroes),
    SeqModulus <- U16, InboxCap <- RecvCap,
    published <- [k \in DOMAIN sent |-> AsSeen(sent[k])],
    heard <- [c \in Client |-> Deserialize(buffer[c])],
    inbox <- recvQueue
ImplementsDepthFeed == Feed!Spec

(* What client c has been shown last and what is on its way to it. *)
Held(c) == <<Deserialize(buffer[c])>>
Coming(c) == [k \in DOMAIN net[c] |-> Deserialize(net[c][k])]
Line(c) ==
    shown[c] \o recvQueue[c] \o (IF recvpc[c] = "push" THEN Held(c) ELSE <<>>) \o Coming(c)

(* Unless the network reorders, no client is shown an older message after a *)
(* newer one: neither a failed recv, which hands on the buffer of the last  *)
(* message, nor a full queue, which drops the newest, brings an old one up. *)
InOrder ==
    \A c \in Client :
        LET line == Line(c)
        IN  overtakes[c] = 0 =>
                \A k \in 1..(Len(line) - 1) : line[k].market_ts_ns <= line[k + 1].market_ts_ns

(* At any time there are no more repetitions in a client's line (shown,     *)
(* queued, read and not yet pushed, on its way) than datagrams doubled and  *)
(* calls of its recv failed so far.                                         *)
RepeatsAreExplained ==
    \A c \in Client :
        LET line == Line(c)
        IN  Len(line) - Cardinality({line[k].market_ts_ns : k \in DOMAIN line})
                <= doubled + failures[c]

(* The 16 bit number tells a client how many messages it has missed between *)
(* two, up to whole wraps of the counter.                                   *)
SeqTellsLoss ==
    \A c \in Client :
        LET line == Line(c)
        IN  \A j, k \in {i \in DOMAIN line : line[i].market_ts_ns > 0} :
                (line[k].seq - line[j].seq) % U16
                    = (line[k].market_ts_ns - line[j].market_ts_ns) % U16

Holds(s, n) == \E k \in DOMAIN s : s[k].market_ts_ns = n

(* What is in the receive queue is shown: nothing newer pushes it out.      *)
QueuedIsShown ==
    \A c \in Client, n \in DOMAIN Draws : Holds(recvQueue[c], n) ~> Holds(shown[c], n)

(* A message that reaches a client is shown, or it is about to be pushed    *)
(* itself and finds the queue full.                                         *)
FindsQueueFull(c, n) == recvpc[c] = "push" /\ Holds(Held(c), n) /\ Len(recvQueue[c]) = RecvCap
ArrivedIsShown ==
    \A c \in Client, n \in DOMAIN Draws :
        Holds(Coming(c), n) ~> (Holds(shown[c], n) \/ FindsQueueFull(c, n))

(* "is_call = 1 hard coded", and IsBidBit set where the price is below the  *)
(* base: a bid on a call is shown as a bid on a call.                       *)
BidsOnCallsAreShown ==
    \A c \in Client : \A k \in DOMAIN shown[c], i \in DOMAIN Instruments :
        LET m == shown[c][k]
        IN  (m.option.symbol = Instruments[i].symbol /\ m.price < Instruments[i].base) =>
                (m.option.flags = 1 /\ m.flags = 1)

-----------------------------------------------------------------------------
(* The inductive invariant behind them. *)

(* What was sent is numbered, and the send queue holds at most the message  *)
(* of the present round.                                                    *)
Numbered ==
    /\ \A k \in DOMAIN sent : sent[k].seq = (k - 1) % U16 /\ sent[k].ts_ns = k
    /\ seq = Len(sent) % U16 /\ Len(sent) <= Len(Draws)
    /\ genpc = "generate" => sendQueue = <<>>
    /\ genpc = "send" =>
         /\ Len(sent) < Len(Draws) /\ Len(sendQueue) = 1
         /\ sendQueue[1].seq = seq /\ sendQueue[1].ts_ns = Len(sent) + 1

(* Every datagram, and what was made of it, goes back to a message sent. *)
WasSent(packet, messages) == \E k \in DOMAIN messages : packet = Serialize(messages[k])
Known(m, messages) ==
    m = Deserialize(Zeroes) \/ \E k \in DOMAIN messages : m = AsSeen(messages[k])
NothingInvented ==
    \A c \in Client :
        /\ \A j \in DOMAIN net[c] : WasSent(net[c][j], sent)
        /\ buffer[c] = Zeroes \/ WasSent(buffer[c], sent)
        /\ \A j \in DOMAIN recvQueue[c] : Known(recvQueue[c][j], sent)
        /\ \A j \in DOMAIN shown[c] : Known(shown[c][j], sent)

DepthInv == DepthTypeOK /\ Numbered /\ NothingInvented

(* Along a client's line the time stamps rise, whether or not the message   *)
(* in its buffer has been handed on.                                        *)
Before(s, t) ==
    \A i \in DOMAIN s, j \in DOMAIN t : s[i].market_ts_ns <= t[j].market_ts_ns
Rising(s) == \A i, j \in DOMAIN s : i <= j => s[i].market_ts_ns <= s[j].market_ts_ns
Ordered(c) ==
    /\ Len(shown[c]) <= 1
    /\ Before(shown[c], recvQueue[c]) /\ Before(shown[c], Held(c))
    /\ Rising(recvQueue[c]) /\ Before(recvQueue[c], Held(c))
    /\ Before(Held(c), Coming(c)) /\ Rising(Coming(c))
OrderInv == \A c \in Client : overtakes[c] = 0 => Ordered(c)
=============================================================================
