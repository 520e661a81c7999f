----------------------------- MODULE UdpNetwork -----------------------------
(***************************************************************************)
(* UDP between the market depth generator and its clients, as              *)
(* MarketDepthGenerator::send_msg and MarketDepthConsumer::read_msg use    *)
(* the external fiah::UdpServer and fiah::UdpClient: datagrams are kept    *)
(* whole and may be lost, doubled or overtaken.                            *)
(***************************************************************************)
EXTENDS Integers, Sequences, SequencesExt, FiniteSets

CONSTANTS
    Client,         \* m_clients
    MaxDoubled,     \* datagrams the network doubles
    MaxOvertakes    \* datagrams that overtake an earlier one

ASSUME NetworkAssumption ==
    /\ IsFiniteSet(Client)
    /\ {MaxDoubled, MaxOvertakes} \subseteq Nat

VARIABLES
    net,            \* the datagrams on their way to each client
    doubled,        \* how many datagrams were doubled
    overtakes       \* how many datagrams of each client overtook another

netVars == <<net, doubled, overtakes>>

NetInit ==
    /\ net = [c \in Client |-> <<>>]
    /\ doubled = 0
    /\ overtakes = [c \in Client |-> 0]

(* A datagram for each client: nothing, one copy or two arrive. *)
SendToAll(packet) ==
    \E copies \in [Client -> 0..2] :
        /\ net' = [c \in Client |-> net[c] \o [k \in 1..copies[c] |-> packet]]
        /\ doubled' = doubled + Cardinality({c \in Client : copies[c] = 2})
        /\ doubled' <= MaxDoubled
        /\ UNCHANGED overtakes

(* recv returns a datagram, usually the oldest. *)
RecvAt(c, k) ==
    /\ net' = [net EXCEPT ![c] = RemoveAt(@, k)]
    /\ overtakes' = [overtakes EXCEPT ![c] = IF k = 1 THEN @ ELSE @ + 1]
    /\ overtakes'[c] <= MaxOvertakes
    /\ UNCHANGED doubled
=============================================================================
