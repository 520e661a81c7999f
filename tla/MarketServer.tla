---------------------------- MODULE MarketServer ----------------------------
(***************************************************************************)
(* The market server of Core::work_server (src/mms/app/Core.cc) and the    *)
(* TCP connection between it and one client.  The server serves one socket *)
(* at a time: it accepts, sends ticks until a send fails, and only then    *)
(* accepts again.  Its tick counter is static, so it lives as long as the  *)
(* server's process.                                                       *)
(*                                                                         *)
(* A tick travels as two halves, because the receiver takes whatever one   *)
(* recv returns; what matters of its prices is the branch _compute_signal  *)
(* takes for it, its kind.                                                 *)
(***************************************************************************)
EXTENDS Integers, Sequences, SequencesExt

CONSTANTS
    Kinds,              \* a subset of AllKinds that the server's quotes can be of
    SocketCap,          \* ticks that fit into the connection's buffers
    MaxTicks,           \* ticks one server process sends
    MaxServerCrashes,
    MaxLinkBreaks

AllKinds == {"low", "mid", "high", "wide"}

ASSUME ServerAssumption ==
    /\ Kinds \subseteq AllKinds
    /\ {SocketCap, MaxTicks, MaxServerCrashes, MaxLinkBreaks} \subseteq Nat

VARIABLES
    srv,        \* "down", "accept", "serving" the client's connection, or a "stale" one
    epoch,      \* how many times the server has crashed
    nextSeq,    \* tick_counter of this process
    link,       \* the client's socket: "none", "up", or cut and not yet noticed:
                \* "broken" if a recv will find out, "silent" if none ever does
    stream,     \* halves sent and not received
    breaks      \* how many times the network has cut the connection

serverVars == <<srv, epoch, nextSeq, link, stream, breaks>>

-----------------------------------------------------------------------------
Tick == [epoch : 0..MaxServerCrashes, seq : 0..MaxTicks, kind : AllKinds]

(* The halves of a tick. *)
Halves(t) == <<[tick |-> t, part |-> 1], [tick |-> t, part |-> 2]>>

ServerInit ==
    /\ srv \in {"down", "accept"}
    /\ epoch = 0
    /\ nextSeq = 0
    /\ link = "none"
    /\ stream = <<>>
    /\ breaks = 0

(* accept_client, which blocks until a connection is pending. *)
AcceptClient ==
    /\ srv = "accept" /\ link = "up"
    /\ srv' = "serving"
    /\ UNCHANGED <<epoch, nextSeq, link, stream, breaks>>

(* generate_market_data and a send that the socket takes. *)
SendTick(kind) ==
    /\ srv = "serving" /\ link = "up"
    /\ nextSeq < MaxTicks
    /\ Len(stream) + 2 <= 2 * SocketCap
    /\ stream' = stream \o Halves([epoch |-> epoch, seq |-> nextSeq, kind |-> kind])
    /\ nextSeq' = nextSeq + 1
    /\ UNCHANGED <<srv, epoch, link, breaks>>

(* A socket whose other end has gone takes ticks before a send on it fails. *)
ClientIsGone == srv = "stale" \/ (srv = "serving" /\ link # "up")

SendLost ==
    /\ ClientIsGone
    /\ nextSeq < MaxTicks
    /\ nextSeq' = nextSeq + 1
    /\ UNCHANGED <<srv, epoch, link, stream, breaks>>

(* The tick is generated, the send fails, and the server accepts again. *)
SendFails ==
    /\ ClientIsGone
    /\ srv' = "accept"
    /\ nextSeq' = IF nextSeq < MaxTicks THEN nextSeq + 1 ELSE nextSeq
    /\ UNCHANGED <<epoch, link, stream, breaks>>

(* The connection is cut.  What was already buffered may still arrive.  The *)
(* client need not be told: neither end sets a timeout or a keepalive.      *)
Cut ==
    /\ link' \in IF link = "up" THEN {"broken", "silent"} ELSE {link}
    /\ \E n \in 0..Len(stream) : stream' = SubSeq(stream, 1, n)

BreakLink ==
    /\ link = "up" /\ breaks < MaxLinkBreaks
    /\ Cut
    /\ breaks' = breaks + 1
    /\ UNCHANGED <<srv, epoch, nextSeq>>

CrashServer ==
    /\ srv # "down" /\ epoch < MaxServerCrashes
    /\ srv' = "down"
    /\ Cut
    /\ epoch' = epoch + 1
    /\ nextSeq' = 0
    /\ UNCHANGED breaks

RestartServer ==
    /\ srv = "down"
    /\ srv' = "accept"
    /\ UNCHANGED <<epoch, nextSeq, link, stream, breaks>>

(* What the client does to the connection: a new socket replaces the old    *)
(* one, or none does.                                                       *)
NewSocket(l) ==
    /\ link' = l
    /\ stream' = <<>>
    /\ srv' = IF srv = "serving" THEN "stale" ELSE srv
    /\ UNCHANGED <<epoch, nextSeq, breaks>>
Connect == srv # "down" /\ NewSocket("up")
CloseSocket == NewSocket("none")

ServerStep ==
    \/ AcceptClient
    \/ \E kind \in Kinds : SendTick(kind)
    \/ SendLost \/ SendFails
Environment == BreakLink \/ CrashServer \/ RestartServer
=============================================================================
