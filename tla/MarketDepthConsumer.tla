------------------------ MODULE MarketDepthConsumer -------------------------
(***************************************************************************)
(* MarketDepthConsumer (src/mms/market_data/MarketDepthConsumer.cc) in the *)
(* process of each client: its thread reads datagrams into one buffer,     *)
(* deserializes it and pushes the result; the main thread                  *)
(* (consumer_main.cc) pops and prints.  Neither loop ends.                 *)
(***************************************************************************)
EXTENDS WireDepthMsgV1, UdpNetwork

CONSTANTS
    RecvCap,        \* capacity of the receive queue, 1024 in the code
    MaxFailures     \* calls of recv that return -1

ASSUME ConsumerAssumption == RecvCap \in Nat \ {0} /\ MaxFailures \in Nat

VARIABLES
    recvpc,         \* each client's thread: "recv" or "push"
    buffer,         \* the buf of run
    recvQueue,      \* m_recv_queue
    shown,          \* main's msg: at most one message, the last it popped
    failures        \* how often recv failed

consumerVars == <<recvpc, buffer, recvQueue, shown, failures>>

-----------------------------------------------------------------------------
ConsumerInit ==
    /\ recvpc = [c \in Client |-> "recv"]
    /\ buffer = [c \in Client |-> Zeroes]
    /\ recvQueue = [c \in Client |-> <<>>]
    /\ shown = [c \in Client |-> <<>>]
    /\ failures = [c \in Client |-> 0]

ReadMsg(c) ==
    /\ recvpc[c] = "recv"
    /\ \E k \in DOMAIN net[c] :
         /\ buffer' = [buffer EXCEPT ![c] = net[c][k]]
         /\ RecvAt(c, k)
    /\ recvpc' = [recvpc EXCEPT ![c] = "push"]
    /\ UNCHANGED <<recvQueue, shown, failures>>

(* -1 is as true as the number of bytes read, and the buffer is as it was. *)
BuggyReadFailsClears(c) ==
    /\ recvpc[c] = "recv"
    /\ failures[c] < MaxFailures
    /\ failures' = [failures EXCEPT ![c] = @ + 1]
    /\ buffer' = [buffer EXCEPT ![c] = Zeroes]
    /\ recvpc' = [recvpc EXCEPT ![c] = "push"]
    /\ UNCHANGED <<netVars, recvQueue, shown>>
BuggyReadFailsEnds(c) ==
    /\ recvpc[c] = "recv"
    /\ failures[c] < MaxFailures
    /\ failures' = [failures EXCEPT ![c] = @ + 1]
    /\ recvpc' = [recvpc EXCEPT ![c] = "ended"]
    /\ UNCHANGED <<netVars, buffer, recvQueue, shown>>
ReadFails(c) ==
    /\ recvpc[c] = "recv"
    /\ failures[c] < MaxFailures
    /\ failures' = [failures EXCEPT ![c] = @ + 1]
    /\ recvpc' = [recvpc EXCEPT ![c] = "push"]
    /\ UNCHANGED <<netVars, buffer, recvQueue, shown>>

Push(c) ==
    /\ recvpc[c] = "push"
    /\ Len(recvQueue[c]) < RecvCap
    /\ recvQueue' = [recvQueue EXCEPT ![c] = Append(@, Deserialize(buffer[c]))]
    /\ recvpc' = [recvpc EXCEPT ![c] = "recv"]
    /\ UNCHANGED <<netVars, buffer, shown, failures>>

(* A push into the full queue fails unseen: the newest message is lost. *)
BuggyPushFull(c) ==
    /\ recvpc[c] = "push"
    /\ Len(recvQueue[c]) = RecvCap
    /\ recvQueue' = [recvQueue EXCEPT ![c] = Append(Tail(@), Deserialize(buffer[c]))]
    /\ recvpc' = [recvpc EXCEPT ![c] = "recv"]
    /\ UNCHANGED <<netVars, buffer, shown, failures>>
PushFull(c) ==
    /\ recvpc[c] = "push"
    /\ Len(recvQueue[c]) = RecvCap
    /\ recvpc' = [recvpc EXCEPT ![c] = "recv"]
    /\ UNCHANGED <<netVars, buffer, recvQueue, shown, failures>>

(* main, when try_pop finds a message; otherwise it sleeps. *)
TryPop(c) ==
    /\ recvQueue[c] # <<>>
    /\ shown' = [shown EXCEPT ![c] = <<Head(recvQueue[c])>>]
    /\ recvQueue' = [recvQueue EXCEPT ![c] = Tail(@)]
    /\ UNCHANGED <<netVars, recvpc, buffer, failures>>

ReceiverStep(c) == ReadMsg(c) \/ Push(c) \/ PushFull(c)
=============================================================================
