----------------------------- MODULE MarketFeed -----------------------------
(***************************************************************************)
(* MarketFeed (src/mms/market/MarketFeed.cc): the client's end of the      *)
(* connection and the loop that receives ticks, pushes them into the       *)
(* market data queue and reconnects.  receive_loop runs on the network     *)
(* thread of each session, a call of Core::work_client.                    *)
(*                                                                         *)
(* p_tcp_client is null exactly when link = "none".  The counters of ticks *)
(* and of full queues only feed a log line and are left out, and so is the *)
(* time the backoff sleeps.                                                *)
(***************************************************************************)
EXTENDS MarketServer

CONSTANTS
    MaxSessions,    \* calls of work_client that start threads
    MaxRetries,     \* max_retries, 5 in the code
    MdCap,          \* capacity of the market data queue, 4096 in the code
    MaxPhantoms,    \* ticks and signals that races make up
    PartialReads    \* whether recv may return less than a whole tick

ASSUME FeedAssumption ==
    /\ {MaxSessions, MaxRetries, MdCap} \subseteq Nat \ {0}
    /\ MaxPhantoms \in Nat
    /\ PartialReads \in BOOLEAN

Session == 1..MaxSessions
None == [epoch |-> -1, seq |-> 0, kind |-> "none"]       \* no tick yet
Garbled == [epoch |-> -1, seq |-> 1, kind |-> "garbled"] \* halves of two ticks
AnyTick == Tick \cup {None, Garbled}

VARIABLES
    running,        \* m_client_running, which receive_loop shares with the Core
    feed,           \* the MarketFeed object: "none", "alive" or "freed"
    initialized,    \* m_initialized
    netpc,          \* where each session's network thread is
    hand,           \* the tick each of them has received and not yet pushed
    retries,        \* their retry_count
    mdQueue,        \* m_market_data_queue
    raced,          \* the queues, "md" and "sig", that a data race may have damaged
    phantoms        \* how many ticks and signals races have made up

feedVars == <<running, feed, initialized, netpc, hand, retries, mdQueue, raced, phantoms>>
NetPc == {"none", "loop", "retry", "dial", "check", "giveup", "recv", "stray",
          "push", "spin", "again", "done"}

-----------------------------------------------------------------------------
FeedInit ==
    /\ running = FALSE
    /\ feed = "none"
    /\ initialized = FALSE
    /\ netpc = [g \in Session |-> "none"]
    /\ hand = [g \in Session |-> None]
    /\ retries = [g \in Session |-> 0]
    /\ mdQueue = <<>>
    /\ raced = {} /\ phantoms = 0

GoTo(g, label) == netpc' = [netpc EXCEPT ![g] = label]
At(g, label) == feed = "alive" /\ netpc[g] = label

(* g resets p_tcp_client.  A thread of another session that is inside the    *)
(* recv of it is left with an object that is gone.                           *)
ResetClient(g, label) ==
    netpc' = [h \in Session |-> IF h = g THEN label
                               ELSE IF netpc[h] = "recv" THEN "stray" ELSE netpc[h]]

(* An access of g to one end of a queue for a single producer and a single   *)
(* consumer while another thread is at the same end.  Whatever it leaves, no *)
(* later access can rely on that queue.                                      *)
Race(queue, threadpc, g, places) ==
    /\ queue \in raced \/ \E h \in Session \ {g} : threadpc[h] \in places
    /\ raced' = raced \cup {queue}

MakeUp == phantoms < MaxPhantoms /\ phantoms' = phantoms + 1

(* initialize, on a new MarketFeed. *)
InitializeFeed ==
    /\ Connect
    /\ feed' = "alive"
    /\ initialized' = TRUE

(* The destructor, which calls stop. *)
FreeFeed ==
    /\ feed' = IF feed = "alive" THEN "freed" ELSE feed
    /\ initialized' = FALSE
    /\ IF link # "none" THEN CloseSocket ELSE UNCHANGED serverVars

(* while (running_flag), then the null check. *)
CheckRunning(g) ==
    /\ At(g, "loop")
    /\ GoTo(g, IF ~running THEN "done" ELSE IF link = "none" THEN "retry" ELSE "recv")
    /\ UNCHANGED <<serverVars, running, feed, initialized, hand, retries, mdQueue, raced, phantoms>>

(* The retry loop, whose count starts at 0 each time: its condition, then one call of _reconnect. *)
BuggyCheckRetry(g) ==
    /\ At(g, "retry")
    /\ retries[g] <= MaxRetries /\ running
    /\ GoTo(g, "dial")
    /\ UNCHANGED <<serverVars, running, feed, initialized, hand, retries, mdQueue, raced, phantoms>>
CheckRetry(g) ==
    /\ At(g, "retry")
    /\ retries[g] < MaxRetries /\ running
    /\ GoTo(g, "dial")
    /\ UNCHANGED <<serverVars, running, feed, initialized, hand, retries, mdQueue, raced, phantoms>>

Reconnect(g) ==
    /\ At(g, "dial")
    /\ Connect
    /\ initialized' = TRUE
    /\ ResetClient(g, "check")
    /\ retries' = [retries EXCEPT ![g] = 0]
    /\ UNCHANGED <<running, feed, hand, mdQueue, raced, phantoms>>

(* The server may be down, or refuse, or be out of reach. *)
ReconnectFails(g) ==
    /\ At(g, "dial")
    /\ CloseSocket
    /\ initialized' = FALSE
    /\ retries' = [retries EXCEPT ![g] = @ + 1]
    /\ ResetClient(g, "retry")
    /\ UNCHANGED <<running, feed, hand, mdQueue, raced, phantoms>>

(* The retry loop is over. *)
EndRetries(g) ==
    /\ At(g, "retry")
    /\ retries[g] = MaxRetries \/ ~running
    /\ GoTo(g, "check")
    /\ retries' = [retries EXCEPT ![g] = 0]
    /\ UNCHANGED <<serverVars, running, feed, initialized, hand, mdQueue, raced, phantoms>>

(* The null check behind it. *)
CheckClient(g) ==
    /\ At(g, "check")
    /\ GoTo(g, IF link = "none" THEN "giveup" ELSE "loop")
    /\ UNCHANGED <<serverVars, running, feed, initialized, hand, retries, mdQueue, raced, phantoms>>

(* Without a connection, the client stops. *)
BuggyGiveUp(g) ==
    /\ At(g, "giveup")
    /\ GoTo(g, "done")
    /\ UNCHANGED <<serverVars, running, feed, initialized, hand, retries, mdQueue, raced, phantoms>>
GiveUp(g) ==
    /\ At(g, "giveup")
    /\ running' = FALSE
    /\ GoTo(g, "done")
    /\ UNCHANGED <<serverVars, feed, initialized, hand, retries, mdQueue, raced, phantoms>>

(* recv fails once the buffered data of a dead connection is read; on a      *)
(* silent one it waits for ever.                                             *)
DropClient(g) ==
    /\ CloseSocket
    /\ initialized' = FALSE
    /\ ResetClient(g, "loop")
    /\ UNCHANGED <<running, feed, hand, retries, mdQueue, raced, phantoms>>
RecvFails(g) == At(g, "recv") /\ link = "broken" /\ stream = <<>> /\ DropClient(g)

(* recv returns part of a tick, which is discarded. *)
RecvPartial(g) ==
    /\ At(g, "recv")
    /\ stream # <<>>
    /\ PartialReads \/ Len(stream) = 1
    /\ stream' = Tail(stream)
    /\ GoTo(g, "loop")
    /\ UNCHANGED <<srv, epoch, nextSeq, link, breaks>>
    /\ UNCHANGED <<running, feed, initialized, hand, retries, mdQueue, raced, phantoms>>

(* recv fills the buffer, which is copied into a MarketData. *)
Parse(h1, h2) == IF h1.tick = h2.tick THEN h1.tick ELSE Garbled
RecvTick(g) ==
    /\ At(g, "recv")
    /\ Len(stream) >= 2
    /\ hand' = [hand EXCEPT ![g] = Parse(stream[1], stream[2])]
    /\ stream' = SubSeq(stream, 3, Len(stream))
    /\ GoTo(g, "push")
    /\ UNCHANGED <<srv, epoch, nextSeq, link, breaks>>
    /\ UNCHANGED <<running, feed, initialized, retries, mdQueue, raced, phantoms>>

Pushing == {"push", "again"}
BuggyPush(g) ==
    /\ feed = "alive" /\ netpc[g] \in Pushing
    /\ "md" \notin raced
    /\ Len(mdQueue) < MdCap
    /\ mdQueue' = Append(mdQueue, hand[g])
    /\ GoTo(g, "spin")
    /\ UNCHANGED <<serverVars, running, feed, initialized, hand, retries, raced, phantoms>>
Push(g) ==
    /\ feed = "alive" /\ netpc[g] \in Pushing
    /\ "md" \notin raced
    /\ Len(mdQueue) < MdCap
    /\ mdQueue' = Append(mdQueue, hand[g])
    /\ hand' = [hand EXCEPT ![g] = None]
    /\ GoTo(g, "loop")
    /\ UNCHANGED <<serverVars, running, feed, initialized, retries, raced, phantoms>>

QueueFull(g) ==
    /\ feed = "alive" /\ netpc[g] \in Pushing
    /\ "md" \notin raced
    /\ Len(mdQueue) = MdCap
    /\ GoTo(g, "spin")
    /\ UNCHANGED <<serverVars, running, feed, initialized, hand, retries, mdQueue, raced, phantoms>>

(* Two producers: push may return either, and the queue holds anything. *)
RacedPush(g) ==
    /\ feed = "alive" /\ netpc[g] \in Pushing
    /\ Race("md", netpc, g, Pushing)
    /\ \/ hand' = [hand EXCEPT ![g] = None] /\ GoTo(g, "loop")
       \/ GoTo(g, "spin") /\ UNCHANGED hand
    /\ UNCHANGED <<serverVars, running, feed, initialized, retries, mdQueue, phantoms>>

(* while (running_flag) around the spin on a full queue. *)
BuggySpinAgain(g) ==
    /\ At(g, "spin")
    /\ GoTo(g, "again")
    /\ UNCHANGED <<serverVars, running, feed, initialized, hand, retries, mdQueue, raced, phantoms>>
SpinAgain(g) ==
    /\ At(g, "spin")
    /\ running
    /\ GoTo(g, "again")
    /\ UNCHANGED <<serverVars, running, feed, initialized, hand, retries, mdQueue, raced, phantoms>>

(* The spin ends with the client, and the tick in hand is lost. *)
DropTick(g) ==
    /\ At(g, "spin")
    /\ ~running
    /\ hand' = [hand EXCEPT ![g] = None]
    /\ GoTo(g, "loop")
    /\ UNCHANGED <<serverVars, running, feed, initialized, retries, mdQueue, raced, phantoms>>

(* In the recv of an object that has been reset: it may fail, return what    *)
(* it found, or never come back.                                             *)
StrayFails(g) == At(g, "stray") /\ DropClient(g)

StrayReturns(g) ==
    /\ At(g, "stray")
    /\ MakeUp
    /\ hand' = [hand EXCEPT ![g] = Garbled]
    /\ GoTo(g, "push")
    /\ UNCHANGED <<serverVars, running, feed, initialized, retries, mdQueue, raced>>

(* What a thread does that is still in receive_loop when the object is gone *)
(* is undefined: it may return, or never do.                                *)
ReturnFromFreed(g) ==
    /\ feed = "freed"
    /\ netpc[g] \notin {"none", "done"}
    /\ GoTo(g, "done")
    /\ UNCHANGED <<serverVars, running, feed, initialized, hand, retries, mdQueue, raced, phantoms>>

(* Nobody promises that a thread comes out of a use of what is gone. *)
UseAfterReset(g) == StrayFails(g) \/ StrayReturns(g) \/ ReturnFromFreed(g)

NetworkStep(g) ==
    \/ CheckRunning(g)
    \/ CheckRetry(g) \/ Reconnect(g) \/ ReconnectFails(g)
    \/ EndRetries(g) \/ CheckClient(g) \/ GiveUp(g)
    \/ RecvFails(g) \/ RecvPartial(g) \/ RecvTick(g)
    \/ Push(g) \/ QueueFull(g) \/ RacedPush(g) \/ SpinAgain(g) \/ DropTick(g)
=============================================================================
