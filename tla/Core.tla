-------------------------------- MODULE Core --------------------------------
(***************************************************************************)
(* The trading client: Core (src/mms/app/Core.cc) with its network,        *)
(* strategy and execution threads, the two queues between them, and the    *)
(* thread of the Controller (src/mms/app/Controller.cc) that calls         *)
(* initialize_client, work_client, stop_client and the destructor.         *)
(*                                                                         *)
(* The stop tokens of the threads are never read, so request_stop changes  *)
(* nothing and is left out; so is m_client_stopping, which is only         *)
(* written.                                                                *)
(***************************************************************************)
EXTENDS MarketFeed

CONSTANTS
    SigCap,         \* capacity of the signal queue, 2048 in the code
    MaxCrashes      \* exceptions thrown in thread loops

ASSUME CoreAssumption == SigCap \in Nat \ {0} /\ MaxCrashes \in Nat

VARIABLES
    clientStarted,      \* m_client_started
    clientStopped,      \* m_client_stopped
    session,            \* calls of work_client that started threads
    mainpc,             \* where the Controller's thread is
    strpc, md, out,     \* strategy threads: place, last tick popped, signal computed
    sigQueue,           \* m_signal_queue
    signalsGenerated,   \* m_signals_generated
    exepc, signal,      \* execution threads: place, last signal popped
    ordersSent,         \* m_orders_sent
    crashes             \* how many exceptions have been thrown

coreVars == <<clientStarted, clientStopped, session, mainpc, strpc, md, out, sigQueue,
              signalsGenerated, exepc, signal, ordersSent, crashes>>
mainVars == <<clientStarted, clientStopped, session, mainpc>>
strVars == <<strpc, md, out, signalsGenerated>>
exeVars == <<exepc, signal, ordersSent>>
vars == <<serverVars, feedVars, coreVars>>

SignalType == {"BUY", "SELL", "HOLD"}
Signal == [tick : AnyTick, type : SignalType]
NoSignal == [tick |-> None, type |-> "HOLD"]

-----------------------------------------------------------------------------
Init ==
    /\ ServerInit /\ FeedInit
    /\ clientStarted = FALSE /\ clientStopped = FALSE
    /\ session = 0 /\ mainpc = "idle"
    /\ strpc = [g \in Session |-> "none"]
    /\ md = [g \in Session |-> None]
    /\ out = [g \in Session |-> NoSignal]
    /\ sigQueue = <<>>
    /\ exepc = [g \in Session |-> "none"]
    /\ signal = [g \in Session |-> NoSignal]
    /\ signalsGenerated = 0 /\ ordersSent = 0
    /\ crashes = 0

(***************************************************************************)
(* The Controller's thread.                                                *)
(***************************************************************************)
InitializeClient ==
    /\ mainpc = "idle"
    /\ ~clientStarted
    /\ InitializeFeed
    /\ clientStarted' = TRUE
    /\ UNCHANGED <<running, netpc, hand, retries, mdQueue, raced, phantoms>>
    /\ UNCHANGED <<clientStopped, session, mainpc, strVars, sigQueue, exeVars, crashes>>

(* work_client sets the flags and starts the threads one after the other.   *)
(* Assigning to a jthread joins the thread it held before.                  *)
WorkClient ==
    /\ mainpc = "idle"
    /\ ~running
    /\ clientStarted
    /\ session < MaxSessions
    /\ running' = TRUE
    /\ clientStopped' = FALSE
    /\ session' = session + 1
    /\ GoTo(session + 1, "loop")
    /\ mainpc' = "startStrategy"
    /\ UNCHANGED <<serverVars, feed, initialized, hand, retries, mdQueue, raced, phantoms>>
    /\ UNCHANGED <<clientStarted, strVars, sigQueue, exeVars, crashes>>

Joined(threadpc) == \A g \in 1..(session - 1) : threadpc[g] = "done"

BuggyStartStrategy ==
    /\ mainpc = "startStrategy"
    /\ strpc' = [strpc EXCEPT ![session] = "loop"]
    /\ mainpc' = "startExecution"
    /\ UNCHANGED <<serverVars, feedVars>>
    /\ UNCHANGED <<clientStarted, clientStopped, session, md, out, signalsGenerated, sigQueue, exeVars, crashes>>
StartStrategy ==
    /\ mainpc = "startStrategy"
    /\ Joined(netpc)
    /\ strpc' = [strpc EXCEPT ![session] = "loop"]
    /\ mainpc' = "startExecution"
    /\ UNCHANGED <<serverVars, feedVars>>
    /\ UNCHANGED <<clientStarted, clientStopped, session, md, out, signalsGenerated, sigQueue, exeVars, crashes>>

StartExecution ==
    /\ mainpc = "startExecution"
    /\ Joined(strpc)
    /\ exepc' = [exepc EXCEPT ![session] = "loop"]
    /\ mainpc' = "joinExecution"
    /\ UNCHANGED <<serverVars, feedVars>>
    /\ UNCHANGED <<clientStarted, clientStopped, session, strVars, sigQueue, signal, ordersSent, crashes>>

(* A jthread that the system cannot start throws in work_client.  The        *)
(* Controller catches it and the program ends.                               *)
ThreadFails ==
    /\ \/ /\ mainpc = "idle" /\ ~running /\ clientStarted /\ session < MaxSessions
          /\ running' = TRUE /\ clientStopped' = FALSE
       \/ /\ mainpc = "startStrategy" /\ Joined(netpc)
          /\ UNCHANGED <<running, clientStopped>>
       \/ /\ mainpc = "startExecution" /\ Joined(strpc)
          /\ UNCHANGED <<running, clientStopped>>
    /\ mainpc' = "thrown"
    /\ UNCHANGED <<serverVars, feed, initialized, netpc, hand, retries, mdQueue, raced, phantoms>>
    /\ UNCHANGED <<clientStarted, session, strVars, sigQueue, exeVars, crashes>>

WorkReturns ==
    /\ mainpc = "joinExecution"
    /\ Joined(exepc)
    /\ mainpc' = "idle"
    /\ UNCHANGED <<serverVars, feedVars, clientStarted, clientStopped, session, strVars, sigQueue, exeVars, crashes>>

StopClient ==
    /\ mainpc \in {"idle", "thrown"}
    /\ ~clientStopped
    /\ running' = FALSE
    /\ clientStopped' = TRUE
    /\ UNCHANGED <<serverVars, feed, initialized, netpc, hand, retries, mdQueue, raced, phantoms>>
    /\ UNCHANGED <<clientStarted, session, mainpc, strVars, sigQueue, exeVars, crashes>>

(* ~Core calls stop_client; then its members go, the feed before the        *)
(* threads, which are joined.                                               *)
Destroy ==
    /\ mainpc \in {"idle", "thrown"}
    /\ clientStopped
    /\ FreeFeed
    /\ mainpc' = "joinAll"
    /\ UNCHANGED <<running, netpc, hand, retries, mdQueue, raced, phantoms>>
    /\ UNCHANGED <<clientStarted, clientStopped, session, strVars, sigQueue, exeVars, crashes>>

Ended(threadpc) == \A g \in Session : threadpc[g] \in {"none", "done"}

JoinAll ==
    /\ mainpc = "joinAll"
    /\ Ended(netpc) /\ Ended(strpc) /\ Ended(exepc)
    /\ mainpc' = "gone"
    /\ UNCHANGED <<serverVars, feedVars, clientStarted, clientStopped, session, strVars, sigQueue, exeVars, crashes>>

MainStep ==
    \/ InitializeClient \/ WorkClient
    \/ StartStrategy \/ StartExecution \/ ThreadFails \/ WorkReturns
    \/ StopClient \/ Destroy \/ JoinAll

(***************************************************************************)
(* The strategy thread.                                                    *)
(***************************************************************************)
StrategyGoesTo(g, label) == strpc' = [strpc EXCEPT ![g] = label]

(* while (m_client_running), and then pop. *)
BuggyCheckStrategy(g) ==
    /\ strpc[g] = "loop"
    /\ StrategyGoesTo(g, "pop")
    /\ UNCHANGED <<serverVars, feedVars, mainVars, md, out, signalsGenerated, sigQueue, exeVars, crashes>>
CheckStrategy(g) ==
    /\ strpc[g] = "loop"
    /\ StrategyGoesTo(g, IF running THEN "pop" ELSE "done")
    /\ UNCHANGED <<serverVars, feedVars, mainVars, md, out, signalsGenerated, sigQueue, exeVars, crashes>>

BuggyNoTickSpins(g) ==
    /\ strpc[g] = "pop"
    /\ "md" \notin raced /\ mdQueue = <<>>
    /\ UNCHANGED vars
BuggyNoTickBreaks(g) ==
    /\ strpc[g] = "pop"
    /\ "md" \notin raced /\ mdQueue = <<>>
    /\ StrategyGoesTo(g, "done")
    /\ UNCHANGED <<serverVars, feedVars, mainVars, md, out, signalsGenerated, sigQueue, exeVars, crashes>>
NoTick(g) ==
    /\ strpc[g] = "pop"
    /\ "md" \notin raced /\ mdQueue = <<>>
    /\ StrategyGoesTo(g, "loop")
    /\ UNCHANGED <<serverVars, feedVars, mainVars, md, out, signalsGenerated, sigQueue, exeVars, crashes>>

(* _compute_signal leaves the type of a wide quote's signal uninitialised;   *)
(* a value that is none of the three is ordered like a SELL.                 *)
SignalTypes(t) ==
    CASE t.kind = "low" -> {"BUY"}
      [] t.kind = "high" -> {"SELL"}
      [] t.kind = "mid" -> {"HOLD"}
      [] OTHER -> SignalType

TakeTick(g, t) ==
    /\ md' = [md EXCEPT ![g] = t]
    /\ \E type \in SignalTypes(t) :
         IF type = "HOLD"
         THEN StrategyGoesTo(g, "loop") /\ UNCHANGED out
         ELSE /\ StrategyGoesTo(g, "push")
              /\ out' = [out EXCEPT ![g] = [tick |-> t, type |-> type]]
PopTick(g) ==
    /\ strpc[g] = "pop"
    /\ "md" \notin raced /\ mdQueue # <<>>
    /\ mdQueue' = Tail(mdQueue)
    /\ TakeTick(g, Head(mdQueue))
    /\ UNCHANGED <<serverVars, running, feed, initialized, netpc, hand, retries, raced, phantoms>>
    /\ UNCHANGED <<mainVars, signalsGenerated, sigQueue, exeVars, crashes>>

(* Two consumers: pop may find nothing, or anything. *)
RacedPopTick(g) ==
    /\ strpc[g] = "pop"
    /\ Race("md", strpc, g, {"pop"})
    /\ \/ MakeUp /\ TakeTick(g, Garbled)
       \/ StrategyGoesTo(g, "loop") /\ UNCHANGED <<md, out, phantoms>>
    /\ UNCHANGED <<serverVars, running, feed, initialized, netpc, hand, retries, mdQueue>>
    /\ UNCHANGED <<mainVars, signalsGenerated, sigQueue, exeVars, crashes>>

PushSignal(g) ==
    /\ strpc[g] = "push"
    /\ "sig" \notin raced /\ Len(sigQueue) < SigCap
    /\ sigQueue' = Append(sigQueue, out[g])
    /\ out' = [out EXCEPT ![g] = NoSignal]
    /\ StrategyGoesTo(g, "count")
    /\ UNCHANGED <<serverVars, feedVars, mainVars, md, signalsGenerated, exeVars, crashes>>

BuggyDropSignal(g) ==
    /\ strpc[g] = "push"
    /\ "sig" \notin raced /\ Len(sigQueue) = SigCap
    /\ out' = [out EXCEPT ![g] = NoSignal]
    /\ StrategyGoesTo(g, "count")
    /\ UNCHANGED <<serverVars, feedVars, mainVars, md, signalsGenerated, sigQueue, exeVars, crashes>>
DropSignal(g) ==
    /\ strpc[g] = "push"
    /\ "sig" \notin raced /\ Len(sigQueue) = SigCap
    /\ out' = [out EXCEPT ![g] = NoSignal]
    /\ StrategyGoesTo(g, "loop")
    /\ UNCHANGED <<serverVars, feedVars, mainVars, md, signalsGenerated, sigQueue, exeVars, crashes>>

RacedPushSignal(g) ==
    /\ strpc[g] = "push"
    /\ Race("sig", strpc, g, {"push"})
    /\ out' = [out EXCEPT ![g] = NoSignal]
    /\ StrategyGoesTo(g, "count") \/ StrategyGoesTo(g, "loop")
    /\ UNCHANGED <<serverVars, running, feed, initialized, netpc, hand, retries, mdQueue, phantoms>>
    /\ UNCHANGED <<mainVars, md, signalsGenerated, sigQueue, exeVars, crashes>>

CountSignal(g) ==
    /\ strpc[g] = "count"
    /\ signalsGenerated' = signalsGenerated + 1
    /\ StrategyGoesTo(g, "loop")
    /\ UNCHANGED <<serverVars, feedVars, mainVars, md, out, sigQueue, exeVars, crashes>>

StrategyStep(g) ==
    \/ CheckStrategy(g) \/ NoTick(g) \/ PopTick(g) \/ RacedPopTick(g)
    \/ PushSignal(g) \/ DropSignal(g) \/ RacedPushSignal(g) \/ CountSignal(g)

(***************************************************************************)
(* The execution thread.                                                   *)
(***************************************************************************)
ExecutionGoesTo(g, label) == exepc' = [exepc EXCEPT ![g] = label]

CheckExecution(g) ==
    /\ exepc[g] = "loop"
    /\ ExecutionGoesTo(g, IF running THEN "pop" ELSE "done")
    /\ UNCHANGED <<serverVars, feedVars, mainVars, strVars, sigQueue, signal, ordersSent, crashes>>

NothingToSend(g) ==
    /\ exepc[g] = "pop"
    /\ "sig" \notin raced /\ sigQueue = <<>>
    /\ ExecutionGoesTo(g, "loop")
    /\ UNCHANGED <<serverVars, feedVars, mainVars, strVars, sigQueue, signal, ordersSent, crashes>>

PopSignal(g) ==
    /\ exepc[g] = "pop"
    /\ "sig" \notin raced /\ sigQueue # <<>>
    /\ sigQueue' = Tail(sigQueue)
    /\ signal' = [signal EXCEPT ![g] = Head(sigQueue)]
    /\ ExecutionGoesTo(g, "send")
    /\ UNCHANGED <<serverVars, feedVars, mainVars, strVars, ordersSent, crashes>>

RacedPopSignal(g) ==
    /\ exepc[g] = "pop"
    /\ Race("sig", exepc, g, {"pop"})
    /\ \/ /\ MakeUp
          /\ signal' = [signal EXCEPT ![g] = [tick |-> Garbled, type |-> "SELL"]]
          /\ ExecutionGoesTo(g, "send")
       \/ ExecutionGoesTo(g, "loop") /\ UNCHANGED <<signal, phantoms>>
    /\ UNCHANGED <<serverVars, running, feed, initialized, netpc, hand, retries, mdQueue>>
    /\ UNCHANGED <<mainVars, strVars, sigQueue, ordersSent, crashes>>

(* _generate_order and the order's count; sending it is not written yet. *)
SendOrder(g) ==
    /\ exepc[g] = "send"
    /\ ordersSent' = ordersSent + 1
    /\ ExecutionGoesTo(g, "loop")
    /\ UNCHANGED <<serverVars, feedVars, mainVars, strVars, sigQueue, signal, crashes>>

ExecutionStep(g) ==
    \/ CheckExecution(g)
    \/ NothingToSend(g) \/ PopSignal(g) \/ RacedPopSignal(g)
    \/ SendOrder(g)

(***************************************************************************)
(* An exception in a thread's loop: its handler stops the client.          *)
(***************************************************************************)
Alive(threadpc, g) == threadpc[g] \notin {"none", "done"}

(* The handlers' m_client_running.store(false). *)
BuggyHandleException == UNCHANGED running
HandleException == running' = FALSE

Crash(g) ==
    /\ crashes < MaxCrashes
    /\ crashes' = crashes + 1
    /\ HandleException
    /\ \/ /\ Alive(netpc, g) /\ feed = "alive"
          /\ GoTo(g, "done") /\ UNCHANGED <<strpc, exepc>>
       \/ /\ Alive(strpc, g)
          /\ StrategyGoesTo(g, "done") /\ UNCHANGED <<netpc, exepc>>
       \/ /\ Alive(exepc, g)
          /\ ExecutionGoesTo(g, "done") /\ UNCHANGED <<netpc, strpc>>
    /\ UNCHANGED <<serverVars, feed, initialized, hand, retries, mdQueue, raced, phantoms>>
    /\ UNCHANGED <<mainVars, md, out, sigQueue, signalsGenerated, signal, ordersSent>>

(* The use of a client that another network thread has reset, or that two of *)
(* them reset at once, may also end the process.                             *)
Dead(threadpc) == [g \in Session |-> IF threadpc[g] = "none" THEN "none" ELSE "done"]
ProcessDies ==
    /\ \E g \in Session :
         \/ At(g, "stray")
         \/ At(g, "dial") /\ \E h \in Session \ {g} : netpc[h] = "dial"
    /\ FreeFeed
    /\ mainpc' = "killed"
    /\ running' = FALSE
    /\ netpc' = Dead(netpc) /\ strpc' = Dead(strpc) /\ exepc' = Dead(exepc)
    /\ UNCHANGED <<hand, retries, mdQueue, raced, phantoms, clientStarted, clientStopped, session>>
    /\ UNCHANGED <<md, out, signalsGenerated, sigQueue, signal, ordersSent, crashes>>

-----------------------------------------------------------------------------
NetworkThread(g) == NetworkStep(g) /\ UNCHANGED coreVars

Next ==
    \/ (ServerStep \/ Environment) /\ UNCHANGED <<feedVars, coreVars>>
    \/ MainStep \/ ProcessDies
    \/ \E g \in Session :
         \/ NetworkThread(g)
         \/ UseAfterReset(g) /\ UNCHANGED coreVars
         \/ StrategyStep(g) \/ ExecutionStep(g) \/ Crash(g)

MainGoesOn == StartStrategy \/ StartExecution \/ WorkReturns \/ (mainpc = "thrown" /\ StopClient)

(* The scheduler runs every thread that can take a step, the Controller's    *)
(* in work_client and from a throw to the destructor included; nobody        *)
(* promises that the server comes back, that ticks arrive or that the client *)
(* is stopped.                                                               *)
Spec ==
    /\ Init /\ [][Next]_vars
    /\ \A g \in Session :
         /\ WF_vars(NetworkThread(g))
         /\ WF_vars(StrategyStep(g))
         /\ WF_vars(ExecutionStep(g))
    /\ WF_vars(MainGoesOn)

-----------------------------------------------------------------------------
(* Properties. *)

TypeOK ==
    /\ srv \in {"down", "accept", "serving", "stale"} /\ link \in {"none", "up", "broken", "silent"}
    /\ stream \in Seq([tick : Tick, part : 1..2])
    /\ epoch \in 0..MaxServerCrashes /\ nextSeq \in 0..MaxTicks /\ breaks \in 0..MaxLinkBreaks
    /\ running \in BOOLEAN /\ feed \in {"none", "alive", "freed"} /\ initialized \in BOOLEAN
    /\ netpc \in [Session -> NetPc]
    /\ hand \in [Session -> AnyTick] /\ mdQueue \in Seq(AnyTick)
    /\ retries \in [Session -> 0..MaxRetries] /\ raced \subseteq {"md", "sig"} /\ phantoms \in 0..MaxPhantoms
    /\ clientStarted \in BOOLEAN /\ clientStopped \in BOOLEAN
    /\ session \in 0..MaxSessions
    /\ mainpc \in {"idle", "startStrategy", "startExecution", "joinExecution", "thrown",
                  "joinAll", "gone", "killed"}
    /\ strpc \in [Session -> {"none", "loop", "pop", "push", "count", "done"}]
    /\ md \in [Session -> AnyTick] /\ out \in [Session -> Signal]
    /\ sigQueue \in Seq(Signal)
    /\ exepc \in [Session -> {"none", "loop", "pop", "send", "done"}]
    /\ signal \in [Session -> Signal]
    /\ signalsGenerated \in Nat /\ ordersSent \in Nat /\ crashes \in 0..MaxCrashes

Before(s, t) == s.epoch < t.epoch \/ (s.epoch = t.epoch /\ s.seq < t.seq)
Increasing(s) == \A k \in 1..(Len(s) - 1) : Before(s[k], s[k + 1])
Ticks(halves) == [k \in 1..(Len(halves) \div 2) |-> halves[2 * k].tick]
Present(t) == IF t = None THEN <<>> ELSE <<t>>

(* Each tick reaches the strategy at most once and in the order the server  *)
(* made it, and makes at most one order: across reconnections, restarts of  *)
(* the server and full queues, for the threads of one session.              *)
TicksInOrder ==
    \A g \in Session :
        LET orders == <<signal[g].tick>> \o [k \in DOMAIN sigQueue |-> sigQueue[k].tick]
                        \o Present(out[g].tick)
        IN  /\ Increasing(<<md[g]>> \o mdQueue \o Present(hand[g]) \o Ticks(stream))
            /\ Increasing(orders)
            /\ ~Before(md[g], Last(orders))

(* The two statistics and the signal queue agree, up to the signal each     *)
(* thread is handling and those that crashed threads were handling: for as  *)
(* long as no two threads have been at one end of the signal queue at once, *)
(* through restarts too, and whatever has become of the tick queue.         *)
SignalAccounting == ("sig" \notin raced /\ mainpc # "killed") =>
    LET counting == Cardinality({g \in Session : strpc[g] = "count"})
        sending == Cardinality({g \in Session : exepc[g] = "send"})
        excess == (signalsGenerated + counting) - (ordersSent + Len(sigQueue) + sending)
    IN  excess \in (-crashes)..crashes

(* While the flag says running, no thread of the pipeline has ended: one    *)
(* that gives up or crashes takes the flag down with it.                    *)
RunningMeansAllThreads ==
    (running /\ mainpc = "idle") =>
        Alive(netpc, session) /\ Alive(strpc, session) /\ Alive(exepc, session)

(* Assigning to a jthread starts the new thread before it joins the old     *)
(* one.  Two threads of one kind, two producers or two consumers of a queue *)
(* for a single one, live side by side only while work_client waits in that *)
(* assignment, and they are those of consecutive sessions.                  *)
JoiningOld(g, places) == g = session - 1 /\ mainpc \in places
RolesOverlapOnlyAtJoin ==
    \A g, h \in Session : g < h =>
        /\ (Alive(netpc, g) /\ Alive(netpc, h)) => h = session /\ JoiningOld(g, {"startStrategy"})
        /\ (Alive(strpc, g) /\ Alive(strpc, h)) => h = session /\ JoiningOld(g, {"startExecution"})
        /\ (Alive(exepc, g) /\ Alive(exepc, h)) => h = session /\ JoiningOld(g, {"joinExecution"})

(* While the client is stopped, every step a thread takes, an exception or  *)
(* a failed dial included, leaves it fewer steps to its end: none of the    *)
(* loops in receive_loop, not the spin on a full queue and not the retries, *)
(* goes round again.                                                        *)
NetworkStepsLeft == [none |-> 6, recv |-> 5, stray |-> 4, dial |-> 4, retry |-> 3,
                     push |-> 3, again |-> 3, spin |-> 2, check |-> 2,
                     giveup |-> 1, loop |-> 1, done |-> 0]
StrategyStepsLeft == [none |-> 5, pop |-> 4, push |-> 3, count |-> 2, loop |-> 1, done |-> 0]
ExecutionStepsLeft == [none |-> 4, pop |-> 3, send |-> 2, loop |-> 1, done |-> 0]
GoesDown(left, threadpc, moved) ==
    \A g \in Session : moved[g] # threadpc[g] => left[moved[g]] < left[threadpc[g]]
ShutdownIsBounded ==
    [][~running /\ ~running' =>
          /\ GoesDown(NetworkStepsLeft, netpc, netpc')
          /\ GoesDown(StrategyStepsLeft, strpc, strpc')
          /\ GoesDown(ExecutionStepsLeft, exepc, exepc')]_vars

(* Once the client is stopped, or stops itself, the strategy and the        *)
(* execution thread end and none is left to start, whatever the network     *)
(* thread is blocked in.                                                    *)
WorkersEnded ==
    /\ ~Alive(strpc, MaxSessions) /\ ~Alive(exepc, MaxSessions)
    /\ mainpc \notin {"startStrategy", "startExecution"}
StopEndsWorkers == (~running /\ session = MaxSessions) ~> WorkersEnded

(* A loss of the connection that recv reports is followed by a new one or   *)
(* by the end of the client.  One that it never reports is not.             *)
LostLinkIsResolved == (running /\ link \in {"none", "broken"}) ~> (link = "up" \/ ~running)

(* The pipeline keeps moving: a received tick leaves the queue.             *)
Queued(e, n) == \E k \in DOMAIN mdQueue : mdQueue[k].epoch = e /\ mdQueue[k].seq = n
QueuedTicksAreHandled ==
    \A e \in 0..MaxServerCrashes, n \in 0..(MaxTicks - 1) :
        (running /\ Queued(e, n)) ~> (~Queued(e, n) \/ ~running)

(* "Lock-free single-producer, single-consumer queues": no two network      *)
(* threads are inside push of the market data queue.                        *)
SingleProducer ==
    \A g, h \in Session :
        ({netpc[g], netpc[h]} \subseteq {"push", "again"} /\ feed = "alive") => g = h

(* "Destructor should stop threads gracefully": the feed lives as long as   *)
(* a thread is in its receive_loop.                                         *)
ReceiverHasFeed == feed = "freed" => Ended(netpc)

(* "Parses into MarketData structs": what is queued is what was sent.       *)
ParsedTicksWereSent == Garbled \notin ToSet(mdQueue)

(* "Tight spread": a quote with a wide spread makes no signal.              *)
OnlyTightQuotesTrade == \A k \in DOMAIN sigQueue : sigQueue[k].tick.kind # "wide"

-----------------------------------------------------------------------------
(* What a client that is started once promises of its ticks and orders. *)

Place(t) == <<t.epoch, t.seq>>
Decided == {Place(t) : t \in ({s.tick : s \in ToSet(sigQueue)} \cup {out[1].tick}) \ {None}}
Life == IF session = 0 THEN "new" ELSE IF running THEN "on" ELSE "off"
Looking ==
    (IF strpc[1] = "pop" THEN {"strategy"} ELSE {}) \cup (IF exepc[1] = "pop" THEN {"execution"} ELSE {})

Pipeline == INSTANCE TickPipeline WITH
    made <- <<epoch, nextSeq>>,
    handled <- Place(md[1]),
    decided <- Decided,
    ordered <- Place(signal[1].tick),
    sending <- exepc[1] = "send",
    sent <- ordersSent,
    life <- Life,
    looking <- Looking

(* From tick to order the client is that pipeline, through reconnections,   *)
(* restarts of the server, full queues and crashed threads: nothing is      *)
(* handled or ordered twice or out of order, and a stop is final.           *)
ImplementsPipeline == Pipeline!Spec

-----------------------------------------------------------------------------
(* The inductive invariants behind them. *)

(* Dialling is within the limit. *)
DialsLeft == \A g \in Session : netpc[g] = "dial" => retries[g] < MaxRetries

(* A thread that work_client has not reached yet does not exist. *)
NotStarted ==
    \A g \in Session :
        /\ g > session => netpc[g] = "none"
        /\ (g > session \/ (g = session /\ mainpc = "startStrategy")) => strpc[g] = "none"
        /\ (g > session \/ (g = session /\ mainpc \in {"startStrategy", "startExecution"})) =>
             exepc[g] = "none"

(* The flag is down when the client is stopped and when the feed is gone;   *)
(* while it is up, the threads work_client has started are alive, unless it *)
(* was thrown out of before it had started all of them.                     *)
FlagMeansThreads ==
    /\ feed = "freed" => mainpc \in {"joinAll", "gone", "killed"} /\ ~running
    /\ mainpc \in {"joinAll", "gone"} => clientStopped
    /\ clientStopped => ~running
    /\ (running /\ mainpc # "thrown") =>
         /\ session > 0 /\ Alive(netpc, session)
         /\ mainpc # "startStrategy" => Alive(strpc, session)
         /\ mainpc \notin {"startStrategy", "startExecution"} => Alive(exepc, session)

(* A thread of an earlier session has ended, unless work_client is still to *)
(* join it, or was thrown out before it came to that.                       *)
NotJoined(g, threadpc, places) ==
    JoiningOld(g, places) \/ (JoiningOld(g, {"thrown", "joinAll"}) /\ threadpc[session] = "none")
OldThreadsEnded ==
    \A g \in 1..(session - 1) :
        /\ Alive(netpc, g) => JoiningOld(g, {"startStrategy"})
        /\ Alive(strpc, g) => NotJoined(g, strpc, {"startStrategy", "startExecution"})
        /\ Alive(exepc, g) =>
             NotJoined(g, exepc, {"startStrategy", "startExecution", "joinExecution"})

CoreInv == TypeOK /\ DialsLeft /\ NotStarted /\ FlagMeansThreads
=============================================================================
