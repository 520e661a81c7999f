--------------------------- MODULE CoreOrder_proofs ---------------------------
(***************************************************************************)
(* Ticks and orders keep the server's order, through reconnections,        *)
(* restarts of the server, full queues and crashed threads, for a client   *)
(* that is started once and whose recv returns whole ticks while the       *)
(* connection lives.                                                       *)
(***************************************************************************)
EXTENDS Core_proofs

USE ServerAssumption, FeedAssumption, CoreAssumption

StartedOnce == MaxSessions = 1 /\ ~PartialReads

(* What is where. *)
QueueTicks == {mdQueue[k] : k \in 1..Len(mdQueue)}
HandTicks == {hand[1]} \ {None}
StreamTicks == {stream[k].tick : k \in 1..Len(stream)}
SigTicks == {sigQueue[k].tick : k \in 1..Len(sigQueue)}
OutTicks == {out[1].tick} \ {None}

(* The tick the server makes next comes after all of them. *)
Now == [epoch |-> epoch, seq |-> nextSeq, kind |-> "none"]

AllBefore(A, B) == \A a \in A, b \in B : Before(a, b)
Sorted(s) == \A i, j \in 1..Len(s) : i < j => Before(s[i], s[j])
SortedSignals(s) == \A i, j \in 1..Len(s) : i < j => Before(s[i].tick, s[j].tick)

(* The stream is a sequence of whole ticks, but for a half at the end of a  *)
(* connection that was cut.                                                 *)
WholeTicks ==
    /\ Len(stream) > 0 => stream[1].part = 1
    /\ \A i \in 1..(Len(stream) - 1) :
         /\ stream[i].part = 1 => stream[i + 1].part = 2 /\ stream[i + 1].tick = stream[i].tick
         /\ stream[i].part = 2 => stream[i + 1].part = 1
    /\ (link = "up" /\ Len(stream) > 0) => stream[Len(stream)].part = 2
    /\ \A i, j \in 1..Len(stream) :
         i < j => \/ Before(stream[i].tick, stream[j].tick)
                  \/ j = i + 1 /\ stream[i].part = 1

PipeInv ==
    /\ QueueTicks \subseteq Tick /\ md[1] \in Tick \cup {None} /\ hand[1] \in Tick \cup {None}
    /\ netpc[1] \in {"push", "spin", "again"} => hand[1] # None
    /\ Sorted(mdQueue)
    /\ AllBefore({md[1]}, QueueTicks \cup HandTicks \cup StreamTicks)
    /\ AllBefore(QueueTicks, HandTicks \cup StreamTicks)
    /\ AllBefore(HandTicks, StreamTicks)
    /\ AllBefore({md[1]} \cup QueueTicks \cup HandTicks \cup StreamTicks, {Now})

SignalInv ==
    /\ SigTicks \subseteq Tick
    /\ out[1].tick \in Tick \cup {None} /\ signal[1].tick \in Tick \cup {None}
    /\ strpc[1] = "push" => out[1].tick # None
    /\ SortedSignals(sigQueue)
    /\ AllBefore({signal[1].tick}, SigTicks \cup OutTicks)
    /\ AllBefore(SigTicks, OutTicks)
    /\ \A t \in {signal[1].tick} \cup SigTicks \cup OutTicks : ~Before(md[1], t)

TickOrder == WholeTicks /\ PipeInv /\ SignalInv
-----------------------------------------------------------------------------
(* The threads of a single session race with none of their kind. *)
Undamaged == raced = {} /\ netpc[1] # "stray"

LEMMA OneSession == StartedOnce => Session = {1}
BY DEF StartedOnce, Session

LEMMA NoDamage ==
  ASSUME StartedOnce, Undamaged, NEW g \in Session
  PROVE  /\ ~RacedPush(g) /\ ~RacedPopTick(g) /\ ~RacedPushSignal(g) /\ ~RacedPopSignal(g)
         /\ ~StrayFails(g) /\ ~StrayReturns(g) /\ ~ProcessDies
<1>1. Session = {1} /\ g = 1 BY OneSession
<1>2. \A queue, threadpc, places : ~Race(queue, threadpc, g, places)
  BY <1>1 DEF Race, Undamaged
<1>3. ~RacedPush(g) /\ ~RacedPopTick(g) /\ ~RacedPushSignal(g) /\ ~RacedPopSignal(g)
  BY <1>2 DEF RacedPush, RacedPopTick, RacedPushSignal, RacedPopSignal
<1>4. ~StrayFails(g) /\ ~StrayReturns(g) BY <1>1 DEF StrayFails, StrayReturns, At, Undamaged
<1>5. ~ProcessDies BY <1>1 DEF ProcessDies, At, Undamaged
<1> QED BY <1>3, <1>4, <1>5

LEMMA SoleReset ==
  ASSUME StartedOnce, TypeOK, NEW g \in Session, NEW label, ResetClient(g, label)
  PROVE  netpc' = [netpc EXCEPT ![g] = label]
<1>1. Session = {1} /\ g = 1 /\ netpc \in [{1} -> NetPc] BY OneSession DEF TypeOK
<1> QED BY <1>1 DEF ResetClient

LEMMA UndamagedHolds ==
  ASSUME StartedOnce, TypeOK, Undamaged, [Next]_vars
  PROVE  Undamaged'
<1>1. /\ Session = {1} /\ netpc \in [{1} -> NetPc] /\ raced = {} /\ netpc[1] # "stray"
  BY OneSession DEF TypeOK, Undamaged
<1> DEFINE Goal == Undamaged'
<1>2. ASSUME UNCHANGED <<raced, netpc>> PROVE Goal BY <1>1, <1>2 DEF Undamaged
<1>3. ASSUME NEW label, label # "stray", netpc' = [netpc EXCEPT ![1] = label], raced' = raced
      PROVE  Goal
  BY <1>1, <1>3 DEF Undamaged
<1>4. ASSUME (ServerStep \/ Environment) /\ UNCHANGED <<feedVars, coreVars>> PROVE Goal
  BY <1>2, <1>4 DEF feedVars
<1>5. ASSUME MainStep PROVE Goal
  <2> USE DEF feedVars
  <2>1. CASE WorkClient
    <3>1. netpc' = [netpc EXCEPT ![session + 1] = "loop"] /\ raced' = raced
      BY <2>1 DEF WorkClient, GoTo
    <3>2. netpc'[1] # "stray" BY <1>1, <3>1
    <3> QED BY <1>1, <3>1, <3>2 DEF Undamaged
  <2>2. CASE ~WorkClient
    BY <1>2, <1>5, <2>2 DEF MainStep, InitializeClient, StartStrategy, StartExecution, ThreadFails,
      WorkReturns, StopClient, Destroy, JoinAll
  <2> QED BY <2>1, <2>2
<1>6. ASSUME NEW g \in Session, NetworkStep(g) PROVE Goal
  <2>1. g = 1 BY <1>1
  <2>2. CASE Reconnect(g) \/ ReconnectFails(g) \/ RecvFails(g)
    <3>1. raced' = raced /\ \E label \in {"check", "retry", "loop"} : ResetClient(g, label)
      BY <2>2 DEF Reconnect, ReconnectFails, RecvFails, DropClient
    <3>2. PICK label \in {"check", "retry", "loop"} : netpc' = [netpc EXCEPT ![g] = label]
      BY <3>1, SoleReset
    <3> QED BY <1>3, <2>1, <3>1, <3>2
  <2>3. CASE ~(Reconnect(g) \/ ReconnectFails(g) \/ RecvFails(g))
    <3>1. /\ raced' = raced
          /\ \E label \in NetPc \ {"stray"} : netpc' = [netpc EXCEPT ![g] = label]
      BY <1>6, <2>3, NoDamage
      DEF NetworkStep, CheckRunning, CheckRetry, EndRetries, CheckClient, GiveUp, RecvPartial,
          RecvTick, Push, QueueFull, SpinAgain, DropTick, GoTo, NetPc
    <3> QED BY <1>3, <2>1, <3>1
  <2> QED BY <2>2, <2>3
<1>7. ASSUME NEW g \in Session, UseAfterReset(g) PROVE Goal
  <2>1. ReturnFromFreed(g) BY <1>7, NoDamage DEF UseAfterReset
  <2>2. netpc' = [netpc EXCEPT ![g] = "done"] /\ raced' = raced /\ g = 1
    BY <1>1, <2>1 DEF ReturnFromFreed, GoTo
  <2> QED BY <1>3, <2>2
<1>8. ASSUME NEW g \in Session, StrategyStep(g) PROVE Goal
  BY <1>2, <1>8, NoDamage
  DEF StrategyStep, CheckStrategy, NoTick, PopTick, PushSignal, DropSignal, CountSignal, feedVars
<1>9. ASSUME NEW g \in Session, ExecutionStep(g) PROVE Goal
  BY <1>2, <1>9, NoDamage
  DEF ExecutionStep, CheckExecution, NothingToSend, PopSignal, SendOrder, feedVars
<1>10. ASSUME NEW g \in Session, Crash(g) PROVE Goal
  <2>1. g = 1 /\ raced' = raced /\ (netpc' = netpc \/ netpc' = [netpc EXCEPT ![g] = "done"])
    BY <1>1, <1>10 DEF Crash, GoTo
  <2> QED BY <1>2, <1>3, <2>1
<1>11. ASSUME UNCHANGED vars PROVE Goal BY <1>2, <1>11 DEF vars, feedVars
<1>12. ~ProcessDies
  <2>1. 1 \in Session BY <1>1
  <2> QED BY <2>1, NoDamage
<1> HIDE DEF Goal
<1>13. Goal
  BY <1>4, <1>5, <1>6, <1>7, <1>8, <1>9, <1>10, <1>11, <1>12 DEF Next, NetworkThread
<1> QED BY <1>13 DEF Goal

-----------------------------------------------------------------------------
(* The order of ticks. *)
Stamped == [epoch : Int, seq : Int, kind : AllKinds \cup {"none", "garbled"}]

LEMMA Stamps ==
  /\ Tick \subseteq Stamped /\ None \in Stamped /\ None \notin Tick
  /\ TypeOK => Now \in Stamped
  /\ \A t \in Tick : Before(None, t)
<1>1. Tick \subseteq Stamped BY DEF Tick, Stamped
<1>2. None \in Stamped BY DEF None, Stamped
<1>3. None.epoch = -1 BY DEF None
<1>4. \A t \in Tick : t.epoch >= 0 BY DEF Tick
<1>5. None \notin Tick BY <1>3, <1>4
<1>6. TypeOK => Now \in Stamped BY DEF TypeOK, Now, Stamped
<1>7. \A t \in Tick : Before(None, t) BY <1>3, <1>4 DEF Before, Tick
<1> QED BY <1>1, <1>2, <1>5, <1>6, <1>7

LEMMA BeforeFacts ==
  \A a, b, c \in Stamped :
    /\ Before(a, b) /\ Before(b, c) => Before(a, c)
    /\ ~Before(b, a) /\ Before(b, c) => Before(a, c)
    /\ ~Before(a, a)
BY DEF Stamped, Before

(* Now never goes back. *)
LEMMA NowAdvances ==
  ASSUME TypeOK,
         \/ epoch' = epoch /\ nextSeq' \in {nextSeq, nextSeq + 1}
         \/ epoch' = epoch + 1 /\ nextSeq' = 0
  PROVE  /\ Now' \in Stamped
         /\ \A t \in Stamped : Before(t, Now) => Before(t, Now')
<1>1. epoch \in Nat /\ nextSeq \in Nat BY DEF TypeOK
<1>2. /\ Now.epoch = epoch /\ Now.seq = nextSeq /\ Now'.epoch = epoch' /\ Now'.seq = nextSeq'
      /\ Now' \in Stamped
  BY <1>1 DEF Now, Stamped
<1>3. ASSUME NEW t \in Stamped, Before(t, Now) PROVE Before(t, Now')
  <2>1. t.epoch \in Int /\ t.seq \in Int BY DEF Stamped
  <2>2. t.epoch < epoch \/ (t.epoch = epoch /\ t.seq < nextSeq) BY <1>2, <1>3 DEF Before
  <2>3. t.epoch < epoch' \/ (t.epoch = epoch' /\ t.seq < nextSeq') BY <1>1, <2>1, <2>2
  <2> QED BY <1>2, <2>3 DEF Before
<1> QED BY <1>2, <1>3

-----------------------------------------------------------------------------
(* The stream. *)
Half == [tick : Tick, part : 1..2]

LEMMA StreamType ==
  ASSUME TypeOK
  PROVE  /\ stream \in Seq(Half) /\ Len(stream) \in Nat
         /\ \A k \in 1..Len(stream) :
              stream[k] \in Half /\ stream[k].tick \in Tick /\ stream[k].part \in {1, 2}
         /\ StreamTicks \subseteq Tick
<1>1. stream \in Seq(Half) BY DEF TypeOK, Half
<1>2. Len(stream) \in Nat /\ \A k \in 1..Len(stream) : stream[k] \in Half
  BY <1>1, LenProperties, ElementOfSeq
<1>3. \A h \in Half : h.tick \in Tick /\ h.part \in {1, 2} BY DEF Half
<1>4. StreamTicks \subseteq Tick BY <1>2, <1>3 DEF StreamTicks
<1> QED BY <1>1, <1>2, <1>3, <1>4

LEMMA EmptyStream ==
  ASSUME stream' = <<>>
  PROVE  WholeTicks' /\ StreamTicks' = {}
<1>1. Len(stream') = 0 BY EmptySeq
<1> QED BY <1>1 DEF WholeTicks, StreamTicks

LEMMA SameStream ==
  ASSUME WholeTicks, stream' = stream, link' = "up" => link = "up"
  PROVE  WholeTicks' /\ StreamTicks' = StreamTicks
BY DEF WholeTicks, StreamTicks

LEMMA CutStream ==
  ASSUME TypeOK, WholeTicks, Cut
  PROVE  WholeTicks' /\ StreamTicks' \subseteq StreamTicks
<1>1. PICK n \in 0..Len(stream) : stream' = SubSeq(stream, 1, n) BY DEF Cut
<1>2. Len(stream') = n /\ \A k \in 1..n : stream'[k] = stream[k]
  BY <1>1, StreamType, PrefixProperties
<1>3. link' # "up" BY DEF Cut
<1>4. n \in Nat /\ Len(stream) \in Nat /\ n <= Len(stream) BY <1>1, StreamType
<1>5. StreamTicks' \subseteq StreamTicks BY <1>2, <1>4 DEF StreamTicks
<1>6. Len(stream') > 0 => stream'[1].part = 1
  <2>1. n > 0 => Len(stream) > 0 /\ 1 \in 1..n BY <1>4
  <2> QED BY <1>2, <2>1 DEF WholeTicks
<1>7. ASSUME NEW i \in 1..(Len(stream') - 1)
      PROVE  /\ stream'[i].part = 1 => stream'[i + 1].part = 2 /\ stream'[i + 1].tick = stream'[i].tick
             /\ stream'[i].part = 2 => stream'[i + 1].part = 1
  <2>1. i \in 1..(Len(stream) - 1) /\ stream'[i] = stream[i] /\ stream'[i + 1] = stream[i + 1]
    BY <1>2, <1>4
  <2> QED BY <2>1 DEF WholeTicks
<1>8. ASSUME NEW i \in 1..Len(stream'), NEW j \in 1..Len(stream'), i < j
      PROVE  \/ Before(stream'[i].tick, stream'[j].tick)
             \/ j = i + 1 /\ stream'[i].part = 1
  <2>1. /\ i \in 1..Len(stream) /\ j \in 1..Len(stream)
        /\ stream'[i] = stream[i] /\ stream'[j] = stream[j]
    BY <1>2, <1>4
  <2> QED BY <1>8, <2>1 DEF WholeTicks
<1> QED BY <1>3, <1>5, <1>6, <1>7, <1>8 DEF WholeTicks

(* A tick that is sent comes after all that are there, with both halves.    *)
LEMMA GrownStream ==
  ASSUME TypeOK, WholeTicks, PipeInv, NEW kind \in Kinds, SendTick(kind)
  PROVE  LET t == [epoch |-> epoch, seq |-> nextSeq, kind |-> kind]
         IN  WholeTicks' /\ StreamTicks' = StreamTicks \cup {t}
<1> DEFINE t == [epoch |-> epoch, seq |-> nextSeq, kind |-> kind]
           n == Len(stream)
<1>1. t \in Tick /\ t \in Stamped BY Stamps DEF TypeOK, Tick, SendTick
<1>2. stream \in Seq(Half) /\ Halves(t) \in Seq(Half) /\ Len(Halves(t)) = 2
      /\ Halves(t)[1] = [tick |-> t, part |-> 1] /\ Halves(t)[2] = [tick |-> t, part |-> 2]
  BY <1>1, StreamType DEF Halves, Half
<1>3. stream' = stream \o Halves(t) /\ link = "up" /\ link' = link BY DEF SendTick
<1>4. /\ n \in Nat /\ Len(stream') = n + 2
      /\ \A k \in 1..n : stream'[k] = stream[k]
      /\ stream'[n + 1].tick = t /\ stream'[n + 1].part = 1
      /\ stream'[n + 2].tick = t /\ stream'[n + 2].part = 2
  <2> DEFINE b == Halves(t)
  <2>0. stream \in Seq(Half) /\ b \in Seq(Half) /\ Len(b) = 2 /\ stream' = stream \o b
    BY <1>2, <1>3
  <2> HIDE DEF b
  <2>5. /\ Len(stream \o b) = Len(stream) + Len(b)
         /\ \A k \in 1..Len(stream) + Len(b) :
              (stream \o b)[k] = IF k <= Len(stream) THEN stream[k] ELSE b[k - Len(stream)]
    BY <2>0, ConcatProperties
  <2>1. Len(stream') = n + 2 /\ n \in Nat BY <2>0, <2>5, StreamType
  <2>2. \A k \in 1..(n + 2) : stream'[k] = IF k <= n THEN stream[k] ELSE Halves(t)[k - n]
    BY <2>0, <2>5 DEF b
  <2>3. \A k \in 1..n : stream'[k] = stream[k]
    <3>1. \A k \in 1..n : k \in 1..(n + 2) /\ k <= n BY <2>1
    <3> QED BY <2>2, <3>1
  <2>4. stream'[n + 1] = Halves(t)[1] /\ stream'[n + 2] = Halves(t)[2]
    <3>1. /\ n + 1 \in 1..(n + 2) /\ n + 2 \in 1..(n + 2) /\ ~(n + 1 <= n) /\ ~(n + 2 <= n)
          /\ (n + 1) - n = 1 /\ (n + 2) - n = 2
      BY <2>1
    <3> QED BY <2>2, <3>1
  <2> HIDE DEF t
  <2> QED BY <1>2, <2>1, <2>3, <2>4
<1> HIDE DEF t, n
<1>5. StreamTicks = {stream[k].tick : k \in 1..n} /\ StreamTicks' = {stream'[k].tick : k \in 1..(n + 2)}
  BY <1>4 DEF StreamTicks, n
<1>6. StreamTicks' = StreamTicks \cup {t}
  <2>1. \A k \in 1..(n + 2) : k \in 1..n \/ k = n + 1 \/ k = n + 2 BY <1>4
  <2>2. n + 1 \in 1..(n + 2) /\ \A k \in 1..n : k \in 1..(n + 2) BY <1>4
  <2>3. ASSUME NEW k \in 1..(n + 2) PROVE stream'[k].tick \in StreamTicks \cup {t}
    <3>1. CASE k \in 1..n BY <1>4, <1>5, <3>1
    <3> QED BY <1>4, <2>1, <3>1
  <2>4. t \in StreamTicks' BY <1>4, <1>5, <2>2
  <2>5. ASSUME NEW k \in 1..n PROVE stream[k].tick \in StreamTicks' BY <1>4, <1>5, <2>2
  <2>6. StreamTicks' \subseteq StreamTicks \cup {t} BY <1>5, <2>3
  <2>7. StreamTicks \subseteq StreamTicks' BY <1>5, <2>5
  <2> QED BY <2>4, <2>6, <2>7
<1>7. \A k \in 1..n : Before(stream[k].tick, t)
  <2>1. \A k \in 1..n : Before(stream[k].tick, Now) BY <1>5 DEF PipeInv, AllBefore
  <2>2. Now.epoch = t.epoch /\ Now.seq = t.seq BY DEF Now, t
  <2> QED BY <2>1, <2>2 DEF Before
<1>8. Len(stream') > 0 => stream'[1].part = 1
  <2>1. CASE n = 0 BY <1>4, <2>1
  <2>2. CASE n > 0
    <3>1. stream[1].part = 1 BY <2>2 DEF WholeTicks, n
    <3>2. 1 \in 1..n BY <1>4, <2>2
    <3> QED BY <1>4, <3>1, <3>2
  <2> QED BY <1>4, <2>1, <2>2
<1>9. ASSUME NEW i \in 1..(Len(stream') - 1)
      PROVE  /\ stream'[i].part = 1 => stream'[i + 1].part = 2 /\ stream'[i + 1].tick = stream'[i].tick
             /\ stream'[i].part = 2 => stream'[i + 1].part = 1
  <2>1. CASE i < n
    <3>0. n \in Nat /\ i \in Nat /\ i >= 1 BY <1>4
    <3>1. i \in 1..(n - 1) /\ stream'[i] = stream[i] /\ stream'[i + 1] = stream[i + 1]
      <4>1. i \in 1..(n - 1) /\ i \in 1..n /\ i + 1 \in 1..n BY <2>1, <3>0
      <4> QED BY <1>4, <4>1
    <3> QED BY <3>1 DEF WholeTicks, n
  <2>2. CASE i = n
    <3>1. stream[n].part = 2 BY <1>3, <1>4, <2>2 DEF WholeTicks, n
    <3> QED BY <1>4, <2>2, <3>1
  <2>3. CASE i = n + 1 BY <1>4, <2>3
  <2> QED BY <1>4, <2>1, <2>2, <2>3
<1>10. ASSUME NEW i \in 1..Len(stream'), NEW j \in 1..Len(stream'), i < j
       PROVE  \/ Before(stream'[i].tick, stream'[j].tick)
              \/ j = i + 1 /\ stream'[i].part = 1
  <2>1. CASE j <= n
    <3>1. /\ i \in 1..n /\ j \in 1..n /\ stream'[i] = stream[i] /\ stream'[j] = stream[j]
      BY <1>4, <1>10, <2>1
    <3> QED BY <1>10, <3>1 DEF WholeTicks, n
  <2>2. CASE i <= n /\ j > n
    <3>0. i \in 1..n /\ j \in {n + 1, n + 2}
      <4>1. n \in Nat /\ i \in 1..(n + 2) /\ j \in 1..(n + 2) BY <1>4
      <4> QED BY <2>2, <4>1
    <3>1. stream'[i] = stream[i] /\ stream'[j].tick = t
      <4>1. stream'[i] = stream[i] BY <1>4, <3>0
      <4>2. CASE j = n + 1 BY <1>4, <4>1, <4>2
      <4>3. CASE j = n + 2 BY <1>4, <4>1, <4>3
      <4> QED BY <3>0, <4>2, <4>3
    <3> QED BY <1>7, <3>0, <3>1
  <2>3. CASE i > n BY <1>4, <1>10, <2>3
  <2> QED BY <1>4, <1>10, <2>1, <2>2, <2>3
<1>11. stream'[Len(stream')].part = 2 BY <1>4
<1> QED BY <1>6, <1>8, <1>9, <1>10, <1>11 DEF WholeTicks, t

(* The receiver takes a whole tick, and what follows it comes after it. *)
LEMMA TakenTick ==
  ASSUME TypeOK, WholeTicks, Len(stream) >= 2,
         stream' = SubSeq(stream, 3, Len(stream)), link' = link
  PROVE  /\ Parse(stream[1], stream[2]) = stream[1].tick
         /\ stream[1].tick \in StreamTicks
         /\ WholeTicks' /\ StreamTicks' \subseteq StreamTicks
         /\ AllBefore({stream[1].tick}, StreamTicks')
<1> DEFINE n == Len(stream)
<1>1. n \in Nat /\ n >= 2 /\ stream \in Seq(Half)
      /\ \A k \in 1..n : stream[k].part \in {1, 2}
  BY StreamType
<1>2. stream[1].part = 1 /\ stream[2].part = 2 /\ stream[2].tick = stream[1].tick
  <2>1. Len(stream) \in Nat /\ Len(stream) >= 2 BY <1>1
  <2>2. Len(stream) > 0 /\ 1 \in 1..(Len(stream) - 1) /\ 1 + 1 = 2 BY <2>1
  <2>3. stream[1].part = 1 BY <2>2 DEF WholeTicks
  <2>4. stream[1].part = 1 => stream[1 + 1].part = 2 /\ stream[1 + 1].tick = stream[1].tick
    BY <2>2, Zenon DEF WholeTicks
  <2> QED BY <2>2, <2>3, <2>4
<1>3. Parse(stream[1], stream[2]) = stream[1].tick BY <1>2 DEF Parse
<1>4. Len(stream') = n - 2 /\ \A k \in 1..(n - 2) : stream'[k] = stream[k + 2]
  <2>1. n \in Int /\ 3 \in Int BY <1>1
  <2>2. \A k \in 3..n : stream[k] \in Half BY <1>1, StreamType
  <2> HIDE DEF n
  <2>3. /\ Len(SubSeq(stream, 3, n)) = IF 3 <= n THEN n - 3 + 1 ELSE 0
        /\ \A k \in 1..(n - 3 + 1) : SubSeq(stream, 3, n)[k] = stream[3 + k - 1]
    BY <2>1, <2>2, SubSeqProperties
  <2>4. stream' = SubSeq(stream, 3, n) BY DEF n
  <2> QED BY <1>1, <2>3, <2>4
<1> HIDE DEF n
<1>5. StreamTicks = {stream[k].tick : k \in 1..n} /\ StreamTicks' = {stream'[k].tick : k \in 1..(n - 2)}
  BY <1>4 DEF StreamTicks, n
<1>6. stream[1].tick \in StreamTicks BY <1>1, <1>5
<1>7. StreamTicks' \subseteq StreamTicks
  <2>1. \A k \in 1..(n - 2) : k + 2 \in 1..n /\ stream'[k] = stream[k + 2] BY <1>1, <1>4
  <2> QED BY <1>5, <2>1
<1>8. AllBefore({stream[1].tick}, StreamTicks')
  <2>1. ASSUME NEW k \in 1..(n - 2) PROVE Before(stream[1].tick, stream'[k].tick)
    <3>1. 1 \in 1..n /\ k + 2 \in 1..n /\ 1 < k + 2 /\ k + 2 # 1 + 1 BY <1>1
    <3>2. Before(stream[1].tick, stream[k + 2].tick) BY <3>1 DEF WholeTicks, n
    <3> QED BY <1>4, <3>2
  <2> QED BY <1>5, <2>1 DEF AllBefore
<1>9. Len(stream') > 0 => stream'[1].part = 1
  <2> SUFFICES ASSUME n > 2 PROVE stream'[1].part = 1 BY <1>1, <1>4
  <2>1. 2 \in 1..(n - 1) /\ 1 \in 1..(n - 2) BY <1>1
  <2>2. stream[3].part = 1 BY <1>2, <2>1 DEF WholeTicks, n
  <2> QED BY <1>4, <2>1, <2>2
<1>10. ASSUME NEW i \in 1..(Len(stream') - 1)
       PROVE  /\ stream'[i].part = 1 => stream'[i + 1].part = 2 /\ stream'[i + 1].tick = stream'[i].tick
              /\ stream'[i].part = 2 => stream'[i + 1].part = 1
  <2> DEFINE m == Len(stream')
  <2>1. m = n - 2 BY <1>4
  <2>2. i \in 1..(m - 1) OBVIOUS
  <2> HIDE DEF m
  <2>3. i \in Int /\ 1 <= i /\ i <= n - 3 BY <1>1, <2>1, <2>2
  <2>4. i \in 1..(n - 2) /\ i + 1 \in 1..(n - 2) /\ i + 2 \in 1..(n - 1) BY <1>1, <2>3
  <2>5. (i + 1) + 2 = (i + 2) + 1 BY <2>3
  <2>6. stream'[i] = stream[i + 2] /\ stream'[i + 1] = stream[(i + 2) + 1]
    BY <1>4, <2>4, <2>5
  <2>7. /\ stream[i + 2].part = 1 => /\ stream[(i + 2) + 1].part = 2
                                    /\ stream[(i + 2) + 1].tick = stream[i + 2].tick
        /\ stream[i + 2].part = 2 => stream[(i + 2) + 1].part = 1
    <3>1. \A k \in 1..(n - 1) :
            /\ stream[k].part = 1 => stream[k + 1].part = 2 /\ stream[k + 1].tick = stream[k].tick
            /\ stream[k].part = 2 => stream[k + 1].part = 1
      BY DEF WholeTicks, n
    <3> QED BY <2>4, <3>1
  <2> QED BY <2>6, <2>7
<1>11. ASSUME NEW i \in 1..Len(stream'), NEW j \in 1..Len(stream'), i < j
       PROVE  \/ Before(stream'[i].tick, stream'[j].tick)
              \/ j = i + 1 /\ stream'[i].part = 1
  <2>1. /\ i + 2 \in 1..n /\ j + 2 \in 1..n /\ i + 2 < j + 2
        /\ stream'[i] = stream[i + 2] /\ stream'[j] = stream[j + 2]
    <3>1. i \in 1..(n - 2) /\ j \in 1..(n - 2) BY <1>1, <1>4
    <3>2. stream'[i] = stream[i + 2] /\ stream'[j] = stream[j + 2] BY <1>4, <3>1
    <3>3. i + 2 \in 1..n /\ j + 2 \in 1..n /\ i + 2 < j + 2 BY <1>1, <1>11, <3>1
    <3> QED BY <3>2, <3>3
  <2>2. \/ Before(stream[i + 2].tick, stream[j + 2].tick)
        \/ j + 2 = (i + 2) + 1 /\ stream[i + 2].part = 1
    BY <2>1 DEF WholeTicks, n
  <2>3. j + 2 = (i + 2) + 1 => j = i + 1 BY <1>1, <1>4
  <2> QED BY <2>1, <2>2, <2>3
<1>12. (link' = "up" /\ Len(stream') > 0) => stream'[Len(stream')].part = 2
  <2> SUFFICES ASSUME link = "up", n > 2 PROVE stream'[n - 2].part = 2 BY <1>1, <1>4
  <2>1. n - 2 \in 1..(n - 2) /\ (n - 2) + 2 = n BY <1>1
  <2>2. stream'[n - 2] = stream[n] BY <1>4, <2>1
  <2> QED BY <1>1, <2>2 DEF WholeTicks, n
<1> QED BY <1>3, <1>6, <1>7, <1>8, <1>9, <1>10, <1>11, <1>12 DEF WholeTicks

-----------------------------------------------------------------------------
(* The two queues. *)

LEMMA QueuePopped ==
  ASSUME TypeOK, PipeInv, mdQueue # <<>>, mdQueue' = Tail(mdQueue)
  PROVE  /\ Head(mdQueue) \in QueueTicks /\ QueueTicks' \subseteq QueueTicks
         /\ AllBefore({Head(mdQueue)}, QueueTicks') /\ Sorted(mdQueue')
<1> DEFINE n == Len(mdQueue)
<1>1. mdQueue \in Seq(AnyTick) BY DEF TypeOK
<1>2. /\ n \in Nat /\ n > 0 /\ Head(mdQueue) = mdQueue[1] /\ Len(mdQueue') = n - 1
      /\ \A k \in 1..(n - 1) : mdQueue'[k] = mdQueue[k + 1]
  BY <1>1
<1> HIDE DEF n
<1>3. QueueTicks = {mdQueue[k] : k \in 1..n} /\ QueueTicks' = {mdQueue'[k] : k \in 1..(n - 1)}
  BY <1>2 DEF QueueTicks, n
<1>4. \A i, j \in 1..n : i < j => Before(mdQueue[i], mdQueue[j]) BY DEF PipeInv, Sorted, n
<1>5. \A k \in 1..(n - 1) : k + 1 \in 1..n /\ 1 \in 1..n /\ 1 < k + 1 BY <1>2
<1>6. Head(mdQueue) \in QueueTicks
  <2>1. 1 \in 1..n BY <1>2
  <2> QED BY <1>2, <1>3, <2>1
<1>7. QueueTicks' \subseteq QueueTicks BY <1>2, <1>3, <1>5
<1>8. AllBefore({Head(mdQueue)}, QueueTicks') BY <1>2, <1>3, <1>4, <1>5 DEF AllBefore
<1>9. ASSUME NEW i \in 1..(n - 1), NEW j \in 1..(n - 1), i < j PROVE Before(mdQueue'[i], mdQueue'[j])
  <2>1. i + 1 \in 1..n /\ j + 1 \in 1..n /\ i + 1 < j + 1 BY <1>2, <1>9
  <2> QED BY <1>2, <1>4, <2>1
<1> QED BY <1>2, <1>6, <1>7, <1>8, <1>9 DEF Sorted

LEMMA QueuePushed ==
  ASSUME TypeOK, PipeInv, NEW t \in Tick, AllBefore(QueueTicks, {t}), mdQueue' = Append(mdQueue, t)
  PROVE  QueueTicks' = QueueTicks \cup {t} /\ Sorted(mdQueue')
<1> DEFINE n == Len(mdQueue)
<1>1. mdQueue \in Seq(AnyTick) /\ t \in AnyTick BY DEF TypeOK, AnyTick
<1>2. /\ n \in Nat /\ Len(mdQueue') = n + 1 /\ mdQueue'[n + 1] = t
      /\ \A k \in 1..n : mdQueue'[k] = mdQueue[k]
  BY <1>1, AppendProperties
<1> HIDE DEF n
<1>3. QueueTicks = {mdQueue[k] : k \in 1..n} /\ QueueTicks' = {mdQueue'[k] : k \in 1..(n + 1)}
  BY <1>2 DEF QueueTicks, n
<1>4. \A k \in 1..(n + 1) : k \in 1..n \/ k = n + 1 BY <1>2
<1>5. n + 1 \in 1..(n + 1) /\ \A k \in 1..n : k \in 1..(n + 1) BY <1>2
<1>6. QueueTicks' = QueueTicks \cup {t} BY <1>2, <1>3, <1>4, <1>5
<1>7. \A i, j \in 1..n : i < j => Before(mdQueue[i], mdQueue[j]) BY DEF PipeInv, Sorted, n
<1>8. \A k \in 1..n : Before(mdQueue[k], t) BY <1>3 DEF AllBefore
<1>9. ASSUME NEW i \in 1..(n + 1), NEW j \in 1..(n + 1), i < j PROVE Before(mdQueue'[i], mdQueue'[j])
  <2>1. i \in 1..n BY <1>2, <1>9
  <2>2. CASE j \in 1..n BY <1>2, <1>7, <1>9, <2>1, <2>2
  <2>3. CASE j = n + 1 BY <1>2, <1>8, <2>1, <2>3
  <2> QED BY <1>4, <2>2, <2>3
<1> QED BY <1>2, <1>6, <1>9 DEF Sorted

LEMMA SignalPopped ==
  ASSUME TypeOK, SignalInv, sigQueue # <<>>, sigQueue' = Tail(sigQueue)
  PROVE  /\ Head(sigQueue).tick \in SigTicks /\ SigTicks' \subseteq SigTicks
         /\ AllBefore({Head(sigQueue).tick}, SigTicks') /\ SortedSignals(sigQueue')
<1> DEFINE n == Len(sigQueue)
<1>1. sigQueue \in Seq(Signal) BY DEF TypeOK
<1>2. /\ n \in Nat /\ n > 0 /\ Head(sigQueue) = sigQueue[1] /\ Len(sigQueue') = n - 1
      /\ \A k \in 1..(n - 1) : sigQueue'[k] = sigQueue[k + 1]
  BY <1>1
<1> HIDE DEF n
<1>3. /\ SigTicks = {sigQueue[k].tick : k \in 1..n}
      /\ SigTicks' = {sigQueue'[k].tick : k \in 1..(n - 1)}
  BY <1>2 DEF SigTicks, n
<1>4. \A i, j \in 1..n : i < j => Before(sigQueue[i].tick, sigQueue[j].tick) 
  BY DEF SignalInv, SortedSignals, n
<1>5. \A k \in 1..(n - 1) : k + 1 \in 1..n /\ 1 \in 1..n /\ 1 < k + 1 BY <1>2
<1>6. Head(sigQueue).tick \in SigTicks
  <2>1. 1 \in 1..n BY <1>2
  <2> QED BY <1>2, <1>3, <2>1
<1>7. SigTicks' \subseteq SigTicks BY <1>2, <1>3, <1>5
<1>8. AllBefore({Head(sigQueue).tick}, SigTicks') BY <1>2, <1>3, <1>4, <1>5 DEF AllBefore
<1>9. ASSUME NEW i \in 1..(n - 1), NEW j \in 1..(n - 1), i < j
      PROVE  Before(sigQueue'[i].tick, sigQueue'[j].tick)
  <2>1. i + 1 \in 1..n /\ j + 1 \in 1..n /\ i + 1 < j + 1 BY <1>2, <1>9
  <2> QED BY <1>2, <1>4, <2>1
<1> QED BY <1>2, <1>6, <1>7, <1>8, <1>9 DEF SortedSignals

LEMMA SignalPushed ==
  ASSUME TypeOK, SignalInv, NEW e \in Signal, AllBefore(SigTicks, {e.tick}),
         sigQueue' = Append(sigQueue, e)
  PROVE  SigTicks' = SigTicks \cup {e.tick} /\ SortedSignals(sigQueue')
<1> DEFINE n == Len(sigQueue)
<1>1. sigQueue \in Seq(Signal) BY DEF TypeOK
<1>2. /\ n \in Nat /\ Len(sigQueue') = n + 1 /\ sigQueue'[n + 1] = e
      /\ \A k \in 1..n : sigQueue'[k] = sigQueue[k]
  BY <1>1, AppendProperties
<1> HIDE DEF n
<1>3. /\ SigTicks = {sigQueue[k].tick : k \in 1..n}
      /\ SigTicks' = {sigQueue'[k].tick : k \in 1..(n + 1)}
  BY <1>2 DEF SigTicks, n
<1>4. \A k \in 1..(n + 1) : k \in 1..n \/ k = n + 1 BY <1>2
<1>5. n + 1 \in 1..(n + 1) /\ \A k \in 1..n : k \in 1..(n + 1) BY <1>2
<1>6. SigTicks' = SigTicks \cup {e.tick} BY <1>2, <1>3, <1>4, <1>5
<1>7. \A i, j \in 1..n : i < j => Before(sigQueue[i].tick, sigQueue[j].tick) 
  BY DEF SignalInv, SortedSignals, n
<1>8. \A k \in 1..n : Before(sigQueue[k].tick, e.tick) BY <1>3 DEF AllBefore
<1>9. ASSUME NEW i \in 1..(n + 1), NEW j \in 1..(n + 1), i < j
      PROVE  Before(sigQueue'[i].tick, sigQueue'[j].tick)
  <2>1. i \in 1..n BY <1>2, <1>9
  <2>2. CASE j \in 1..n BY <1>2, <1>7, <1>9, <2>1, <2>2
  <2>3. CASE j = n + 1 BY <1>2, <1>8, <2>1, <2>3
  <2> QED BY <1>4, <2>2, <2>3
<1> QED BY <1>2, <1>6, <1>9 DEF SortedSignals

-----------------------------------------------------------------------------
(* Steps that move nothing forward. *)

Later == \A t \in Stamped : Before(t, Now) => Before(t, Now')

LEMMA PipeStamped ==
  ASSUME TypeOK, PipeInv
  PROVE  /\ QueueTicks \subseteq Tick /\ HandTicks \subseteq Tick /\ StreamTicks \subseteq Tick
         /\ md[1] \in Stamped /\ Tick \subseteq Stamped /\ None \in Stamped
<1>1. HandTicks \subseteq Tick BY DEF HandTicks, PipeInv
<1> QED BY <1>1, StreamType, Stamps DEF PipeInv

LEMMA PipeStays ==
  ASSUME TypeOK, PipeInv, UNCHANGED <<mdQueue, md, hand>>, StreamTicks' \subseteq StreamTicks, Later,
         netpc'[1] \in {"push", "spin", "again"} => hand[1] # None
  PROVE  PipeInv'
<1>1. QueueTicks' = QueueTicks /\ HandTicks' = HandTicks BY DEF QueueTicks, HandTicks
<1>2. \A t \in {md[1]} \cup QueueTicks \cup HandTicks \cup StreamTicks : t \in Stamped BY PipeStamped
<1>3. AllBefore({md[1]} \cup QueueTicks \cup HandTicks \cup StreamTicks, {Now'})
  BY <1>2 DEF PipeInv, AllBefore, Later
<1>4. /\ AllBefore({md'[1]}, QueueTicks' \cup HandTicks' \cup StreamTicks')
      /\ AllBefore(QueueTicks', HandTicks' \cup StreamTicks')
      /\ AllBefore(HandTicks', StreamTicks')
  BY <1>1 DEF PipeInv, AllBefore
<1>5. AllBefore({md'[1]} \cup QueueTicks' \cup HandTicks' \cup StreamTicks', {Now'})
  BY <1>1, <1>3 DEF AllBefore
<1>6. /\ QueueTicks' \subseteq Tick /\ md'[1] \in Tick \cup {None} /\ hand'[1] \in Tick \cup {None}
      /\ netpc'[1] \in {"push", "spin", "again"} => hand'[1] # None
      /\ Sorted(mdQueue')
  BY <1>1 DEF PipeInv
<1> QED BY <1>4, <1>5, <1>6 DEF PipeInv

LEMMA SignalStays ==
  ASSUME SignalInv, UNCHANGED <<md, out, signal, sigQueue>>, strpc'[1] = "push" => strpc[1] = "push"
  PROVE  SignalInv'
<1>1. SigTicks' = SigTicks /\ OutTicks' = OutTicks BY DEF SigTicks, OutTicks
<1> QED BY <1>1 DEF SignalInv

(* What is lost leaves the order of the rest alone. *)
LEMMA NothingLater ==
  ASSUME UNCHANGED <<epoch, nextSeq>>
  PROVE  Later
BY DEF Later, Now

LEMMA ServerKeepsOrder ==
  ASSUME TypeOK, TickOrder, ServerStep \/ Environment, UNCHANGED <<feedVars, coreVars>>
  PROVE  TickOrder'
<1>1. WholeTicks /\ PipeInv /\ SignalInv BY DEF TickOrder
<1>2. UNCHANGED <<mdQueue, md, hand, netpc, out, signal, sigQueue, strpc>> BY DEF feedVars, coreVars
<1>3. netpc'[1] \in {"push", "spin", "again"} => hand[1] # None BY <1>1, <1>2 DEF PipeInv
<1>4. SignalInv' BY <1>1, <1>2, SignalStays
<1>5. ASSUME WholeTicks', StreamTicks' \subseteq StreamTicks, Later PROVE TickOrder'
  <2>1. PipeInv' BY <1>1, <1>2, <1>3, <1>5, PipeStays
  <2> QED BY <1>4, <1>5, <2>1 DEF TickOrder
<1>6. ASSUME AcceptClient \/ SendLost \/ SendFails \/ RestartServer PROVE TickOrder'
  <2>1. stream' = stream /\ link' = link BY <1>6 DEF AcceptClient, SendLost, SendFails, RestartServer
  <2>2. WholeTicks' /\ StreamTicks' = StreamTicks BY <1>1, <2>1, SameStream
  <2>3. epoch' = epoch /\ nextSeq' \in {nextSeq, nextSeq + 1}
    BY <1>6 DEF AcceptClient, SendLost, SendFails, RestartServer
  <2>4. Later BY <2>3, NowAdvances DEF Later
  <2> QED BY <1>5, <2>2, <2>4
<1>7. ASSUME BreakLink PROVE TickOrder'
  <2>1. Cut /\ UNCHANGED <<epoch, nextSeq>> BY <1>7 DEF BreakLink
  <2> QED BY <1>1, <1>5, <2>1, CutStream, NothingLater
<1>8. ASSUME CrashServer PROVE TickOrder'
  <2>1. Cut /\ epoch' = epoch + 1 /\ nextSeq' = 0 BY <1>8 DEF CrashServer
  <2>2. Later BY <2>1, NowAdvances DEF Later
  <2> QED BY <1>1, <1>5, <2>1, <2>2, CutStream
<1>9. ASSUME NEW kind \in Kinds, SendTick(kind) PROVE TickOrder'
  <2> DEFINE t == [epoch |-> epoch, seq |-> nextSeq, kind |-> kind]
  <2>1. WholeTicks' /\ StreamTicks' = StreamTicks \cup {t} BY <1>1, <1>9, GrownStream
  <2>2. t \in Tick BY <1>9 DEF TypeOK, SendTick, Tick
  <2>3. epoch' = epoch /\ nextSeq' = nextSeq + 1 BY <1>9 DEF SendTick
  <2>4. epoch \in Nat /\ nextSeq \in Nat BY DEF TypeOK
  <2>5. \A x : Before(x, Now) => Before(x, t) BY DEF Before, Now
  <2>6. Before(t, Now') BY <2>3, <2>4 DEF Before, Now
  <2>7. Later BY <2>3, NowAdvances DEF Later
  <2> HIDE DEF t
  <2>8. QueueTicks' = QueueTicks /\ HandTicks' = HandTicks BY <1>2 DEF QueueTicks, HandTicks
  <2>9. \A x \in {md[1]} \cup QueueTicks \cup HandTicks \cup StreamTicks :
          Before(x, t) /\ Before(x, Now')
    BY <1>1, <2>5, <2>7, PipeStamped DEF PipeInv, AllBefore, Later
  <2>10. /\ AllBefore({md'[1]}, QueueTicks' \cup HandTicks' \cup StreamTicks')
         /\ AllBefore(QueueTicks', HandTicks' \cup StreamTicks')
         /\ AllBefore(HandTicks', StreamTicks')
    BY <1>1, <1>2, <2>1, <2>8, <2>9 DEF PipeInv, AllBefore
  <2>11. AllBefore({md'[1]} \cup QueueTicks' \cup HandTicks' \cup StreamTicks', {Now'})
    BY <1>2, <2>1, <2>6, <2>8, <2>9 DEF AllBefore
  <2>12. PipeInv' BY <1>1, <1>2, <2>8, <2>10, <2>11 DEF PipeInv
  <2> QED BY <1>4, <2>1, <2>12 DEF TickOrder
<1> QED BY <1>6, <1>7, <1>8, <1>9 DEF ServerStep, Environment


(* A step that moves no tick and no signal, though the stream may be lost. *)
LEMMA QuietStep ==
  ASSUME TypeOK, TickOrder, UNCHANGED <<mdQueue, md, hand, out, signal, sigQueue, epoch, nextSeq>>,
         \/ stream' = <<>>
         \/ stream' = stream /\ link' = link,
         netpc'[1] \in {"push", "spin", "again"} => netpc[1] \in {"push", "spin", "again"},
         strpc'[1] = "push" => strpc[1] = "push"
  PROVE  TickOrder'
<1>1. WholeTicks /\ PipeInv /\ SignalInv BY DEF TickOrder
<1>2. WholeTicks' /\ StreamTicks' \subseteq StreamTicks BY <1>1, EmptyStream, SameStream
<1>3. netpc'[1] \in {"push", "spin", "again"} => hand[1] # None BY <1>1 DEF PipeInv
<1>4. PipeInv' BY <1>1, <1>2, <1>3, NothingLater, PipeStays
<1>5. SignalInv' BY <1>1, SignalStays
<1> QED BY <1>2, <1>4, <1>5 DEF TickOrder

LEMMA MainKeepsOrder ==
  ASSUME TypeOK, TickOrder, MainStep
  PROVE  TickOrder'
<1> USE DEF strVars, exeVars, serverVars, feedVars, NewSocket, Connect, CloseSocket
<1>1. /\ netpc \in [Session -> NetPc]
      /\ strpc \in [Session -> {"none", "loop", "pop", "push", "count", "done"}]
  BY DEF TypeOK
<1>2. UNCHANGED <<mdQueue, md, hand, out, signal, sigQueue, epoch, nextSeq>>
  BY DEF MainStep, InitializeClient, WorkClient, StartStrategy, StartExecution, ThreadFails, WorkReturns,
    StopClient, Destroy, JoinAll, InitializeFeed, FreeFeed
<1>3. \/ stream' = <<>>
      \/ stream' = stream /\ link' = link
  BY DEF MainStep, InitializeClient, WorkClient, StartStrategy, StartExecution, ThreadFails, WorkReturns,
    StopClient, Destroy, JoinAll, InitializeFeed, FreeFeed
<1>4. netpc' = netpc \/ netpc' = [netpc EXCEPT ![session + 1] = "loop"]
  BY DEF MainStep, InitializeClient, WorkClient, StartStrategy, StartExecution, ThreadFails, WorkReturns,
    StopClient, Destroy, JoinAll, InitializeFeed, FreeFeed, GoTo
<1>5. strpc' = strpc \/ strpc' = [strpc EXCEPT ![session] = "loop"]
  BY DEF MainStep, InitializeClient, WorkClient, StartStrategy, StartExecution, ThreadFails, WorkReturns,
    StopClient, Destroy, JoinAll
<1>6. netpc'[1] \in {"push", "spin", "again"} => netpc[1] \in {"push", "spin", "again"}
  <2>1. 1 \in Session BY DEF Session
  <2> QED BY <1>1, <1>4, <2>1
<1>7. strpc'[1] = "push" => strpc[1] = "push"
  <2>1. 1 \in Session BY DEF Session
  <2> QED BY <1>1, <1>5, <2>1
<1> QED BY ONLY TypeOK, TickOrder, <1>2, <1>3, <1>6, <1>7, QuietStep

LEMMA NetworkKeepsOrder ==
  ASSUME StartedOnce, TypeOK, Undamaged, TickOrder, NEW g \in Session,
         NetworkStep(g), UNCHANGED coreVars
  PROVE  TickOrder'
<1> DEFINE Goal == TickOrder'
           Holding == {"push", "spin", "again"}
<1>1. g = 1 /\ netpc \in [{1} -> NetPc] /\ hand \in [{1} -> AnyTick]
  BY OneSession DEF TypeOK
<1>2. UNCHANGED <<md, out, signal, sigQueue, strpc>> BY DEF coreVars
<1>3. WholeTicks /\ PipeInv /\ SignalInv BY DEF TickOrder
<1>4. SignalInv' BY <1>2, <1>3, SignalStays
<1>5. ASSUME UNCHANGED <<mdQueue, hand, epoch, nextSeq>>,
             \/ stream' = <<>>
             \/ stream' = stream /\ link' = link,
             netpc'[1] \in Holding => netpc[1] \in Holding
      PROVE  Goal
  BY <1>2, <1>5, QuietStep
<1>6. ASSUME NEW label \in NetPc, netpc' = [netpc EXCEPT ![g] = label],
             UNCHANGED <<mdQueue, hand, epoch, nextSeq>>,
             \/ stream' = <<>>
             \/ stream' = stream /\ link' = link,
             label \in Holding => netpc[1] \in Holding
      PROVE  Goal
  <2>1. netpc'[1] = label BY <1>1, <1>6
  <2> HIDE DEF Goal
  <2> QED BY <1>5, <1>6, <2>1
<1>7. ASSUME CheckRunning(g) PROVE Goal
  <2>1. PICK label \in {"done", "retry", "recv"} : netpc' = [netpc EXCEPT ![g] = label]
    BY <1>7 DEF CheckRunning, GoTo
  <2>2. UNCHANGED <<mdQueue, hand, epoch, nextSeq, stream, link>> BY <1>7 DEF CheckRunning, serverVars
  <2> HIDE DEF Goal
  <2> QED BY <1>6, <2>1, <2>2 DEF NetPc
<1>8. ASSUME CheckRetry(g) \/ EndRetries(g) PROVE Goal
  <2>1. PICK label \in {"dial", "check"} : netpc' = [netpc EXCEPT ![g] = label]
    BY <1>8 DEF CheckRetry, EndRetries, GoTo
  <2>2. UNCHANGED <<mdQueue, hand, epoch, nextSeq, stream, link>>
    BY <1>8 DEF CheckRetry, EndRetries, serverVars
  <2> HIDE DEF Goal
  <2> QED BY <1>6, <2>1, <2>2 DEF NetPc
<1>9. ASSUME Reconnect(g) \/ ReconnectFails(g) \/ RecvFails(g) PROVE Goal
  <2>0. \E label \in {"check", "loop", "retry"} : ResetClient(g, label)
    BY <1>9 DEF Reconnect, ReconnectFails, RecvFails, DropClient
  <2>1. PICK label \in {"check", "loop", "retry"} : netpc' = [netpc EXCEPT ![g] = label]
    BY <2>0, SoleReset
  <2>2. UNCHANGED <<mdQueue, hand, epoch, nextSeq>> /\ stream' = <<>>
    BY <1>9 DEF Reconnect, ReconnectFails, RecvFails, DropClient, Connect, CloseSocket, NewSocket
  <2> HIDE DEF Goal
  <2> QED BY <1>6, <2>1, <2>2 DEF NetPc
<1>10. ASSUME CheckClient(g) \/ GiveUp(g) PROVE Goal
  <2>1. PICK label \in {"giveup", "done", "loop"} : netpc' = [netpc EXCEPT ![g] = label]
    BY <1>10 DEF CheckClient, GiveUp, GoTo
  <2>2. UNCHANGED <<mdQueue, hand, epoch, nextSeq, stream, link>>
    BY <1>10 DEF CheckClient, GiveUp, serverVars
  <2> HIDE DEF Goal
  <2> QED BY <1>6, <2>1, <2>2 DEF NetPc
<1>11. ASSUME QueueFull(g) \/ SpinAgain(g) PROVE Goal
  <2>1. PICK label \in {"spin", "again"} : netpc' = [netpc EXCEPT ![g] = label]
    BY <1>11 DEF QueueFull, SpinAgain, GoTo
  <2>2. UNCHANGED <<mdQueue, hand, epoch, nextSeq, stream, link>>
    BY <1>11 DEF QueueFull, SpinAgain, serverVars
  <2>3. netpc[1] \in Holding BY <1>1, <1>11 DEF QueueFull, SpinAgain, At, Pushing
  <2> HIDE DEF Goal, Holding
  <2> QED BY <1>6, <2>1, <2>2, <2>3 DEF NetPc
<1>12. ASSUME RecvPartial(g) PROVE Goal
  <2>1. Len(stream) = 1 /\ stream' = Tail(stream) BY <1>12 DEF RecvPartial, StartedOnce
  <2>2. stream' = <<>>
    <3> HIDE DEF Half
    <3>1. stream \in Seq(Half) /\ stream # <<>> BY <1>12, StreamType DEF RecvPartial
    <3>2. Tail(stream) \in Seq(Half) /\ Len(Tail(stream)) = Len(stream) - 1
      BY <3>1, HeadTailProperties
    <3>3. stream' \in Seq(Half) /\ Len(stream') = 0 BY <2>1, <3>2
    <3> QED BY <3>3, EmptySeq
  <2>3. netpc' = [netpc EXCEPT ![g] = "loop"] BY <1>12 DEF RecvPartial, GoTo
  <2>4. UNCHANGED <<mdQueue, hand, epoch, nextSeq>> BY <1>12 DEF RecvPartial
  <2> HIDE DEF Goal
  <2> QED BY <1>6, <2>2, <2>3, <2>4 DEF NetPc
<1>13. ASSUME RecvTick(g) PROVE Goal
  <2> DEFINE t == stream[1].tick
  <2>1. Len(stream) >= 2 /\ stream' = SubSeq(stream, 3, Len(stream)) /\ link' = link
    BY <1>13 DEF RecvTick
  <2>2. /\ Parse(stream[1], stream[2]) = t /\ t \in StreamTicks
        /\ WholeTicks' /\ StreamTicks' \subseteq StreamTicks /\ AllBefore({t}, StreamTicks')
    BY <1>3, <2>1, TakenTick
  <2>3. hand' = [hand EXCEPT ![g] = t] /\ mdQueue' = mdQueue /\ UNCHANGED <<epoch, nextSeq>>
    BY <1>13, <2>2 DEF RecvTick
  <2>4. t \in Tick /\ t # None BY <2>2, StreamType, Stamps
  <2> HIDE DEF t
  <2>5. hand'[1] = t BY <1>1, <2>3
  <2>6. HandTicks' = {t} /\ QueueTicks' = QueueTicks BY <2>3, <2>4, <2>5 DEF HandTicks, QueueTicks
  <2>7. Now' = Now BY <2>3 DEF Now
  <2>8. /\ AllBefore({md'[1]}, QueueTicks' \cup HandTicks' \cup StreamTicks')
        /\ AllBefore(QueueTicks', HandTicks' \cup StreamTicks')
        /\ AllBefore({md'[1]} \cup QueueTicks' \cup HandTicks' \cup StreamTicks', {Now'})
    BY <1>2, <1>3, <2>2, <2>6, <2>7 DEF PipeInv, AllBefore
  <2>9. PipeInv' BY <1>2, <1>3, <2>2, <2>3, <2>4, <2>5, <2>6, <2>8 DEF PipeInv
  <2> QED BY <1>4, <2>2, <2>9 DEF TickOrder
<1>14. ASSUME Push(g) PROVE Goal
  <2> DEFINE t == hand[1]
  <2>1. /\ netpc[1] \in Holding /\ mdQueue' = Append(mdQueue, t)
        /\ hand' = [hand EXCEPT ![g] = None] /\ netpc' = [netpc EXCEPT ![g] = "loop"]
        /\ UNCHANGED <<epoch, nextSeq, stream, link>>
    BY <1>1, <1>14 DEF Push, Pushing, GoTo, serverVars
  <2>2. t \in Tick /\ HandTicks = {t} BY <1>3, <2>1 DEF PipeInv, HandTicks
  <2>3. AllBefore(QueueTicks, {t}) BY <1>3, <2>2 DEF PipeInv, AllBefore
  <2> HIDE DEF t
  <2>4. QueueTicks' = QueueTicks \cup {t} /\ Sorted(mdQueue')
    BY <1>3, <2>1, <2>2, <2>3, QueuePushed
  <2>5. hand'[1] = None /\ netpc'[1] = "loop" BY <1>1, <2>1
  <2>6. HandTicks' = {} BY <2>5 DEF HandTicks
  <2>7. WholeTicks' /\ StreamTicks' = StreamTicks BY <1>3, <2>1, SameStream
  <2>8. Now' = Now BY <2>1 DEF Now
  <2>9. /\ AllBefore({md'[1]}, QueueTicks' \cup HandTicks' \cup StreamTicks')
        /\ AllBefore(QueueTicks', HandTicks' \cup StreamTicks')
        /\ AllBefore(HandTicks', StreamTicks')
        /\ AllBefore({md'[1]} \cup QueueTicks' \cup HandTicks' \cup StreamTicks', {Now'})
    BY <1>2, <1>3, <2>2, <2>4, <2>6, <2>7, <2>8 DEF PipeInv, AllBefore
  <2>10. PipeInv' BY <1>2, <1>3, <2>2, <2>4, <2>5, <2>9 DEF PipeInv
  <2> QED BY <1>4, <2>7, <2>10 DEF TickOrder
<1>15. ASSUME DropTick(g) PROVE Goal
  <2>1. /\ mdQueue' = mdQueue /\ hand' = [hand EXCEPT ![g] = None]
        /\ netpc' = [netpc EXCEPT ![g] = "loop"] /\ UNCHANGED <<epoch, nextSeq, stream, link>>
    BY <1>15 DEF DropTick, GoTo, serverVars
  <2>2. hand'[1] = None /\ netpc'[1] = "loop" BY <1>1, <2>1
  <2>3. HandTicks' = {} /\ QueueTicks' = QueueTicks BY <2>1, <2>2 DEF HandTicks, QueueTicks
  <2>4. WholeTicks' /\ StreamTicks' = StreamTicks BY <1>3, <2>1, SameStream
  <2>5. Now' = Now BY <2>1 DEF Now
  <2>6. /\ AllBefore({md'[1]}, QueueTicks' \cup HandTicks' \cup StreamTicks')
        /\ AllBefore(QueueTicks', HandTicks' \cup StreamTicks')
        /\ AllBefore(HandTicks', StreamTicks')
        /\ AllBefore({md'[1]} \cup QueueTicks' \cup HandTicks' \cup StreamTicks', {Now'})
    BY <1>2, <1>3, <2>3, <2>4, <2>5 DEF PipeInv, AllBefore
  <2>7. PipeInv' BY <1>2, <1>3, <2>1, <2>2, <2>3, <2>6 DEF PipeInv
  <2> QED BY <1>4, <2>4, <2>7 DEF TickOrder
<1> HIDE DEF Goal
<1>16. Goal
  BY <1>7, <1>8, <1>9, <1>10, <1>11, <1>12, <1>13, <1>14, <1>15, NoDamage DEF NetworkStep
<1> QED BY <1>16 DEF Goal


LEMMA StrategyKeepsOrder ==
  ASSUME StartedOnce, TypeOK, Undamaged, TickOrder, NEW g \in Session, StrategyStep(g)
  PROVE  TickOrder'
<1> DEFINE Goal == TickOrder'
<1>1. /\ g = 1 /\ strpc \in [{1} -> {"none", "loop", "pop", "push", "count", "done"}]
      /\ md \in [{1} -> AnyTick] /\ out \in [{1} -> Signal]
  BY OneSession DEF TypeOK
<1>2. UNCHANGED <<epoch, nextSeq, stream, link, netpc, hand, signal>>
  BY TypeParts, StrategyKeepsType DEF serverVars, exeVars
<1>3. WholeTicks /\ PipeInv /\ SignalInv BY DEF TickOrder
<1>4. WholeTicks' /\ StreamTicks' = StreamTicks BY <1>2, <1>3, SameStream
<1>5. ASSUME NEW label \in {"loop", "pop", "count", "done"}, strpc' = [strpc EXCEPT ![g] = label],
             UNCHANGED <<mdQueue, md, out, sigQueue>>
      PROVE  Goal
  <2>1. strpc'[1] # "push" BY <1>1, <1>5
  <2> QED BY <1>2, <1>5, <2>1, QuietStep
<1>6. ASSUME CheckStrategy(g) \/ NoTick(g) \/ CountSignal(g) PROVE Goal
  <2>1. PICK label \in {"loop", "pop", "done"} : strpc' = [strpc EXCEPT ![g] = label]
    BY <1>6 DEF CheckStrategy, NoTick, CountSignal, StrategyGoesTo
  <2>2. UNCHANGED <<mdQueue, md, out, sigQueue>> BY <1>6 DEF CheckStrategy, NoTick, CountSignal, feedVars
  <2> HIDE DEF Goal
  <2> QED BY <1>5, <2>1, <2>2
<1>7. ASSUME UNCHANGED <<mdQueue, md>> PROVE PipeInv'
  <2>1. netpc'[1] \in {"push", "spin", "again"} => hand[1] # None BY <1>2, <1>3 DEF PipeInv
  <2> QED BY <1>2, <1>3, <1>4, <1>7, <2>1, NothingLater, PipeStays
<1>8. ASSUME PopTick(g) PROVE Goal
  <2> DEFINE t == Head(mdQueue)
  <2>1. /\ strpc[1] = "pop" /\ mdQueue # <<>> /\ mdQueue' = Tail(mdQueue) /\ sigQueue' = sigQueue
        /\ md' = [md EXCEPT ![g] = t]
    BY <1>1, <1>8 DEF PopTick, TakeTick
  <2>2. /\ t \in QueueTicks /\ QueueTicks' \subseteq QueueTicks
        /\ AllBefore({t}, QueueTicks') /\ Sorted(mdQueue')
    BY <1>3, <2>1, QueuePopped
  <2>3. \/ UNCHANGED out /\ strpc'[1] = "loop"
        \/ out'[1].tick = t /\ strpc'[1] = "push"
    <3>1. PICK type \in SignalTypes(Head(mdQueue)) :
            IF type = "HOLD"
            THEN StrategyGoesTo(g, "loop") /\ UNCHANGED out
            ELSE /\ StrategyGoesTo(g, "push")
                 /\ out' = [out EXCEPT ![g] = [tick |-> Head(mdQueue), type |-> type]]
      BY <1>8 DEF PopTick, TakeTick
    <3> QED BY <1>1, <3>1 DEF StrategyGoesTo
  <2> HIDE DEF t
  <2>4. md'[1] = t /\ t \in Tick BY <1>1, <1>3, <2>1, <2>2 DEF PipeInv
  <2>5. HandTicks' = HandTicks /\ Now' = Now /\ hand'[1] = hand[1] /\ netpc'[1] = netpc[1]
    BY <1>2 DEF HandTicks, Now
  <2>6. /\ AllBefore({md'[1]}, QueueTicks' \cup HandTicks' \cup StreamTicks')
        /\ AllBefore(QueueTicks', HandTicks' \cup StreamTicks')
        /\ AllBefore(HandTicks', StreamTicks')
        /\ AllBefore({md'[1]} \cup QueueTicks' \cup HandTicks' \cup StreamTicks', {Now'})
    BY <1>3, <1>4, <2>2, <2>4, <2>5 DEF PipeInv, AllBefore
  <2>7. PipeInv' BY <1>3, <2>2, <2>4, <2>5, <2>6 DEF PipeInv
  <2>8. Before(md[1], t) BY <1>3, <2>2 DEF PipeInv, AllBefore
  <2>9. SigTicks' = SigTicks /\ SortedSignals(sigQueue') /\ signal'[1].tick = signal[1].tick
    BY <1>2, <1>3, <2>1 DEF SigTicks, SignalInv
  <2>10. /\ SigTicks \subseteq Stamped /\ OutTicks \subseteq Stamped /\ signal[1].tick \in Stamped
         /\ md[1] \in Stamped /\ t \in Stamped
    BY <1>3, <2>4, PipeStamped DEF SignalInv, OutTicks
  <2>11. \A x \in {signal[1].tick} \cup SigTicks \cup OutTicks : Before(x, t) /\ ~Before(t, x)
    <3>1. \A x \in {signal[1].tick} \cup SigTicks \cup OutTicks : x \in Stamped /\ ~Before(md[1], x)
      BY <1>3, <2>10 DEF SignalInv
    <3>2. \A x \in Stamped : ~Before(md[1], x) => Before(x, t) BY <2>8, <2>10, BeforeFacts
    <3>3. \A x \in Stamped : Before(x, t) => ~Before(t, x) BY <2>10, BeforeFacts
    <3> QED BY <3>1, <3>2, <3>3
  <2>12. ~Before(t, t) BY <2>10, BeforeFacts
  <2>13. CASE UNCHANGED out /\ strpc'[1] = "loop"
    <3>1. OutTicks' = OutTicks BY <2>13 DEF OutTicks
    <3>2. SignalInv' BY <1>2, <1>3, <2>4, <2>9, <2>11, <2>13, <3>1 DEF SignalInv
    <3> QED BY <1>4, <2>7, <3>2 DEF TickOrder
  <2>14. CASE out'[1].tick = t /\ strpc'[1] = "push"
    <3>1. t # None BY <2>4, Stamps
    <3>2. OutTicks' = {t} BY <2>14, <3>1 DEF OutTicks
    <3>3. /\ AllBefore({signal'[1].tick}, SigTicks' \cup OutTicks') /\ AllBefore(SigTicks', OutTicks')
          /\ \A x \in {signal'[1].tick} \cup SigTicks' \cup OutTicks' : ~Before(md'[1], x)
      BY <1>3, <2>4, <2>9, <2>11, <2>12, <3>2 DEF SignalInv, AllBefore
    <3>4. SignalInv' BY <1>2, <1>3, <2>4, <2>9, <2>14, <3>1, <3>3 DEF SignalInv
    <3> QED BY <1>4, <2>7, <3>4 DEF TickOrder
  <2> QED BY <2>3, <2>13, <2>14
<1>9. ASSUME PushSignal(g) PROVE Goal
  <2> DEFINE e == out[1]
  <2>1. /\ strpc[1] = "push" /\ sigQueue' = Append(sigQueue, e)
        /\ out' = [out EXCEPT ![g] = NoSignal] /\ strpc' = [strpc EXCEPT ![g] = "count"]
        /\ UNCHANGED <<mdQueue, md>>
    BY <1>1, <1>9 DEF PushSignal, StrategyGoesTo, feedVars
  <2>2. e \in Signal /\ e.tick \in Tick /\ OutTicks = {e.tick}
    BY <1>1, <1>3, <2>1 DEF SignalInv, OutTicks
  <2>3. AllBefore(SigTicks, {e.tick}) BY <1>3, <2>2 DEF SignalInv
  <2> HIDE DEF e
  <2>4. SigTicks' = SigTicks \cup {e.tick} /\ SortedSignals(sigQueue')
    BY <1>3, <2>1, <2>2, <2>3, SignalPushed
  <2>5. out'[1].tick = None /\ strpc'[1] = "count" BY <1>1, <2>1 DEF NoSignal
  <2>6. OutTicks' = {} BY <2>5 DEF OutTicks
  <2>7. /\ AllBefore({signal'[1].tick}, SigTicks' \cup OutTicks') /\ AllBefore(SigTicks', OutTicks')
        /\ \A x \in {signal'[1].tick} \cup SigTicks' \cup OutTicks' : ~Before(md'[1], x)
    BY <1>2, <1>3, <2>1, <2>2, <2>4, <2>6 DEF SignalInv, AllBefore
  <2>8. SignalInv' BY <1>2, <1>3, <2>2, <2>4, <2>5, <2>7 DEF SignalInv
  <2> QED BY <1>4, <1>7, <2>1, <2>8 DEF TickOrder
<1>10. ASSUME DropSignal(g) PROVE Goal
  <2>1. /\ out' = [out EXCEPT ![g] = NoSignal] /\ strpc' = [strpc EXCEPT ![g] = "loop"]
        /\ UNCHANGED <<mdQueue, md, sigQueue>>
    BY <1>10 DEF DropSignal, StrategyGoesTo, feedVars
  <2>2. out'[1].tick = None /\ strpc'[1] = "loop" BY <1>1, <2>1 DEF NoSignal
  <2>3. OutTicks' = {} /\ SigTicks' = SigTicks BY <2>1, <2>2 DEF OutTicks, SigTicks
  <2>4. /\ AllBefore({signal'[1].tick}, SigTicks' \cup OutTicks') /\ AllBefore(SigTicks', OutTicks')
        /\ \A x \in {signal'[1].tick} \cup SigTicks' \cup OutTicks' : ~Before(md'[1], x)
    BY <1>2, <1>3, <2>1, <2>3 DEF SignalInv, AllBefore
  <2>5. SignalInv' BY <1>2, <1>3, <2>1, <2>2, <2>3, <2>4 DEF SignalInv
  <2> QED BY <1>4, <1>7, <2>1, <2>5 DEF TickOrder
<1> HIDE DEF Goal
<1>11. Goal BY <1>6, <1>8, <1>9, <1>10, NoDamage DEF StrategyStep
<1> QED BY <1>11 DEF Goal

LEMMA ExecutionKeepsOrder ==
  ASSUME StartedOnce, TypeOK, Undamaged, TickOrder, NEW g \in Session, ExecutionStep(g)
  PROVE  TickOrder'
<1>1. g = 1 /\ signal \in [{1} -> Signal] BY OneSession DEF TypeOK
<1>2. UNCHANGED <<epoch, nextSeq, stream, link, netpc, hand, mdQueue, md, out, strpc>>
  BY TypeParts, ExecutionKeepsType DEF serverVars, strVars
<1>3. WholeTicks /\ PipeInv /\ SignalInv BY DEF TickOrder
<1>4. ASSUME UNCHANGED <<signal, sigQueue>> PROVE TickOrder' BY <1>2, <1>4, QuietStep
<1>5. ASSUME CheckExecution(g) \/ NothingToSend(g) \/ SendOrder(g) PROVE TickOrder'
  BY <1>4, <1>5 DEF CheckExecution, NothingToSend, SendOrder
<1>6. ASSUME PopSignal(g) PROVE TickOrder'
  <2> DEFINE e == Head(sigQueue)
  <2>1. sigQueue # <<>> /\ sigQueue' = Tail(sigQueue) /\ signal' = [signal EXCEPT ![g] = e]
    BY <1>6 DEF PopSignal
  <2>2. /\ e.tick \in SigTicks /\ SigTicks' \subseteq SigTicks
        /\ AllBefore({e.tick}, SigTicks') /\ SortedSignals(sigQueue')
    BY <1>3, <2>1, SignalPopped
  <2> HIDE DEF e
  <2>3. signal'[1] = e BY <1>1, <2>1
  <2>4. OutTicks' = OutTicks BY <1>2 DEF OutTicks
  <2>5. /\ AllBefore({signal'[1].tick}, SigTicks' \cup OutTicks') /\ AllBefore(SigTicks', OutTicks')
        /\ \A x \in {signal'[1].tick} \cup SigTicks' \cup OutTicks' : ~Before(md'[1], x)
    BY <1>2, <1>3, <2>2, <2>3, <2>4 DEF SignalInv, AllBefore
  <2>6. SignalInv' BY <1>2, <1>3, <2>2, <2>3, <2>5 DEF SignalInv
  <2>7. WholeTicks' /\ StreamTicks' = StreamTicks BY <1>2, <1>3, SameStream
  <2>8. netpc'[1] \in {"push", "spin", "again"} => hand[1] # None BY <1>2, <1>3 DEF PipeInv
  <2>9. PipeInv' BY <1>2, <1>3, <2>7, <2>8, NothingLater, PipeStays
  <2> QED BY <2>6, <2>7, <2>9 DEF TickOrder
<1> QED BY <1>5, <1>6, NoDamage DEF ExecutionStep

LEMMA CrashKeepsOrder ==
  ASSUME StartedOnce, TypeOK, TickOrder, NEW g \in Session, Crash(g)
  PROVE  TickOrder'
<1>1. /\ g = 1 /\ netpc \in [{1} -> NetPc]
      /\ strpc \in [{1} -> {"none", "loop", "pop", "push", "count", "done"}]
  BY OneSession DEF TypeOK
<1>2. UNCHANGED <<epoch, nextSeq, stream, link, hand, mdQueue, md, out, signal, sigQueue>>
  BY DEF Crash, serverVars
<1>3. /\ netpc' = netpc \/ netpc' = [netpc EXCEPT ![g] = "done"]
      /\ strpc' = strpc \/ strpc' = [strpc EXCEPT ![g] = "done"]
  BY DEF Crash, GoTo, StrategyGoesTo
<1>4. netpc'[1] \in {"push", "spin", "again"} => netpc[1] \in {"push", "spin", "again"} BY <1>1, <1>3
<1>5. strpc'[1] = "push" => strpc[1] = "push" BY <1>1, <1>3
<1> QED BY <1>2, <1>4, <1>5, QuietStep

LEMMA TickOrderNext ==
  ASSUME StartedOnce, TypeOK, Undamaged, TickOrder, [Next]_vars
  PROVE  TickOrder'
<1> DEFINE Goal == TickOrder'
<1>1. ASSUME (ServerStep \/ Environment) /\ UNCHANGED <<feedVars, coreVars>> PROVE Goal
  BY <1>1, ServerKeepsOrder
<1>2. ASSUME MainStep PROVE Goal BY <1>2, MainKeepsOrder
<1>3. ASSUME NEW g \in Session, NetworkThread(g) PROVE Goal
  BY <1>3, NetworkKeepsOrder DEF NetworkThread
<1>4. ASSUME NEW g \in Session, UseAfterReset(g), UNCHANGED coreVars PROVE Goal
  <2>0. ReturnFromFreed(g) BY <1>4, NoDamage DEF UseAfterReset
  <2>1. g = 1 /\ netpc \in [{1} -> NetPc] BY OneSession DEF TypeOK
  <2>2. netpc'[1] = "done" BY <2>0, <2>1 DEF ReturnFromFreed, GoTo
  <2>3. UNCHANGED <<mdQueue, md, hand, out, signal, sigQueue, epoch, nextSeq, stream, link, strpc>>
    BY <1>4, <2>0 DEF ReturnFromFreed, serverVars, coreVars
  <2> QED BY <2>2, <2>3, QuietStep
<1>5. ASSUME NEW g \in Session, StrategyStep(g) PROVE Goal BY <1>5, StrategyKeepsOrder
<1>6. ASSUME NEW g \in Session, ExecutionStep(g) PROVE Goal BY <1>6, ExecutionKeepsOrder
<1>7. ASSUME NEW g \in Session, Crash(g) PROVE Goal BY <1>7, CrashKeepsOrder
<1>8. ASSUME UNCHANGED vars PROVE Goal
  <2>1. UNCHANGED <<mdQueue, md, hand, out, signal, sigQueue, epoch, nextSeq, stream, link, strpc, netpc>>
    BY <1>8 DEF vars, serverVars, feedVars, coreVars
  <2> QED BY <2>1, QuietStep
<1> HIDE DEF Goal
<1>9. ~ProcessDies
  <2>1. 1 \in Session BY OneSession
  <2> QED BY <2>1, NoDamage
<1>10. Goal BY <1>1, <1>2, <1>3, <1>4, <1>5, <1>6, <1>7, <1>8, <1>9 DEF Next
<1> QED BY <1>10 DEF Goal

LEMMA UndamagedInit ==
  ASSUME StartedOnce, Init
  PROVE  Undamaged
BY OneSession DEF Init, FeedInit, Undamaged

LEMMA TickOrderInit ==
  ASSUME StartedOnce, Init
  PROVE  TickOrder
<1>1. /\ stream = <<>> /\ mdQueue = <<>> /\ sigQueue = <<>> /\ epoch = 0 /\ nextSeq = 0
      /\ md = [h \in {1} |-> None] /\ hand = [h \in {1} |-> None]
      /\ out = [h \in {1} |-> NoSignal] /\ signal = [h \in {1} |-> NoSignal]
      /\ netpc = [h \in {1} |-> "none"] /\ strpc = [h \in {1} |-> "none"]
  BY OneSession DEF Init, ServerInit, FeedInit
<1>2. Len(stream) = 0 /\ Len(mdQueue) = 0 /\ Len(sigQueue) = 0 BY <1>1, EmptySeq
<1>3. md[1] = None /\ hand[1] = None /\ out[1].tick = None /\ signal[1].tick = None
      /\ netpc[1] = "none" /\ strpc[1] = "none"
  BY <1>1 DEF NoSignal
<1>4. /\ QueueTicks = {} /\ HandTicks = {} /\ StreamTicks = {} /\ SigTicks = {} /\ OutTicks = {}
  BY <1>2, <1>3 DEF QueueTicks, HandTicks, StreamTicks, SigTicks, OutTicks
<1>5. Before(None, Now) BY <1>1 DEF Before, None, Now
<1>6. ~Before(None, None) BY DEF Before, None
<1>7. WholeTicks BY <1>2 DEF WholeTicks
<1>8. PipeInv BY <1>2, <1>3, <1>4, <1>5 DEF PipeInv, AllBefore, Sorted
<1>9. SignalInv BY <1>2, <1>3, <1>4, <1>6 DEF SignalInv, AllBefore, SortedSignals
<1> QED BY <1>7, <1>8, <1>9 DEF TickOrder

-----------------------------------------------------------------------------
(* From the sets of ticks to the sequences of TicksInOrder. *)

OrderedIn(s, P) == s \in Seq(AnyTick) /\ Sorted(s) /\ \A k \in 1..Len(s) : s[k] \in P

LEMMA OrderedIncreasing ==
  ASSUME NEW s, NEW P, OrderedIn(s, P)
  PROVE  Increasing(s)
<1>1. Len(s) \in Nat BY DEF OrderedIn
<1>2. ASSUME NEW k \in 1..(Len(s) - 1) PROVE Before(s[k], s[k + 1])
  <2>1. k \in 1..Len(s) /\ k + 1 \in 1..Len(s) /\ k < k + 1 BY <1>1
  <2> QED BY <2>1 DEF OrderedIn, Sorted
<1> QED BY <1>2 DEF Increasing

LEMMA OrderedConcat ==
  ASSUME NEW s, NEW P, OrderedIn(s, P), NEW t, NEW Q, OrderedIn(t, Q), AllBefore(P, Q)
  PROVE  OrderedIn(s \o t, P \cup Q) /\ Len(s \o t) = Len(s) + Len(t)
<1> DEFINE m == Len(s)
           n == Len(t)
           u == s \o t
<1>1. s \in Seq(AnyTick) /\ t \in Seq(AnyTick) BY DEF OrderedIn
<1>2. m \in Nat /\ n \in Nat BY <1>1
<1>3. /\ u \in Seq(AnyTick) /\ Len(u) = m + n
      /\ \A i \in 1..(m + n) : u[i] = IF i <= m THEN s[i] ELSE t[i - m]
  BY <1>1, ConcatProperties
<1>4. /\ \A i, j \in 1..m : i < j => Before(s[i], s[j])
      /\ \A i, j \in 1..n : i < j => Before(t[i], t[j])
      /\ \A i \in 1..m : s[i] \in P
      /\ \A j \in 1..n : t[j] \in Q
  BY DEF OrderedIn, Sorted
<1>5. \A i \in 1..m, j \in 1..n : Before(s[i], t[j]) BY <1>4 DEF AllBefore
<1> HIDE DEF m, n, u
<1>6. ASSUME NEW k \in 1..(m + n)
      PROVE  \/ k \in 1..m /\ u[k] = s[k]
             \/ k > m /\ k - m \in 1..n /\ u[k] = t[k - m]
  <2>1. CASE k <= m BY <1>2, <1>3, <2>1
  <2>2. CASE k > m
    <3>1. k - m \in 1..n BY <1>2, <2>2
    <3> QED BY <1>2, <1>3, <2>2, <3>1
  <2> QED BY <1>2, <2>1, <2>2
<1>7. ASSUME NEW i \in 1..(m + n), NEW j \in 1..(m + n), i < j PROVE Before(u[i], u[j])
  <2>1. CASE i \in 1..m /\ u[i] = s[i] /\ j \in 1..m /\ u[j] = s[j] BY <1>4, <1>7, <2>1
  <2>2. CASE i \in 1..m /\ u[i] = s[i] /\ j - m \in 1..n /\ u[j] = t[j - m] BY <1>5, <2>2
  <2>3. CASE i > m /\ i - m \in 1..n /\ u[i] = t[i - m] /\ j - m \in 1..n /\ u[j] = t[j - m]
    <3>1. i - m < j - m BY <1>2, <1>7
    <3> QED BY <1>4, <2>3, <3>1
  <2>4. ~(i > m /\ j \in 1..m) BY <1>2, <1>7
  <2> QED BY <1>6, <2>1, <2>2, <2>3, <2>4
<1>8. Sorted(u) BY <1>3, <1>7 DEF Sorted
<1>9. \A k \in 1..(m + n) : u[k] \in P \cup Q BY <1>4, <1>6
<1> QED BY <1>3, <1>8, <1>9 DEF OrderedIn, m, n, u

LEMMA OrderedPresent ==
  ASSUME NEW t \in AnyTick
  PROVE  /\ OrderedIn(Present(t), {t} \ {None}) /\ Len(Present(t)) \in Nat
         /\ OrderedIn(<<t>>, {t}) /\ Len(<<t>>) = 1
<1>1. OrderedIn(<<t>>, {t}) /\ Len(<<t>>) = 1 BY DEF OrderedIn, Sorted
<1>2. CASE t = None
  <2>1. Present(t) = <<>> BY <1>2 DEF Present
  <2>2. <<>> \in Seq(AnyTick) /\ Len(<<>>) = 0 BY EmptySeq
  <2>3. OrderedIn(<<>>, {t} \ {None}) BY <2>2 DEF OrderedIn, Sorted
  <2> QED BY <1>1, <2>1, <2>2, <2>3
<1>3. CASE t # None
  <2>1. Present(t) = <<t>> /\ {t} \ {None} = {t} BY <1>3 DEF Present
  <2> QED BY <1>1, <2>1
<1> QED BY <1>2, <1>3

LEMMA PipeIncreasing ==
  ASSUME StartedOnce, TypeOK, WholeTicks, PipeInv
  PROVE  Increasing(<<md[1]>> \o mdQueue \o Present(hand[1]) \o Ticks(stream))
<1> DEFINE a == <<md[1]>>
           b == mdQueue
           c == Present(hand[1])
           d == Ticks(stream)
           h == Len(stream) \div 2
<1>1. md[1] \in AnyTick /\ hand[1] \in AnyTick /\ b \in Seq(AnyTick) /\ Len(stream) \in Nat
  BY OneSession, StreamType DEF TypeOK
<1>2. OrderedIn(a, {md[1]}) BY <1>1, OrderedPresent
<1>3. OrderedIn(b, QueueTicks) BY <1>1 DEF OrderedIn, PipeInv, QueueTicks
<1>4. OrderedIn(c, HandTicks) BY <1>1, OrderedPresent DEF HandTicks
<1>5. OrderedIn(d, StreamTicks)
  <2>1. h \in Nat /\ \A k \in 1..h : 2 * k \in 1..Len(stream) BY <1>1
  <2>2. d = [k \in 1..h |-> stream[2 * k].tick] BY DEF Ticks
  <2> HIDE DEF h, d
  <2>3. \A k \in 1..h : stream[2 * k].tick \in AnyTick /\ stream[2 * k].tick \in StreamTicks
    BY <2>1, StreamType DEF StreamTicks, AnyTick
  <2>4. d \in [1..h -> AnyTick] BY <2>2, <2>3
  <2>5. d \in Seq(AnyTick) /\ Len(d) = h BY <2>1, <2>4, SeqDef, LenProperties
  <2>6. ASSUME NEW i \in 1..h, NEW j \in 1..h, i < j PROVE Before(d[i], d[j])
    <3>1. 2 * i < 2 * j /\ 2 * j # 2 * i + 1 BY <2>1, <2>6
    <3>2. Before(stream[2 * i].tick, stream[2 * j].tick) BY <2>1, <3>1 DEF WholeTicks
    <3> QED BY <2>2, <3>2
  <2>7. \A k \in 1..h : d[k] \in StreamTicks BY <2>2, <2>3
  <2> QED BY <2>5, <2>6, <2>7 DEF OrderedIn, Sorted
<1> HIDE DEF a, b, c, d
<1>6. /\ AllBefore({md[1]}, QueueTicks)
      /\ AllBefore({md[1]} \cup QueueTicks, HandTicks)
      /\ AllBefore({md[1]} \cup QueueTicks \cup HandTicks, StreamTicks)
  BY DEF PipeInv, AllBefore
<1>7. OrderedIn(a \o b, {md[1]} \cup QueueTicks) BY <1>2, <1>3, <1>6, OrderedConcat
<1>8. OrderedIn(a \o b \o c, {md[1]} \cup QueueTicks \cup HandTicks)
  BY <1>4, <1>6, <1>7, OrderedConcat
<1>9. OrderedIn(a \o b \o c \o d, {md[1]} \cup QueueTicks \cup HandTicks \cup StreamTicks)
  BY <1>5, <1>6, <1>8, OrderedConcat
<1>10. Increasing(a \o b \o c \o d) BY <1>9, OrderedIncreasing
<1> QED BY <1>10 DEF a, b, c, d

LEMMA OrdersIncreasing ==
  ASSUME StartedOnce, TypeOK, SignalInv
  PROVE  LET orders == <<signal[1].tick>> \o [k \in DOMAIN sigQueue |-> sigQueue[k].tick]
                         \o Present(out[1].tick)
         IN  Increasing(orders) /\ ~Before(md[1], Last(orders))
<1> DEFINE a == <<signal[1].tick>>
           b == [k \in DOMAIN sigQueue |-> sigQueue[k].tick]
           c == Present(out[1].tick)
           orders == a \o b \o c
           n == Len(sigQueue)
<1>1. /\ signal[1].tick \in AnyTick /\ out[1].tick \in AnyTick
      /\ n \in Nat /\ DOMAIN sigQueue = 1..n
  <2>1. signal[1] \in Signal /\ out[1] \in Signal BY OneSession DEF TypeOK
  <2>2. signal[1].tick \in AnyTick /\ out[1].tick \in AnyTick BY <2>1 DEF Signal
  <2>3. sigQueue \in Seq(Signal) BY DEF TypeOK
  <2>4. n \in Nat /\ DOMAIN sigQueue = 1..n BY <2>3
  <2> QED BY <2>2, <2>4
<1>2. OrderedIn(a, {signal[1].tick}) /\ Len(a) = 1 BY <1>1, OrderedPresent
<1>3. OrderedIn(b, SigTicks) /\ Len(b) \in Nat
  <2>1. b = [k \in 1..n |-> sigQueue[k].tick] BY <1>1
  <2> HIDE DEF b
  <2>2. \A k \in 1..n : sigQueue[k].tick \in SigTicks /\ sigQueue[k].tick \in AnyTick
    BY DEF SigTicks, SignalInv, AnyTick
  <2>3. \A i, j \in 1..n : i < j => Before(sigQueue[i].tick, sigQueue[j].tick)
    BY DEF SignalInv, SortedSignals
  <2> HIDE DEF n
  <2>4. b \in [1..n -> AnyTick] BY <2>1, <2>2
  <2>5. b \in Seq(AnyTick) /\ Len(b) = n BY <1>1, <2>4, SeqDef, LenProperties
  <2>6. \A i, j \in 1..n : i < j => Before(b[i], b[j]) BY <2>1, <2>3
  <2>7. \A k \in 1..n : b[k] \in SigTicks BY <2>1, <2>2
  <2> QED BY <1>1, <2>5, <2>6, <2>7 DEF OrderedIn, Sorted
<1>4. OrderedIn(c, OutTicks) /\ Len(c) \in Nat BY <1>1, OrderedPresent DEF OutTicks
<1>5. /\ AllBefore({signal[1].tick}, SigTicks)
      /\ AllBefore({signal[1].tick} \cup SigTicks, OutTicks)
  BY DEF SignalInv, AllBefore
<1> HIDE DEF a, b, c
<1>6. OrderedIn(a \o b, {signal[1].tick} \cup SigTicks) /\ Len(a \o b) = Len(a) + Len(b)
  BY <1>2, <1>3, <1>5, OrderedConcat
<1>7. /\ OrderedIn(a \o b \o c, {signal[1].tick} \cup SigTicks \cup OutTicks)
      /\ Len(a \o b \o c) = Len(a \o b) + Len(c)
  BY <1>4, <1>5, <1>6, OrderedConcat
<1>8. OrderedIn(orders, {signal[1].tick} \cup SigTicks \cup OutTicks) /\ Len(orders) = 1 + Len(b) + Len(c)
  BY <1>2, <1>6, <1>7
<1> HIDE DEF orders
<1>9. Increasing(orders) BY <1>8, OrderedIncreasing
<1>10. Len(orders) \in 1..Len(orders) BY <1>3, <1>4, <1>8
<1>11. orders[Len(orders)] \in {signal[1].tick} \cup SigTicks \cup OutTicks
  BY <1>8, <1>10 DEF OrderedIn
<1>12. ~Before(md[1], Last(orders)) BY <1>11 DEF SignalInv, Last
<1> QED BY <1>9, <1>12 DEF a, b, c, orders

(* Each tick reaches the strategy at most once and in the server's order,   *)
(* and makes at most one order: through reconnections, restarts of the      *)
(* server, full queues and crashed threads, whatever the capacities and     *)
(* however many of them there are.                                          *)
THEOREM TicksInOrderHolds ==
  ASSUME StartedOnce
  PROVE  Spec => []TicksInOrder
<1>1. Init => TickOrder /\ Undamaged BY TickOrderInit, UndamagedInit
<1>2. CoreInv /\ TickOrder /\ Undamaged /\ [Next]_vars => TickOrder' /\ Undamaged'
  BY TickOrderNext, UndamagedHolds DEF CoreInv
<1>3. CoreInv /\ TickOrder => TicksInOrder
  <2> SUFFICES ASSUME TypeOK, TickOrder, NEW g \in Session
               PROVE  LET orders == <<signal[g].tick>> \o [k \in DOMAIN sigQueue |-> sigQueue[k].tick]
                                      \o Present(out[g].tick)
                      IN  /\ Increasing(<<md[g]>> \o mdQueue \o Present(hand[g]) \o Ticks(stream))
                          /\ Increasing(orders)
                          /\ ~Before(md[g], Last(orders))
    BY DEF CoreInv, TicksInOrder
  <2>1. g = 1 BY OneSession
  <2> QED BY <2>1, PipeIncreasing, OrdersIncreasing DEF TickOrder
<1> QED BY <1>1, <1>2, <1>3, CoreInvariant, PTL DEF Spec

-----------------------------------------------------------------------------
(* The refinement of TickPipeline. *)

(* A signal waits in the strategy thread only until it is pushed. *)
OutIsPushed == strpc[1] \in {"none", "loop", "pop", "count"} => out[1].tick = None

(* What the single session's threads are. *)
LEMMA TheSession ==
  ASSUME StartedOnce, CoreInv
  PROVE  /\ Session = {1} /\ session \in {0, 1} /\ TypeOK
         /\ netpc \in [{1} -> NetPc]
         /\ strpc \in [{1} -> {"none", "loop", "pop", "push", "count", "done"}]
         /\ exepc \in [{1} -> {"none", "loop", "pop", "send", "done"}]
         /\ md \in [{1} -> AnyTick] /\ out \in [{1} -> Signal] /\ signal \in [{1} -> Signal]
         /\ (Alive(netpc, 1) \/ Alive(strpc, 1) \/ Alive(exepc, 1)) => session = 1
         /\ (session = 1 /\ mainpc = "startStrategy") => strpc[1] = "none"
         /\ (session = 1 /\ mainpc = "startExecution") => exepc[1] = "none"
<1>1. Session = {1} BY OneSession
<1>2. TypeOK /\ NotStarted BY DEF CoreInv
<1>3. session \in 0..1 BY <1>2 DEF TypeOK, StartedOnce
<1>4. session \in {0, 1} BY <1>3
<1>5. (Alive(netpc, 1) \/ Alive(strpc, 1) \/ Alive(exepc, 1)) => session = 1
  BY <1>1, <1>2, <1>4 DEF NotStarted, Alive
<1>6. /\ (session = 1 /\ mainpc = "startStrategy") => strpc[1] = "none"
      /\ (session = 1 /\ mainpc = "startExecution") => exepc[1] = "none"
  BY <1>1, <1>2 DEF NotStarted
<1> QED BY <1>1, <1>2, <1>4, <1>5, <1>6 DEF TypeOK

(* What the main thread changes of the strategy and the execution thread. *)
LEMMA MainStarts ==
  ASSUME StartedOnce, CoreInv, MainStep
  PROVE  /\ UNCHANGED <<md, out, sigQueue, signal, ordersSent, epoch, nextSeq>>
         /\ strpc'[1] = strpc[1] \/ (strpc[1] = "none" /\ strpc'[1] = "loop")
         /\ exepc'[1] = exepc[1] \/ (exepc[1] = "none" /\ exepc'[1] = "loop")
<1> USE DEF strVars, exeVars, serverVars, Connect, CloseSocket, NewSocket
<1>1. UNCHANGED <<md, out, sigQueue, signal, ordersSent, epoch, nextSeq>>
  BY DEF MainStep, InitializeClient, WorkClient, StartStrategy, StartExecution, ThreadFails, WorkReturns,
    StopClient, Destroy, JoinAll, InitializeFeed, FreeFeed
<1>2. CASE StartStrategy
  <2>1. strpc' = [strpc EXCEPT ![session] = "loop"] /\ exepc' = exepc /\ mainpc = "startStrategy"
    BY <1>2 DEF StartStrategy
  <2> QED BY <1>1, <2>1, TheSession
<1>3. CASE StartExecution
  <2>1. exepc' = [exepc EXCEPT ![session] = "loop"] /\ strpc' = strpc /\ mainpc = "startExecution"
    BY <1>3 DEF StartExecution
  <2> QED BY <1>1, <2>1, TheSession
<1>4. CASE ~StartStrategy /\ ~StartExecution
  <2>1. UNCHANGED <<strpc, exepc>>
    BY <1>4 DEF MainStep, InitializeClient, WorkClient, ThreadFails, WorkReturns, StopClient,
      Destroy, JoinAll
  <2> QED BY <1>1, <2>1
<1> QED BY <1>2, <1>3, <1>4

LEMMA OutIsPushedHolds ==
  ASSUME StartedOnce, CoreInv, Undamaged, OutIsPushed, [Next]_vars
  PROVE  OutIsPushed'
<1> DEFINE Goal == OutIsPushed'
<1>1. ASSUME UNCHANGED <<strpc, out>> PROVE Goal BY <1>1 DEF OutIsPushed
<1>2. ASSUME (ServerStep \/ Environment) /\ UNCHANGED <<feedVars, coreVars>> PROVE Goal
  BY <1>1, <1>2 DEF coreVars
<1>3. ASSUME MainStep PROVE Goal
  BY <1>3, MainStarts DEF OutIsPushed
<1>4. ASSUME UNCHANGED coreVars PROVE Goal BY <1>1, <1>4 DEF coreVars
<1>5. ASSUME NEW g \in Session, StrategyStep(g) PROVE Goal
  <2>1. g = 1 BY TheSession
  <2>2. CASE CheckStrategy(g) \/ NoTick(g) \/ CountSignal(g)
    <3>1. strpc[1] \in {"loop", "pop", "count"} /\ out' = out
      BY <2>1, <2>2 DEF CheckStrategy, NoTick, CountSignal
    <3> QED BY <3>1 DEF OutIsPushed
  <2>3. CASE PopTick(g)
    <3>1. strpc[1] = "pop" BY <2>1, <2>3 DEF PopTick
    <3>2. out' = out \/ strpc' = [strpc EXCEPT ![1] = "push"]
      BY <2>1, <2>3 DEF PopTick, TakeTick, StrategyGoesTo
    <3> QED BY <3>1, <3>2, TheSession DEF OutIsPushed
  <2>4. CASE PushSignal(g) \/ DropSignal(g)
    <3>1. out' = [out EXCEPT ![1] = NoSignal] BY <2>1, <2>4 DEF PushSignal, DropSignal
    <3> QED BY <3>1, TheSession DEF OutIsPushed, NoSignal
  <2> HIDE DEF Goal
  <2> QED BY <1>5, <2>2, <2>3, <2>4, NoDamage DEF StrategyStep
<1>6. ASSUME NEW g \in Session, ExecutionStep(g) PROVE Goal
  <2>1. TypeOK BY DEF CoreInv
  <2> QED BY <1>1, <1>6, <2>1, TypeParts, ExecutionKeepsType DEF strVars
<1>7. ASSUME NEW g \in Session, Crash(g) PROVE Goal
  <2>1. g = 1 BY TheSession
  <2>2. out' = out /\ (strpc' = strpc \/ strpc' = [strpc EXCEPT ![1] = "done"])
    BY <1>7, <2>1 DEF Crash, StrategyGoesTo
  <2> QED BY <2>2, TheSession DEF OutIsPushed
<1>8. ASSUME UNCHANGED vars PROVE Goal BY <1>4, <1>8 DEF vars
<1> HIDE DEF Goal
<1>9. ~ProcessDies
  <2>1. 1 \in Session BY OneSession
  <2> QED BY <2>1, NoDamage
<1>10. Goal BY <1>2, <1>3, <1>4, <1>5, <1>6, <1>7, <1>8, <1>9 DEF Next, NetworkThread
<1> QED BY <1>10 DEF Goal

(* The places of ticks are ordered as the ticks are. *)
LEMMA Places ==
  \A s, t : /\ Before(s, t) <=> Pipeline!Precedes(Place(s), Place(t))
            /\ (Place(s) = Place(t) /\ s \in Stamped /\ t \in Stamped) => ~Before(s, t)
<1> SUFFICES ASSUME NEW s, NEW t
             PROVE  /\ Before(s, t) <=> Pipeline!Precedes(Place(s), Place(t))
                    /\ (Place(s) = Place(t) /\ s \in Stamped /\ t \in Stamped) => ~Before(s, t)
  OBVIOUS
<1>1. Place(s)[1] = s.epoch /\ Place(s)[2] = s.seq /\ Place(t)[1] = t.epoch /\ Place(t)[2] = t.seq
  BY DEF Place
<1>2. (s \in Stamped /\ t \in Stamped) => /\ s.epoch \in Int /\ s.seq \in Int
                                          /\ t.epoch \in Int /\ t.seq \in Int
  BY DEF Stamped
<1>3. Before(s, t) <=> Pipeline!Precedes(Place(s), Place(t)) BY <1>1 DEF Before, Pipeline!Precedes
<1>4. Place(s) = Place(t) => s.epoch = t.epoch /\ s.seq = t.seq BY <1>1
<1>5. (Place(s) = Place(t) /\ s \in Stamped /\ t \in Stamped) => ~Before(s, t)
  BY <1>2, <1>4 DEF Before
<1> QED BY <1>3, <1>5

PlacesOf(T) == {Place(t) : t \in T}

LEMMA DecidedIs == TypeOK /\ SignalInv => Decided = PlacesOf(SigTicks \cup OutTicks)
<1> SUFFICES ASSUME TypeOK, SignalInv PROVE Decided = PlacesOf(SigTicks \cup OutTicks) OBVIOUS
<1>1. sigQueue \in Seq(Signal) BY DEF TypeOK
<1>2. DOMAIN sigQueue = 1..Len(sigQueue) BY <1>1, LenProperties
<1>3. {s.tick : s \in ToSet(sigQueue)} = SigTicks BY <1>2 DEF ToSet, SigTicks
<1>4. None \notin SigTicks BY Stamps DEF SignalInv
<1>5. ({s.tick : s \in ToSet(sigQueue)} \cup {out[1].tick}) \ {None} = SigTicks \cup OutTicks
  BY <1>3, <1>4 DEF OutTicks
<1> QED BY <1>5 DEF Decided, PlacesOf

LEMMA DecidedIsNext == (TypeOK /\ SignalInv => Decided = PlacesOf(SigTicks \cup OutTicks))'
BY DecidedIs, PTL

(* Removing the earliest or the latest of some ticks, removes its place and *)
(* no other.                                                                *)
LEMMA OneTickLess ==
  ASSUME NEW T, NEW t, T \subseteq Stamped, t \in Stamped, t \notin T,
         \/ \A u \in T : Before(t, u)
         \/ \A u \in T : Before(u, t)
  PROVE  /\ PlacesOf(T) = PlacesOf(T \cup {t}) \ {Place(t)}
         /\ Place(t) \in PlacesOf(T \cup {t})
         /\ (\A u \in T : Before(t, u)) =>
              \A p \in PlacesOf(T \cup {t}) \ {Place(t)} : Pipeline!Precedes(Place(t), p)
         /\ (\A u \in T : Before(u, t)) =>
              \A p \in PlacesOf(T \cup {t}) \ {Place(t)} : Pipeline!Precedes(p, Place(t))
<1>1. \A u \in T : Place(u) # Place(t) BY Places
<1>2. PlacesOf(T) = PlacesOf(T \cup {t}) \ {Place(t)} BY <1>1 DEF PlacesOf
<1>3. Place(t) \in PlacesOf(T \cup {t}) BY DEF PlacesOf
<1>4. \A p \in PlacesOf(T) : \E u \in T : p = Place(u) BY DEF PlacesOf
<1>5. (\A u \in T : Before(t, u)) => \A p \in PlacesOf(T) : Pipeline!Precedes(Place(t), p)
  BY <1>4, Places
<1>6. (\A u \in T : Before(u, t)) => \A p \in PlacesOf(T) : Pipeline!Precedes(p, Place(t))
  BY <1>4, Places
<1> QED BY <1>2, <1>3, <1>5, <1>6
-----------------------------------------------------------------------------
(* Each step of the client is a step of the pipeline. *)

PipelineStep == [Pipeline!Next]_Pipeline!pipelineVars

(* What the client has taken from its queues and what waits there. *)
Holdings == <<md, out, sigQueue, signal, ordersSent>>

LEMMA SameHoldings ==
  ASSUME UNCHANGED Holdings
  PROVE  /\ Decided' = Decided /\ Place(md[1])' = Place(md[1])
         /\ Place(signal[1].tick)' = Place(signal[1].tick) /\ ordersSent' = ordersSent
BY DEF Holdings, Decided, Place

LEMMA NothingHappens ==
  ASSUME UNCHANGED Holdings, UNCHANGED <<epoch, nextSeq>>, Life' = Life, Looking' = Looking,
         exepc'[1] = "send" <=> exepc[1] = "send"
  PROVE  PipelineStep
<1>1. /\ Decided' = Decided /\ Place(md[1])' = Place(md[1])
      /\ Place(signal[1].tick)' = Place(signal[1].tick) /\ ordersSent' = ordersSent
  BY SameHoldings
<1>2. UNCHANGED Pipeline!pipelineVars BY <1>1 DEF Pipeline!pipelineVars, Pipeline!places
<1> QED BY <1>2 DEF PipelineStep

LEMMA ItStops ==
  ASSUME UNCHANGED Holdings, UNCHANGED <<epoch, nextSeq>>, Life # "new", Life' = "off",
         Looking' \subseteq Looking, exepc'[1] = "send" => exepc[1] = "send"
  PROVE  PipelineStep
<1>1. /\ Decided' = Decided /\ Place(md[1])' = Place(md[1])
      /\ Place(signal[1].tick)' = Place(signal[1].tick) /\ ordersSent' = ordersSent
  BY SameHoldings
<1>2. Pipeline!Stop BY <1>1 DEF Pipeline!Stop, Pipeline!places
<1> QED BY <1>2 DEF PipelineStep, Pipeline!Next

LEMMA ServerIsPipeline ==
  ASSUME TypeOK, ServerStep \/ Environment, UNCHANGED <<feedVars, coreVars>>
  PROVE  PipelineStep
<1>1. /\ UNCHANGED Holdings /\ Life' = Life /\ Looking' = Looking /\ exepc' = exepc
  BY DEF feedVars, coreVars, Holdings, Life, Looking
<1>2. epoch \in Nat /\ nextSeq \in Nat BY DEF TypeOK
<1>3. \/ UNCHANGED <<epoch, nextSeq>>
      \/ epoch' = epoch /\ nextSeq' = nextSeq + 1
      \/ epoch' = epoch + 1
  BY DEF ServerStep, Environment, AcceptClient, SendTick, SendLost, SendFails, BreakLink, CrashServer,
    RestartServer
<1>4. CASE UNCHANGED <<epoch, nextSeq>> BY <1>1, <1>4, NothingHappens
<1>5. CASE (epoch' = epoch /\ nextSeq' = nextSeq + 1) \/ epoch' = epoch + 1
  <2>1. epoch < epoch' \/ (epoch = epoch' /\ nextSeq < nextSeq') BY <1>2, <1>5
  <2>2. Pipeline!Precedes(<<epoch, nextSeq>>, <<epoch', nextSeq'>>) BY <2>1 DEF Pipeline!Precedes
  <2>3. Pipeline!MakeTick BY <1>1, <2>2, SameHoldings DEF Pipeline!MakeTick
  <2> QED BY <2>3 DEF PipelineStep, Pipeline!Next
<1> QED BY <1>3, <1>4, <1>5

LEMMA MainIsPipeline ==
  ASSUME StartedOnce, CoreInv, MainStep
  PROVE  PipelineStep
<1>1. /\ UNCHANGED Holdings /\ UNCHANGED <<epoch, nextSeq>> /\ Looking' = Looking
      /\ exepc'[1] = "send" <=> exepc[1] = "send"
  BY MainStarts DEF Holdings, Looking
<1>2. CASE WorkClient
  <2>1. ~running /\ running' = TRUE /\ session' = session + 1 /\ session < 1
    BY <1>2 DEF WorkClient, StartedOnce
  <2>2. session = 0 /\ session' = 1 BY <2>1, TheSession
  <2>3. Life = "new" /\ Life' = "on" BY <2>1, <2>2 DEF Life
  <2>4. Pipeline!Start BY <1>1, <2>3, SameHoldings DEF Pipeline!Start, Pipeline!places
  <2> QED BY <2>4 DEF PipelineStep, Pipeline!Next
<1>3. CASE StopClient
  <2>1. running' = FALSE /\ session' = session BY <1>3 DEF StopClient
  <2>2. CASE session = 0
    <3>1. Life' = Life BY <2>1, <2>2 DEF Life
    <3> QED BY <1>1, <3>1, NothingHappens
  <2>3. CASE session # 0
    <3>1. Life # "new" /\ Life' = "off" BY <2>1, <2>3 DEF Life
    <3> QED BY <1>1, <3>1, ItStops
  <2> QED BY <2>2, <2>3
<1>4. CASE ThreadFails
  <2>1. session' = session /\ (running' = running \/ session < MaxSessions)
    BY <1>4 DEF ThreadFails
  <2>2. running' = running \/ session = 0 BY <2>1, TheSession DEF StartedOnce
  <2>3. Life' = Life BY <2>1, <2>2 DEF Life
  <2> QED BY <1>1, <2>3, NothingHappens
<1>5. CASE ~WorkClient /\ ~StopClient /\ ~ThreadFails
  <2>1. UNCHANGED <<running, session>>
    BY <1>5 DEF MainStep, InitializeClient, StartStrategy, StartExecution, WorkReturns, Destroy,
      JoinAll, feedVars
  <2>2. Life' = Life BY <2>1 DEF Life
  <2> QED BY <1>1, <2>2, NothingHappens
<1> QED BY <1>2, <1>3, <1>4, <1>5

LEMMA NetworkIsPipeline ==
  ASSUME StartedOnce, CoreInv, Undamaged, NEW g \in Session,
         NetworkStep(g) \/ UseAfterReset(g), UNCHANGED coreVars
  PROVE  PipelineStep
<1>1. UNCHANGED Holdings /\ Looking' = Looking /\ exepc' = exepc /\ session' = session
  BY DEF coreVars, Holdings, Looking
<1>2. g = 1 /\ TypeOK /\ FeedTypeOK BY TheSession, TypeParts
<1>3. CASE ReturnFromFreed(g)
  <2>1. UNCHANGED <<epoch, nextSeq, running>> BY <1>3 DEF ReturnFromFreed, serverVars
  <2>2. Life' = Life BY <1>1, <2>1 DEF Life
  <2> QED BY <1>1, <2>1, <2>2, NothingHappens
<1>4. CASE NetworkStep(g)
  <2>1. UNCHANGED <<epoch, nextSeq>>
    BY <1>4, NoDamage DEF NetworkStep, CheckRunning, CheckRetry, Reconnect, ReconnectFails,
      EndRetries, CheckClient, GiveUp, RecvFails, DropClient, RecvPartial, RecvTick, Push, QueueFull,
      SpinAgain, DropTick, serverVars, Connect, CloseSocket, NewSocket
  <2>2. Alive(netpc, g) /\ (running' => running) /\ running' \in BOOLEAN
    <3>1. running' \in BOOLEAN
      BY <1>2, <1>4, NoDamage DEF FeedTypeOK, NetworkStep, CheckRunning, CheckRetry, Reconnect,
        ReconnectFails, EndRetries, CheckClient, GiveUp, RecvFails, DropClient, RecvPartial, RecvTick,
        Push, QueueFull, SpinAgain, DropTick
    <3> QED BY <1>2, <1>4, <3>1, NetworkMoves
  <2>3. session = 1 BY <1>2, <2>2, TheSession
  <2>4. running \in BOOLEAN BY <1>2 DEF FeedTypeOK
  <2>5. CASE running' = running
    <3>1. Life' = Life BY <1>1, <2>5 DEF Life
    <3> QED BY <1>1, <2>1, <3>1, NothingHappens
  <2>6. CASE ~running'
    <3>1. Life # "new" /\ Life' = "off" BY <1>1, <2>3, <2>6 DEF Life
    <3> QED BY <1>1, <2>1, <3>1, ItStops
  <2> QED BY <2>2, <2>4, <2>5, <2>6
<1> QED BY <1>3, <1>4, NoDamage DEF UseAfterReset

LEMMA StrategyIsPipeline ==
  ASSUME StartedOnce, CoreInv, CoreInv', Undamaged, TickOrder, TickOrder', OutIsPushed,
         NEW g \in Session, StrategyStep(g)
  PROVE  PipelineStep
<1>1. g = 1 /\ TypeOK /\ TypeOK' BY TheSession DEF CoreInv
<1>2. /\ UNCHANGED <<epoch, nextSeq, signal, ordersSent, exepc, running, session>>
      /\ Life' = Life
  BY <1>1, TypeParts, StrategyKeepsType DEF serverVars, exeVars, mainVars, Life
<1>3. PipeInv /\ SignalInv /\ SignalInv' BY DEF TickOrder
<1>4. Place(signal[1].tick)' = Place(signal[1].tick) BY <1>2 DEF Place
<1>5. session = 1
  <2>1. Alive(strpc, 1) BY <1>1, StrategyMoves
  <2> QED BY <2>1, TheSession
<1>6. CASE CheckStrategy(g)
  <2>1. strpc[1] = "loop" /\ strpc' = [strpc EXCEPT ![1] = IF running THEN "pop" ELSE "done"]
        /\ UNCHANGED Holdings
    BY <1>1, <1>2, <1>6 DEF CheckStrategy, StrategyGoesTo, Holdings
  <2>2. CASE running
    <3>1. strpc'[1] = "pop" BY <2>1, <2>2, TheSession
    <3>2. Looking' = Looking \cup {"strategy"} BY <1>2, <2>1, <3>1 DEF Looking
    <3>3. Life = "on" BY <1>5, <2>2 DEF Life
    <3>4. Pipeline!Look("strategy")
      BY <1>2, <2>1, <3>2, <3>3, SameHoldings DEF Pipeline!Look, Pipeline!places
    <3> QED BY <3>4 DEF PipelineStep, Pipeline!Next
  <2>3. CASE ~running
    <3>1. strpc'[1] = "done" BY <2>1, <2>3, TheSession
    <3>2. Looking' = Looking BY <1>2, <2>1, <3>1 DEF Looking
    <3> QED BY <1>2, <2>1, <3>2, NothingHappens
  <2> QED BY <2>2, <2>3
<1>7. CASE NoTick(g)
  <2>1. strpc[1] = "pop" /\ strpc' = [strpc EXCEPT ![1] = "loop"] /\ UNCHANGED Holdings
    BY <1>1, <1>2, <1>7 DEF NoTick, StrategyGoesTo, Holdings
  <2>2. strpc'[1] = "loop" BY <2>1, TheSession
  <2>3. Looking' = Looking \ {"strategy"} BY <1>2, <2>1, <2>2 DEF Looking
  <2>4. Pipeline!FindNothing("strategy")
    BY <1>2, <2>1, <2>3, SameHoldings DEF Pipeline!FindNothing, Pipeline!places
  <2> QED BY <2>4 DEF PipelineStep, Pipeline!Next
<1>8. CASE PopTick(g)
  <2> DEFINE t == Head(mdQueue)
  <2>1. /\ strpc[1] = "pop" /\ mdQueue # <<>> /\ mdQueue' = Tail(mdQueue) /\ sigQueue' = sigQueue
        /\ md' = [md EXCEPT ![1] = t]
    BY <1>1, <1>8 DEF PopTick, TakeTick
  <2>2. t \in QueueTicks BY <1>1, <1>3, <2>1, QueuePopped
  <2>3. \/ out' = out /\ strpc'[1] = "loop"
        \/ out'[1].tick = t /\ strpc'[1] = "push"
    <3>1. PICK type \in SignalTypes(Head(mdQueue)) :
            IF type = "HOLD"
            THEN StrategyGoesTo(g, "loop") /\ UNCHANGED out
            ELSE /\ StrategyGoesTo(g, "push")
                 /\ out' = [out EXCEPT ![g] = [tick |-> Head(mdQueue), type |-> type]]
      BY <1>8 DEF PopTick, TakeTick
    <3> QED BY <1>1, <3>1, TheSession DEF StrategyGoesTo
  <2> HIDE DEF t
  <2>4. t \in Tick /\ t # None BY <1>3, <2>2, Stamps DEF PipeInv
  <2>5. Before(md[1], t) /\ Before(t, Now) BY <1>3, <2>2 DEF PipeInv, AllBefore
  <2>6. md'[1] = t BY <2>1, TheSession
  <2>7. Place(md[1])' = Place(t) BY <2>6 DEF Place
  <2>8. Place(Now) = <<epoch, nextSeq>> BY DEF Place, Now
  <2>9. /\ Pipeline!Precedes(Place(md[1]), Place(md[1])')
        /\ Pipeline!Precedes(Place(md[1])', <<epoch, nextSeq>>)
    <3>1. /\ Pipeline!Precedes(Place(md[1]), Place(t)) /\ Pipeline!Precedes(Place(t), Place(Now))
      BY <2>5, Places
    <3> QED BY <2>7, <2>8, <3>1
  <2>10. "strategy" \in Looking /\ Looking' = Looking \ {"strategy"} BY <1>2, <2>1, <2>3 DEF Looking
  <2>11. OutTicks = {} BY <2>1 DEF OutIsPushed, OutTicks
  <2>12. SigTicks' = SigTicks BY <2>1 DEF SigTicks
  <2>13. Decided = PlacesOf(SigTicks) /\ Decided' = PlacesOf(SigTicks' \cup OutTicks')
    BY <1>1, <1>3, <2>11, DecidedIs, DecidedIsNext
  <2>14. Decided' \in {Decided, Decided \cup {Place(md[1])'}}
    <3>1. CASE out' = out
      <4>1. OutTicks' = {} BY <2>11, <3>1 DEF OutTicks
      <4> QED BY <2>12, <2>13, <4>1
    <3>2. CASE out'[1].tick = t
      <4>1. OutTicks' = {t} BY <2>4, <3>2 DEF OutTicks
      <4>2. PlacesOf(SigTicks \cup {t}) = PlacesOf(SigTicks) \cup {Place(t)} BY DEF PlacesOf
      <4> QED BY <2>7, <2>12, <2>13, <4>1, <4>2
    <3> QED BY <2>3, <3>1, <3>2
  <2>15. Pipeline!Handle BY <1>2, <1>4, <2>9, <2>10, <2>14 DEF Pipeline!Handle
  <2> QED BY <2>15 DEF PipelineStep, Pipeline!Next
<1>9. CASE PushSignal(g)
  <2>1. /\ strpc[1] = "push" /\ sigQueue' = Append(sigQueue, out[1])
        /\ out' = [out EXCEPT ![1] = NoSignal] /\ strpc' = [strpc EXCEPT ![1] = "count"]
        /\ md' = md
    BY <1>1, <1>9 DEF PushSignal, StrategyGoesTo
  <2>2. out[1] \in Signal /\ OutTicks = {out[1].tick}
    BY <1>3, <2>1, TheSession DEF SignalInv, OutTicks
  <2>3. AllBefore(SigTicks, {out[1].tick}) BY <1>3, <2>2 DEF SignalInv
  <2>4. SigTicks' = SigTicks \cup {out[1].tick} BY <1>1, <1>3, <2>1, <2>2, <2>3, SignalPushed
  <2>5. out'[1].tick = None /\ strpc'[1] = "count" BY <2>1, TheSession DEF NoSignal
  <2>6. OutTicks' = {} BY <2>5 DEF OutTicks
  <2>7. SigTicks' \cup OutTicks' = SigTicks \cup OutTicks BY <2>2, <2>4, <2>6
  <2>8. Decided' = Decided
    <3>1. Decided = PlacesOf(SigTicks \cup OutTicks) /\ Decided' = PlacesOf(SigTicks' \cup OutTicks')
      BY <1>1, <1>3, DecidedIs, DecidedIsNext
    <3> QED BY <2>7, <3>1
  <2>9. Looking' = Looking BY <1>2, <2>1, <2>5 DEF Looking
  <2>10. Place(md[1])' = Place(md[1]) BY <2>1 DEF Place
  <2>11. UNCHANGED Pipeline!pipelineVars
    BY <1>2, <1>4, <2>8, <2>9, <2>10 DEF Pipeline!pipelineVars, Pipeline!places
  <2> QED BY <2>11 DEF PipelineStep
<1>10. CASE DropSignal(g)
  <2>1. /\ strpc[1] = "push" /\ out' = [out EXCEPT ![1] = NoSignal]
        /\ strpc' = [strpc EXCEPT ![1] = "loop"] /\ UNCHANGED <<md, sigQueue>>
    BY <1>1, <1>10 DEF DropSignal, StrategyGoesTo
  <2> DEFINE t == out[1].tick
  <2>2. OutTicks = {t} /\ t \in Tick BY <1>3, <2>1 DEF SignalInv, OutTicks
  <2>3. AllBefore(SigTicks, {t}) BY <1>3, <2>2 DEF SignalInv
  <2>4. out'[1].tick = None /\ strpc'[1] = "loop" BY <2>1, TheSession DEF NoSignal
  <2>5. OutTicks' = {} /\ SigTicks' = SigTicks BY <2>1, <2>4 DEF OutTicks, SigTicks
  <2> HIDE DEF t
  <2>6. SigTicks \subseteq Stamped /\ t \in Stamped /\ \A u \in SigTicks : Before(u, t)
    BY <1>3, <2>2, <2>3, Stamps DEF SignalInv, AllBefore
  <2>7. t \notin SigTicks BY <2>6, BeforeFacts
  <2>8. Decided = PlacesOf(SigTicks \cup {t}) /\ Decided' = PlacesOf(SigTicks)
    <3>1. SigTicks' \cup OutTicks' = SigTicks BY <2>5
    <3> QED BY <1>1, <1>3, <2>2, <3>1, DecidedIs, DecidedIsNext
  <2>9. /\ Decided' = Decided \ {Place(t)} /\ Place(t) \in Decided
        /\ \A u \in Decided \ {Place(t)} : Pipeline!Precedes(u, Place(t))
    BY <2>6, <2>7, <2>8, OneTickLess
  <2>10. Looking' = Looking BY <1>2, <2>1, <2>4 DEF Looking
  <2>11. Place(md[1])' = Place(md[1]) BY <2>1 DEF Place
  <2>12. Pipeline!Drop BY <1>2, <1>4, <2>9, <2>10, <2>11 DEF Pipeline!Drop
  <2> QED BY <2>12 DEF PipelineStep, Pipeline!Next
<1>11. CASE CountSignal(g)
  <2>1. strpc[1] = "count" /\ strpc' = [strpc EXCEPT ![1] = "loop"] /\ UNCHANGED Holdings
    BY <1>1, <1>2, <1>11 DEF CountSignal, StrategyGoesTo, Holdings
  <2>2. strpc'[1] = "loop" BY <2>1, TheSession
  <2>3. Looking' = Looking BY <1>2, <2>1, <2>2 DEF Looking
  <2> QED BY <1>2, <2>1, <2>3, NothingHappens
<1> QED BY <1>6, <1>7, <1>8, <1>9, <1>10, <1>11, NoDamage DEF StrategyStep

(* The head of the signal queue is the earliest decision. *)
LEMMA HeadIsEarliest ==
  ASSUME TypeOK, SignalInv, sigQueue # <<>>, sigQueue' = Tail(sigQueue)
  PROVE  SigTicks = SigTicks' \cup {Head(sigQueue).tick}
<1> DEFINE n == Len(sigQueue)
<1>1. sigQueue \in Seq(Signal) BY DEF TypeOK
<1>2. /\ n \in Nat /\ n > 0 /\ Head(sigQueue) = sigQueue[1] /\ Len(sigQueue') = n - 1
      /\ \A k \in 1..(n - 1) : sigQueue'[k] = sigQueue[k + 1]
  BY <1>1
<1> HIDE DEF n
<1>3. /\ SigTicks = {sigQueue[k].tick : k \in 1..n}
      /\ SigTicks' = {sigQueue'[k].tick : k \in 1..(n - 1)}
  BY <1>2 DEF SigTicks, n
<1>4. \A k \in 1..n : k = 1 \/ (k - 1 \in 1..(n - 1) /\ sigQueue'[k - 1] = sigQueue[k])
  <2> SUFFICES ASSUME NEW k \in 1..n, k # 1
               PROVE  k - 1 \in 1..(n - 1) /\ sigQueue'[k - 1] = sigQueue[k]
    OBVIOUS
  <2>1. k - 1 \in 1..(n - 1) /\ (k - 1) + 1 = k BY <1>2
  <2> QED BY <1>2, <2>1
<1>5. ASSUME NEW k \in 1..n PROVE sigQueue[k].tick \in SigTicks' \cup {Head(sigQueue).tick}
  <2>1. CASE k = 1 BY <1>2, <2>1
  <2>2. CASE k # 1
    <3>1. k - 1 \in 1..(n - 1) /\ sigQueue'[k - 1].tick = sigQueue[k].tick BY <1>4, <2>2
    <3>2. sigQueue'[k - 1].tick \in SigTicks' BY <1>3, <3>1
    <3> QED BY <3>1, <3>2
  <2> QED BY <2>1, <2>2
<1>6. SigTicks' \cup {Head(sigQueue).tick} \subseteq SigTicks BY SignalPopped
<1> QED BY <1>3, <1>5, <1>6

LEMMA ExecutionIsPipeline ==
  ASSUME StartedOnce, CoreInv, CoreInv', Undamaged, TickOrder, TickOrder',
         NEW g \in Session, ExecutionStep(g)
  PROVE  PipelineStep
<1>1. g = 1 /\ TypeOK /\ TypeOK' BY TheSession DEF CoreInv
<1>2. /\ UNCHANGED <<epoch, nextSeq, md, out, strpc, running, session>>
      /\ Life' = Life
  BY <1>1, TypeParts, ExecutionKeepsType DEF serverVars, strVars, mainVars, Life
<1>3. SignalInv /\ SignalInv' BY DEF TickOrder
<1>4. Place(md[1])' = Place(md[1]) BY <1>2 DEF Place
<1>5. session = 1
  <2>1. Alive(exepc, 1) BY <1>1, ExecutionMoves
  <2> QED BY <2>1, TheSession
<1>6. CASE CheckExecution(g)
  <2>1. exepc[1] = "loop" /\ exepc' = [exepc EXCEPT ![1] = IF running THEN "pop" ELSE "done"]
        /\ UNCHANGED Holdings
    BY <1>1, <1>2, <1>6 DEF CheckExecution, ExecutionGoesTo, Holdings
  <2>2. CASE running
    <3>1. exepc'[1] = "pop" BY <2>1, <2>2, TheSession
    <3>2. Looking' = Looking \cup {"execution"} BY <1>2, <2>1, <3>1 DEF Looking
    <3>3. Life = "on" BY <1>5, <2>2 DEF Life
    <3>4. Pipeline!Look("execution")
      BY <1>2, <2>1, <3>1, <3>2, <3>3, SameHoldings DEF Pipeline!Look, Pipeline!places
    <3> QED BY <3>4 DEF PipelineStep, Pipeline!Next
  <2>3. CASE ~running
    <3>1. exepc'[1] = "done" BY <2>1, <2>3, TheSession
    <3>2. Looking' = Looking BY <1>2, <2>1, <3>1 DEF Looking
    <3> QED BY <1>2, <2>1, <3>1, <3>2, NothingHappens
  <2> QED BY <2>2, <2>3
<1>7. CASE NothingToSend(g)
  <2>1. exepc[1] = "pop" /\ exepc' = [exepc EXCEPT ![1] = "loop"] /\ UNCHANGED Holdings
    BY <1>1, <1>2, <1>7 DEF NothingToSend, ExecutionGoesTo, Holdings
  <2>2. exepc'[1] = "loop" BY <2>1, TheSession
  <2>3. Looking' = Looking \ {"execution"} BY <1>2, <2>1, <2>2 DEF Looking
  <2>4. Pipeline!FindNothing("execution")
    BY <1>2, <2>1, <2>2, <2>3, SameHoldings DEF Pipeline!FindNothing, Pipeline!places
  <2> QED BY <2>4 DEF PipelineStep, Pipeline!Next
<1>8. CASE PopSignal(g)
  <2> DEFINE t == Head(sigQueue).tick
  <2>1. /\ exepc[1] = "pop" /\ sigQueue # <<>> /\ sigQueue' = Tail(sigQueue)
        /\ signal' = [signal EXCEPT ![1] = Head(sigQueue)] /\ exepc' = [exepc EXCEPT ![1] = "send"]
        /\ ordersSent' = ordersSent
    BY <1>1, <1>8 DEF PopSignal, ExecutionGoesTo
  <2>2. t \in SigTicks /\ AllBefore({t}, SigTicks') BY <1>1, <1>3, <2>1, SignalPopped
  <2>3. SigTicks = SigTicks' \cup {t} BY <1>1, <1>3, <2>1, HeadIsEarliest
  <2>4. signal'[1].tick = t /\ exepc'[1] = "send" BY <2>1, TheSession
  <2> HIDE DEF t
  <2>5. OutTicks' = OutTicks BY <1>2 DEF OutTicks
  <2> DEFINE T == SigTicks' \cup OutTicks
  <2>6. t \in Stamped /\ T \subseteq Stamped /\ \A u \in T : Before(t, u)
    BY <1>3, <2>2, <2>3, Stamps DEF SignalInv, AllBefore, OutTicks
  <2>7. t \notin T BY <2>6, BeforeFacts
  <2>8. Decided = PlacesOf(T \cup {t}) /\ Decided' = PlacesOf(T)
    <3>1. SigTicks \cup OutTicks = T \cup {t} BY <2>3
    <3>2. SigTicks' \cup OutTicks' = T BY <2>5
    <3>3. Decided = PlacesOf(SigTicks \cup OutTicks) /\ Decided' = PlacesOf(SigTicks' \cup OutTicks')
      BY <1>1, <1>3, DecidedIs, DecidedIsNext
    <3> HIDE DEF T
    <3> QED BY <3>1, <3>2, <3>3
  <2> HIDE DEF T
  <2>9. /\ Decided' = Decided \ {Place(t)} /\ Place(t) \in Decided
        /\ \A u \in Decided \ {Place(t)} : Pipeline!Precedes(Place(t), u)
    BY <2>6, <2>7, <2>8, OneTickLess
  <2>10. "execution" \in Looking /\ Looking' = Looking \ {"execution"}
    BY <1>2, <2>1, <2>4 DEF Looking
  <2>11. Place(signal[1].tick)' = Place(t) BY <2>4 DEF Place
  <2>12. Pipeline!BeginOrder
    BY <1>2, <1>4, <2>1, <2>4, <2>9, <2>10, <2>11 DEF Pipeline!BeginOrder
  <2> QED BY <2>12 DEF PipelineStep, Pipeline!Next
<1>9. CASE SendOrder(g)
  <2>1. /\ exepc[1] = "send" /\ exepc' = [exepc EXCEPT ![1] = "loop"] /\ ordersSent' = ordersSent + 1
        /\ UNCHANGED <<sigQueue, signal>>
    BY <1>1, <1>9 DEF SendOrder, ExecutionGoesTo
  <2>2. exepc'[1] = "loop" BY <2>1, TheSession
  <2>3. Looking' = Looking BY <1>2, <2>1, <2>2 DEF Looking
  <2>4. Decided' = Decided BY <1>2, <2>1 DEF Decided
  <2>5. Place(signal[1].tick)' = Place(signal[1].tick) BY <2>1 DEF Place
  <2>6. Pipeline!SendOrder
    BY <1>2, <1>4, <2>1, <2>2, <2>3, <2>4, <2>5 DEF Pipeline!SendOrder, Pipeline!places
  <2> QED BY <2>6 DEF PipelineStep, Pipeline!Next
<1> QED BY <1>6, <1>7, <1>8, <1>9, NoDamage DEF ExecutionStep

LEMMA CrashIsPipeline ==
  ASSUME StartedOnce, CoreInv, NEW g \in Session, Crash(g)
  PROVE  PipelineStep
<1>1. UNCHANGED Holdings /\ UNCHANGED <<epoch, nextSeq>> /\ session' = session /\ ~running'
  BY CrashMoves DEF Crash, Holdings, serverVars, mainVars
<1>2. g = 1 BY TheSession
<1>3. session = 1 BY <1>2, CrashMoves, TheSession
<1>4. /\ strpc' = strpc \/ strpc'[1] = "done"
      /\ exepc' = exepc \/ exepc'[1] = "done"
  BY <1>2, CrashMoves, TheSession
<1>5. Life # "new" /\ Life' = "off" BY <1>1, <1>3 DEF Life
<1>6. Looking' \subseteq Looking /\ (exepc'[1] = "send" => exepc[1] = "send") BY <1>4 DEF Looking
<1> QED BY <1>1, <1>5, <1>6, ItStops

LEMMA StepIsPipelineStep ==
  ASSUME StartedOnce, CoreInv, CoreInv', Undamaged, TickOrder, TickOrder', OutIsPushed, [Next]_vars
  PROVE  PipelineStep
<1>1. TypeOK BY DEF CoreInv
<1>2. ASSUME UNCHANGED vars PROVE PipelineStep
  <2>1. /\ UNCHANGED Holdings /\ UNCHANGED <<epoch, nextSeq>> /\ Life' = Life /\ Looking' = Looking
        /\ exepc' = exepc
    BY <1>2 DEF vars, serverVars, feedVars, coreVars, Holdings, Life, Looking
  <2> QED BY <2>1, NothingHappens
<1>3. ASSUME NEW g \in Session, NetworkThread(g) PROVE PipelineStep
  BY <1>3, NetworkIsPipeline DEF NetworkThread
<1>4. ~ProcessDies
  <2>1. 1 \in Session BY OneSession
  <2> QED BY <2>1, NoDamage
<1> QED
  BY <1>1, <1>2, <1>3, <1>4, ServerIsPipeline, MainIsPipeline, NetworkIsPipeline, StrategyIsPipeline,
    ExecutionIsPipeline, CrashIsPipeline DEF Next

LEMMA InitIsPipelineInit ==
  ASSUME StartedOnce, Init
  PROVE  Pipeline!Init
<1>1. /\ epoch = 0 /\ nextSeq = 0 /\ session = 0 /\ ordersSent = 0 /\ sigQueue = <<>>
      /\ md[1] = None /\ out[1] = NoSignal /\ signal[1] = NoSignal
      /\ strpc[1] = "none" /\ exepc[1] = "none"
  BY OneSession DEF Init, ServerInit
<1>2. Place(md[1]) = <<-1, 0>> /\ Place(signal[1].tick) = <<-1, 0>>
  BY <1>1 DEF Place, None, NoSignal
<1>3. Decided = {}
  <2>1. {s.tick : s \in ToSet(sigQueue)} = {} BY <1>1 DEF ToSet
  <2>2. out[1].tick = None BY <1>1 DEF NoSignal
  <2>3. ({s.tick : s \in ToSet(sigQueue)} \cup {out[1].tick}) \ {None} = {} BY <2>1, <2>2
  <2> QED BY <2>3 DEF Decided
<1>4. Life = "new" /\ Looking = {} BY <1>1 DEF Life, Looking
<1> QED BY <1>1, <1>2, <1>3, <1>4 DEF Pipeline!Init, Pipeline!Nothing

(* A client that is started once, and whose recv returns whole ticks, is    *)
(* the pipeline of TickPipeline: whatever the connection, the server's      *)
(* restarts, the capacities of the queues and the exceptions do, no tick is *)
(* handled and no order begun twice or out of order, no decision but the    *)
(* latest is dropped, and after the stop no thread looks for work again.    *)
THEOREM ClientIsAPipeline ==
  ASSUME StartedOnce
  PROVE  Spec => ImplementsPipeline
<1>1. Init => TickOrder /\ Undamaged /\ OutIsPushed /\ Pipeline!Init
  <2>1. Init => OutIsPushed BY OneSession DEF Init, OutIsPushed, NoSignal
  <2> QED BY <2>1, TickOrderInit, UndamagedInit, InitIsPipelineInit
<1>2. CoreInv /\ TickOrder /\ Undamaged /\ [Next]_vars => TickOrder' /\ Undamaged'
  BY TickOrderNext, UndamagedHolds DEF CoreInv
<1>3. CoreInv /\ Undamaged /\ OutIsPushed /\ [Next]_vars => OutIsPushed' BY OutIsPushedHolds
<1>4. CoreInv /\ CoreInv' /\ Undamaged /\ TickOrder /\ TickOrder' /\ OutIsPushed /\ [Next]_vars
        => [Pipeline!Next]_Pipeline!pipelineVars
  BY StepIsPipelineStep DEF PipelineStep
<1> QED
  BY <1>1, <1>2, <1>3, <1>4, CoreInvariant, PTL DEF Spec, ImplementsPipeline, Pipeline!Spec
=============================================================================
