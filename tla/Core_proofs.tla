----------------------------- MODULE Core_proofs -----------------------------
(***************************************************************************)
(* The client's type invariant, the meaning of its running flag and the    *)
(* agreement of its statistics, for any number of sessions, ticks,         *)
(* crashes and cut connections, and any capacity of its queues.            *)
(***************************************************************************)
EXTENDS Core, SequenceLemmas, FiniteSetTheorems, TLAPS

USE ServerAssumption, FeedAssumption, CoreAssumption

LEMMA TickTypes ==
  /\ None \in AnyTick /\ Garbled \in AnyTick /\ Tick \subseteq AnyTick
  /\ NoSignal \in Signal
  /\ Session \subseteq Nat \ {0}
BY DEF AnyTick, NoSignal, Signal, SignalType, Session

LEMMA PrefixProperties ==
  ASSUME NEW S, NEW s \in Seq(S), NEW n \in 0..Len(s)
  PROVE  /\ SubSeq(s, 1, n) \in Seq(S) /\ Len(SubSeq(s, 1, n)) = n
         /\ \A k \in 1..n : SubSeq(s, 1, n)[k] = s[k]
<1>1. Len(s) \in Nat /\ \A k \in 1..Len(s) : s[k] \in S BY LenProperties, ElementOfSeq
<1> QED BY <1>1, SubSeqProperties

(* The server, the network and the client's end of the connection. *)
ServerTypeOK ==
    /\ srv \in {"down", "accept", "serving", "stale"} /\ link \in {"none", "up", "broken", "silent"}
    /\ stream \in Seq([tick : Tick, part : 1..2])
    /\ epoch \in 0..MaxServerCrashes /\ nextSeq \in 0..MaxTicks /\ breaks \in 0..MaxLinkBreaks

LEMMA SocketKeepsType ==
  ASSUME ServerTypeOK, NEW l \in {"none", "up"}, NewSocket(l)
  PROVE  ServerTypeOK'
BY DEF ServerTypeOK, NewSocket

LEMMA CutKeepsType ==
  ASSUME ServerTypeOK, Cut
  PROVE  /\ stream' \in Seq([tick : Tick, part : 1..2])
         /\ link' \in {"none", "up", "broken", "silent"}
<1>1. PICK n \in 0..Len(stream) : stream' = SubSeq(stream, 1, n) BY DEF Cut
<1> DEFINE S == [tick : Tick, part : 1..2]
<1>2. stream \in Seq(S) BY DEF ServerTypeOK
<1> HIDE DEF S
<1>3. stream' \in Seq(S) BY <1>1, <1>2, PrefixProperties
<1> QED BY <1>3 DEF Cut, ServerTypeOK, S

LEMMA ServerKeepsType ==
  ASSUME ServerTypeOK, ServerStep \/ Environment
  PROVE  ServerTypeOK'
<1>1. CASE AcceptClient BY <1>1 DEF ServerTypeOK, AcceptClient
<1>2. ASSUME NEW kind \in Kinds, SendTick(kind) PROVE ServerTypeOK'
  <2> DEFINE S == [tick : Tick, part : 1..2]
             t == [epoch |-> epoch, seq |-> nextSeq, kind |-> kind]
  <2>1. t \in Tick BY <1>2 DEF ServerTypeOK, Tick, SendTick
  <2>2. Halves(t) \in Seq(S) /\ stream \in Seq(S) BY <2>1 DEF Halves, ServerTypeOK
  <2>3. stream' = stream \o Halves(t) BY <1>2 DEF SendTick
  <2>4. stream' \in Seq(S)
    <3> HIDE DEF S, t
    <3> QED BY <2>2, <2>3
  <2>5. nextSeq' \in 0..MaxTicks
    <3>1. nextSeq \in 0..MaxTicks BY DEF ServerTypeOK
    <3>2. nextSeq < MaxTicks /\ nextSeq' = nextSeq + 1 BY <1>2 DEF SendTick
    <3> HIDE DEF S, t
    <3> QED BY <3>1, <3>2
  <2> HIDE DEF t
  <2> QED BY <1>2, <2>4, <2>5 DEF ServerTypeOK, SendTick
<1>3. CASE SendLost \/ SendFails
  <2>1. nextSeq' \in 0..MaxTicks
    <3>1. nextSeq \in 0..MaxTicks BY DEF ServerTypeOK
    <3>2. (nextSeq < MaxTicks /\ nextSeq' = nextSeq + 1) \/ nextSeq' = nextSeq
      BY <1>3 DEF SendLost, SendFails
    <3> QED BY <3>1, <3>2
  <2> QED BY <1>3, <2>1 DEF ServerTypeOK, SendLost, SendFails
<1>4. CASE BreakLink BY <1>4, CutKeepsType DEF ServerTypeOK, BreakLink
<1>5. CASE CrashServer BY <1>5, CutKeepsType DEF ServerTypeOK, CrashServer
<1>6. CASE RestartServer BY <1>6 DEF ServerTypeOK, RestartServer
<1> QED BY <1>1, <1>2, <1>3, <1>4, <1>5, <1>6 DEF ServerStep, Environment

(* The market feed. *)
RacedTypeOK == raced \subseteq {"md", "sig"} /\ phantoms \in 0..MaxPhantoms
FeedTypeOK ==
    /\ running \in BOOLEAN /\ feed \in {"none", "alive", "freed"} /\ initialized \in BOOLEAN
    /\ netpc \in [Session -> NetPc]
    /\ hand \in [Session -> AnyTick] /\ mdQueue \in Seq(AnyTick)
    /\ retries \in [Session -> 0..MaxRetries]
    /\ RacedTypeOK

(* A race on one of the two queues, and what one makes up. *)
LEMMA RaceKeepsType ==
  ASSUME RacedTypeOK, NEW queue \in {"md", "sig"}, NEW threadpc, NEW g, NEW places,
         Race(queue, threadpc, g, places), MakeUp \/ UNCHANGED phantoms
  PROVE  RacedTypeOK' /\ raced \subseteq raced' /\ queue \in raced'
<1>1. raced' = raced \cup {queue} BY DEF Race
<1>2. phantoms' \in 0..MaxPhantoms BY FeedAssumption DEF MakeUp, RacedTypeOK
<1> QED BY <1>1, <1>2 DEF RacedTypeOK

(* Where a reset of the client leaves the threads. *)
LEMMA ResetMoves ==
  ASSUME FeedTypeOK, NEW g \in Session, NEW label \in NetPc, ResetClient(g, label)
  PROVE  /\ netpc' \in [Session -> NetPc] /\ netpc'[g] = label
         /\ \A h \in Session \ {g} :
              netpc'[h] = netpc[h] \/ (netpc[h] = "recv" /\ netpc'[h] = "stray")
BY DEF FeedTypeOK, ResetClient, NetPc

LEMMA ResetKeepsType ==
  ASSUME ServerTypeOK, FeedTypeOK, DialsLeft, NEW g \in Session, DropClient(g)
  PROVE  ServerTypeOK' /\ FeedTypeOK' /\ DialsLeft'
<1>1. ServerTypeOK' BY SocketKeepsType DEF DropClient, CloseSocket
<1>2. "loop" \in NetPc /\ ResetClient(g, "loop") BY DEF DropClient, NetPc
<1>3. /\ netpc' \in [Session -> NetPc] /\ netpc'[g] = "loop"
      /\ \A h \in Session \ {g} :
           netpc'[h] = netpc[h] \/ (netpc[h] = "recv" /\ netpc'[h] = "stray")
  BY <1>2, ResetMoves
<1>4. DialsLeft' BY <1>3 DEF DialsLeft, DropClient
<1> QED BY <1>1, <1>3, <1>4 DEF FeedTypeOK, RacedTypeOK, DropClient

LEMMA NetworkKeepsType ==
  ASSUME ServerTypeOK, FeedTypeOK, DialsLeft, NEW g \in Session,
         NetworkStep(g) \/ UseAfterReset(g)
  PROVE  ServerTypeOK' /\ FeedTypeOK' /\ DialsLeft' /\ raced \subseteq raced'
<1> DEFINE Goal == ServerTypeOK' /\ FeedTypeOK' /\ DialsLeft' /\ raced \subseteq raced'
<1> USE DEF RacedTypeOK
<1>1. ASSUME CheckRunning(g) PROVE Goal
  BY <1>1 DEF ServerTypeOK, FeedTypeOK, DialsLeft, CheckRunning, serverVars, GoTo, At, NetPc
<1>2. ASSUME CheckRetry(g) PROVE Goal
  BY <1>2 DEF ServerTypeOK, FeedTypeOK, DialsLeft, CheckRetry, serverVars, GoTo, At, NetPc
<1>3. ASSUME Reconnect(g) PROVE Goal
  <2>1. ServerTypeOK' BY <1>3, SocketKeepsType DEF Reconnect, Connect
  <2>2. "check" \in NetPc /\ ResetClient(g, "check") BY <1>3 DEF Reconnect, NetPc
  <2>3. /\ netpc' \in [Session -> NetPc] /\ netpc'[g] = "check"
        /\ \A h \in Session \ {g} :
             netpc'[h] = netpc[h] \/ (netpc[h] = "recv" /\ netpc'[h] = "stray")
    BY <2>2, ResetMoves
  <2>4. 0 \in 0..MaxRetries /\ retries' = [retries EXCEPT ![g] = 0] BY <1>3 DEF Reconnect
  <2>5. retries' \in [Session -> 0..MaxRetries] BY <2>4 DEF FeedTypeOK
  <2>6. DialsLeft' BY <2>3, <2>4 DEF DialsLeft, FeedTypeOK
  <2> QED BY <1>3, <2>1, <2>3, <2>5, <2>6 DEF FeedTypeOK, Reconnect
<1>4. ASSUME ReconnectFails(g) PROVE Goal
  <2>1. ServerTypeOK' BY <1>4, SocketKeepsType DEF ReconnectFails, CloseSocket
  <2>2. retries[g] < MaxRetries /\ retries[g] \in Nat
    BY <1>4 DEF ReconnectFails, DialsLeft, FeedTypeOK, At
  <2>3. retries' \in [Session -> 0..MaxRetries] BY <1>4, <2>2 DEF ReconnectFails, FeedTypeOK
  <2>4. "retry" \in NetPc /\ ResetClient(g, "retry") BY <1>4 DEF ReconnectFails, NetPc
  <2>5. /\ netpc' \in [Session -> NetPc] /\ netpc'[g] = "retry"
        /\ \A h \in Session \ {g} :
             netpc'[h] = netpc[h] \/ (netpc[h] = "recv" /\ netpc'[h] = "stray")
    BY <2>4, ResetMoves
  <2>6. DialsLeft' BY <1>4, <2>5 DEF FeedTypeOK, DialsLeft, ReconnectFails
  <2> QED BY <1>4, <2>1, <2>3, <2>5, <2>6 DEF FeedTypeOK, ReconnectFails
<1>5. ASSUME EndRetries(g) PROVE Goal
  <2>1. 0 \in 0..MaxRetries OBVIOUS
  <2>2. retries' \in [Session -> 0..MaxRetries] BY <1>5, <2>1 DEF EndRetries, FeedTypeOK
  <2> QED BY <1>5, <2>2 DEF ServerTypeOK, FeedTypeOK, DialsLeft, EndRetries, serverVars, GoTo, At, NetPc
<1>6. ASSUME CheckClient(g) PROVE Goal
  BY <1>6 DEF ServerTypeOK, FeedTypeOK, DialsLeft, CheckClient, serverVars, GoTo, At, NetPc
<1>7. ASSUME GiveUp(g) PROVE Goal
  BY <1>7 DEF ServerTypeOK, FeedTypeOK, DialsLeft, GiveUp, serverVars, GoTo, At, NetPc
<1>8. ASSUME RecvFails(g) \/ StrayFails(g) PROVE Goal
  <2>1. DropClient(g) BY <1>8 DEF RecvFails, StrayFails
  <2>2. raced' = raced BY <2>1 DEF DropClient
  <2> QED BY <2>1, <2>2, ResetKeepsType
<1>9. ASSUME RecvPartial(g) PROVE Goal
  <2>1. stream' \in Seq([tick : Tick, part : 1..2]) BY <1>9 DEF ServerTypeOK, RecvPartial
  <2> QED BY <1>9, <2>1 DEF ServerTypeOK, FeedTypeOK, DialsLeft, RecvPartial, GoTo, At, NetPc
<1>10. ASSUME RecvTick(g) PROVE Goal
  <2> DEFINE S == [tick : Tick, part : 1..2]
  <2>0. stream \in Seq(S) /\ Len(stream) >= 2 /\ stream' = SubSeq(stream, 3, Len(stream))
    BY <1>10 DEF ServerTypeOK, RecvTick
  <2>1. stream' \in Seq([tick : Tick, part : 1..2])
    <3> HIDE DEF S
    <3>1. stream' \in Seq(S) BY <2>0
    <3> QED BY <3>1 DEF S
  <2>2. stream[1].tick \in Tick
    <3>1. stream[1] \in S
      <4> HIDE DEF S
      <4>1. 1 \in 1..Len(stream) BY <2>0
      <4> QED BY <2>0, <4>1, ElementOfSeq
    <3> QED BY <3>1
  <2>3. Parse(stream[1], stream[2]) \in AnyTick BY <2>2, TickTypes DEF Parse
  <2> QED BY <1>10, <2>1, <2>3 DEF ServerTypeOK, FeedTypeOK, DialsLeft, RecvTick, GoTo, At, NetPc
<1>11. ASSUME Push(g) PROVE Goal
  <2>1. hand[g] \in AnyTick BY DEF FeedTypeOK
  <2>2. mdQueue' \in Seq(AnyTick) BY <1>11, <2>1 DEF FeedTypeOK, Push
  <2>3. hand' \in [Session -> AnyTick] BY <1>11, TickTypes DEF FeedTypeOK, Push
  <2> QED BY <1>11, <2>2, <2>3 DEF ServerTypeOK, FeedTypeOK, DialsLeft, Push, serverVars, GoTo, NetPc
<1>12. ASSUME QueueFull(g) PROVE Goal
  BY <1>12 DEF ServerTypeOK, FeedTypeOK, DialsLeft, QueueFull, serverVars, GoTo, NetPc
<1>13. ASSUME RacedPush(g) PROVE Goal
  <2>1. RacedTypeOK' /\ raced \subseteq raced'
    <3>1. Race("md", netpc, g, Pushing) /\ UNCHANGED phantoms BY <1>13 DEF RacedPush
    <3> QED BY <3>1, RaceKeepsType DEF FeedTypeOK
  <2>2. hand' \in [Session -> AnyTick] BY <1>13, TickTypes DEF FeedTypeOK, RacedPush
  <2>3. netpc' \in [Session -> NetPc] BY <1>13 DEF FeedTypeOK, RacedPush, GoTo, NetPc
  <2>4. ServerTypeOK' BY <1>13 DEF RacedPush, serverVars, ServerTypeOK
  <2>5. DialsLeft' BY <1>13 DEF RacedPush, DialsLeft, GoTo, FeedTypeOK
  <2> HIDE DEF RacedTypeOK
  <2> QED BY <1>13, <2>1, <2>2, <2>3, <2>4, <2>5 DEF FeedTypeOK, RacedPush
<1>14. ASSUME SpinAgain(g) PROVE Goal
  BY <1>14 DEF ServerTypeOK, FeedTypeOK, DialsLeft, SpinAgain, serverVars, GoTo, At, NetPc
<1>15. ASSUME DropTick(g) PROVE Goal
  <2>1. hand' \in [Session -> AnyTick] BY <1>15, TickTypes DEF FeedTypeOK, DropTick
  <2> QED BY <1>15, <2>1 DEF ServerTypeOK, FeedTypeOK, DialsLeft, DropTick, serverVars, GoTo, At, NetPc
<1>16. ASSUME StrayReturns(g) PROVE Goal
  <2>1. hand' \in [Session -> AnyTick] BY <1>16, TickTypes DEF FeedTypeOK, StrayReturns
  <2>2. phantoms' \in 0..MaxPhantoms BY <1>16, FeedAssumption DEF StrayReturns, MakeUp, FeedTypeOK
  <2> QED BY <1>16, <2>1, <2>2 DEF ServerTypeOK, FeedTypeOK, DialsLeft, StrayReturns, serverVars, GoTo, At, NetPc
<1>17. ASSUME ReturnFromFreed(g) PROVE Goal
  BY <1>17 DEF ServerTypeOK, FeedTypeOK, DialsLeft, ReturnFromFreed, serverVars, GoTo, NetPc
<1> HIDE DEF Goal
<1>18. Goal
  BY <1>1, <1>2, <1>3, <1>4, <1>5, <1>6, <1>7, <1>8, <1>9, <1>10, <1>11, <1>12, <1>13, <1>14,
     <1>15, <1>16, <1>17 DEF NetworkStep, UseAfterReset
<1> QED BY <1>18 DEF Goal

(* The threads of the client. *)
MainTypeOK ==
    /\ clientStarted \in BOOLEAN /\ clientStopped \in BOOLEAN
    /\ session \in 0..MaxSessions
    /\ mainpc \in {"idle", "startStrategy", "startExecution", "joinExecution", "thrown",
                  "joinAll", "gone", "killed"}
StrategyTypeOK ==
    /\ strpc \in [Session -> {"none", "loop", "pop", "push", "count", "done"}]
    /\ md \in [Session -> AnyTick] /\ out \in [Session -> Signal]
    /\ sigQueue \in Seq(Signal) /\ signalsGenerated \in Nat
ExecutionTypeOK ==
    /\ exepc \in [Session -> {"none", "loop", "pop", "send", "done"}]
    /\ signal \in [Session -> Signal] /\ ordersSent \in Nat

LEMMA TypeParts ==
  TypeOK <=> /\ ServerTypeOK /\ FeedTypeOK /\ MainTypeOK /\ StrategyTypeOK /\ ExecutionTypeOK
             /\ crashes \in 0..MaxCrashes
BY DEF TypeOK, ServerTypeOK, FeedTypeOK, RacedTypeOK, MainTypeOK, StrategyTypeOK, ExecutionTypeOK

LEMMA MainKeepsType ==
  ASSUME ServerTypeOK, FeedTypeOK, MainTypeOK, StrategyTypeOK, ExecutionTypeOK, DialsLeft, MainStep
  PROVE  /\ ServerTypeOK' /\ FeedTypeOK' /\ MainTypeOK' /\ StrategyTypeOK' /\ ExecutionTypeOK'
         /\ DialsLeft' /\ crashes' = crashes
<1> DEFINE Goal == /\ ServerTypeOK' /\ FeedTypeOK' /\ MainTypeOK' /\ StrategyTypeOK'
                   /\ ExecutionTypeOK' /\ DialsLeft' /\ crashes' = crashes
<1> USE DEF RacedTypeOK
<1>1. ASSUME UNCHANGED serverVars PROVE ServerTypeOK' BY <1>1 DEF serverVars, ServerTypeOK
<1>2. ASSUME UNCHANGED feedVars PROVE FeedTypeOK' /\ DialsLeft'
  BY <1>2 DEF feedVars, FeedTypeOK, DialsLeft
<1>3. ASSUME UNCHANGED <<strVars, sigQueue>> PROVE StrategyTypeOK'
  BY <1>3 DEF strVars, StrategyTypeOK
<1>4. ASSUME UNCHANGED exeVars PROVE ExecutionTypeOK' BY <1>4 DEF exeVars, ExecutionTypeOK
<1>5. ASSUME InitializeClient PROVE Goal
  <2>1. ServerTypeOK' BY <1>5, SocketKeepsType DEF InitializeClient, InitializeFeed, Connect
  <2>2. FeedTypeOK' /\ DialsLeft'
    BY <1>5 DEF InitializeClient, InitializeFeed, FeedTypeOK, DialsLeft
  <2>3. MainTypeOK' BY <1>5 DEF InitializeClient, MainTypeOK
  <2>4. UNCHANGED <<strVars, sigQueue>> /\ UNCHANGED exeVars /\ crashes' = crashes
    BY <1>5 DEF InitializeClient
  <2> QED BY <1>3, <1>4, <2>1, <2>2, <2>3, <2>4
<1>6. ASSUME WorkClient PROVE Goal
  <2>1. netpc' \in [Session -> NetPc] BY <1>6 DEF WorkClient, GoTo, FeedTypeOK, NetPc
  <2>2. DialsLeft' BY <1>6 DEF WorkClient, GoTo, FeedTypeOK, DialsLeft
  <2>3. session' \in 0..MaxSessions BY <1>6 DEF WorkClient, MainTypeOK
  <2>4. FeedTypeOK' BY <1>6, <2>1 DEF WorkClient, FeedTypeOK
  <2>5. MainTypeOK' BY <1>6, <2>3 DEF WorkClient, MainTypeOK
  <2>6. UNCHANGED <<strVars, sigQueue>> /\ UNCHANGED exeVars /\ UNCHANGED serverVars
        /\ crashes' = crashes
    BY <1>6 DEF WorkClient
  <2> QED BY <1>1, <1>3, <1>4, <2>2, <2>4, <2>5, <2>6
<1>7. ASSUME StartStrategy PROVE Goal
  <2>1. UNCHANGED serverVars /\ UNCHANGED feedVars /\ UNCHANGED exeVars /\ crashes' = crashes
    BY <1>7 DEF StartStrategy
  <2>2. MainTypeOK' BY <1>7 DEF StartStrategy, MainTypeOK
  <2>3. StrategyTypeOK' BY <1>7 DEF StartStrategy, StrategyTypeOK
  <2> QED BY <1>1, <1>2, <1>4, <2>1, <2>2, <2>3
<1>8. ASSUME StartExecution PROVE Goal
  <2>1. UNCHANGED serverVars /\ UNCHANGED feedVars /\ UNCHANGED <<strVars, sigQueue>>
        /\ crashes' = crashes
    BY <1>8 DEF StartExecution
  <2>2. MainTypeOK' BY <1>8 DEF StartExecution, MainTypeOK
  <2>3. ExecutionTypeOK' BY <1>8 DEF StartExecution, ExecutionTypeOK
  <2> QED BY <1>1, <1>2, <1>3, <2>1, <2>2, <2>3
<1>9. ASSUME WorkReturns PROVE Goal
  <2>1. UNCHANGED serverVars /\ UNCHANGED feedVars /\ UNCHANGED <<strVars, sigQueue>>
        /\ UNCHANGED exeVars /\ crashes' = crashes
    BY <1>9 DEF WorkReturns
  <2>2. MainTypeOK' BY <1>9 DEF WorkReturns, MainTypeOK
  <2> QED BY <1>1, <1>2, <1>3, <1>4, <2>1, <2>2
<1>10. ASSUME StopClient PROVE Goal
  <2>1. UNCHANGED serverVars /\ UNCHANGED <<strVars, sigQueue>> /\ UNCHANGED exeVars
        /\ crashes' = crashes
    BY <1>10 DEF StopClient
  <2>2. MainTypeOK' BY <1>10 DEF StopClient, MainTypeOK
  <2>3. FeedTypeOK' /\ DialsLeft' BY <1>10 DEF StopClient, FeedTypeOK, DialsLeft
  <2> QED BY <1>1, <1>3, <1>4, <2>1, <2>2, <2>3
<1>11. ASSUME Destroy PROVE Goal
  <2>1. ServerTypeOK'
    BY <1>11, SocketKeepsType DEF Destroy, FreeFeed, CloseSocket, ServerTypeOK, serverVars
  <2>2. FeedTypeOK' /\ DialsLeft' BY <1>11 DEF Destroy, FreeFeed, FeedTypeOK, DialsLeft
  <2>3. MainTypeOK' BY <1>11 DEF Destroy, MainTypeOK
  <2>4. UNCHANGED <<strVars, sigQueue>> /\ UNCHANGED exeVars /\ crashes' = crashes
    BY <1>11 DEF Destroy
  <2> QED BY <1>3, <1>4, <2>1, <2>2, <2>3, <2>4
<1>12. ASSUME JoinAll PROVE Goal
  <2>1. UNCHANGED serverVars /\ UNCHANGED feedVars /\ UNCHANGED <<strVars, sigQueue>>
        /\ UNCHANGED exeVars /\ crashes' = crashes
    BY <1>12 DEF JoinAll
  <2>2. MainTypeOK' BY <1>12 DEF JoinAll, MainTypeOK
  <2> QED BY <1>1, <1>2, <1>3, <1>4, <2>1, <2>2
<1>13. ASSUME ThreadFails PROVE Goal
  <2>1. UNCHANGED serverVars /\ UNCHANGED <<strVars, sigQueue>> /\ UNCHANGED exeVars
        /\ crashes' = crashes
    BY <1>13 DEF ThreadFails
  <2>2. MainTypeOK' BY <1>13 DEF ThreadFails, MainTypeOK
  <2>3. FeedTypeOK' /\ DialsLeft' BY <1>13 DEF ThreadFails, FeedTypeOK, DialsLeft
  <2> QED BY <1>1, <1>3, <1>4, <2>1, <2>2, <2>3
<1> HIDE DEF Goal
<1>14. Goal BY <1>5, <1>6, <1>7, <1>8, <1>9, <1>10, <1>11, <1>12, <1>13 DEF MainStep
<1> QED BY <1>14 DEF Goal

(* The end of the process. *)
LEMMA ProcessDiesKeepsType ==
  ASSUME ServerTypeOK, FeedTypeOK, MainTypeOK, StrategyTypeOK, ExecutionTypeOK, DialsLeft, ProcessDies
  PROVE  /\ ServerTypeOK' /\ FeedTypeOK' /\ MainTypeOK' /\ StrategyTypeOK' /\ ExecutionTypeOK'
         /\ DialsLeft' /\ crashes' = crashes
<1>1. ServerTypeOK'
  BY SocketKeepsType DEF ProcessDies, FreeFeed, CloseSocket, ServerTypeOK, serverVars
<1>2. FeedTypeOK' /\ DialsLeft'
  BY DEF ProcessDies, FreeFeed, Dead, FeedTypeOK, RacedTypeOK, DialsLeft, NetPc
<1>3. MainTypeOK' BY DEF ProcessDies, MainTypeOK
<1>4. StrategyTypeOK' BY DEF ProcessDies, Dead, StrategyTypeOK
<1>5. ExecutionTypeOK' BY DEF ProcessDies, Dead, ExecutionTypeOK
<1> QED BY <1>1, <1>2, <1>3, <1>4, <1>5 DEF ProcessDies

LEMMA StrategyKeepsType ==
  ASSUME FeedTypeOK, StrategyTypeOK, NEW g \in Session, StrategyStep(g)
  PROVE  /\ UNCHANGED <<serverVars, mainVars, exeVars, crashes>>
         /\ UNCHANGED <<running, feed, initialized, netpc, hand, retries>>
         /\ mdQueue' \in Seq(AnyTick) /\ RacedTypeOK' /\ raced \subseteq raced'
         /\ StrategyTypeOK'
<1> DEFINE Rest == /\ UNCHANGED <<serverVars, mainVars, exeVars, crashes>>
                   /\ UNCHANGED <<running, feed, initialized, netpc, hand, retries>>
           Goal == /\ Rest
                   /\ mdQueue' \in Seq(AnyTick) /\ RacedTypeOK' /\ raced \subseteq raced'
                   /\ StrategyTypeOK'
<1>0. ASSUME UNCHANGED <<mdQueue, raced, phantoms>>
      PROVE  mdQueue' \in Seq(AnyTick) /\ RacedTypeOK' /\ raced \subseteq raced'
  BY <1>0 DEF FeedTypeOK, RacedTypeOK
<1> USE DEF StrategyGoesTo, feedVars
<1>1. ASSUME CheckStrategy(g) PROVE Goal BY <1>0, <1>1 DEF CheckStrategy, StrategyTypeOK
<1>2. ASSUME NoTick(g) PROVE Goal BY <1>0, <1>2 DEF NoTick, StrategyTypeOK
<1>3. ASSUME NEW t \in AnyTick, TakeTick(g, t), UNCHANGED <<signalsGenerated, sigQueue>>
      PROVE  StrategyTypeOK'
  <2>1. md' \in [Session -> AnyTick] BY <1>3 DEF TakeTick, StrategyTypeOK
  <2>2. PICK type \in SignalTypes(t) :
          IF type = "HOLD"
          THEN StrategyGoesTo(g, "loop") /\ UNCHANGED out
          ELSE /\ StrategyGoesTo(g, "push")
               /\ out' = [out EXCEPT ![g] = [tick |-> t, type |-> type]]
    BY <1>3 DEF TakeTick
  <2>3. type \in SignalType BY <2>2 DEF SignalTypes, SignalType
  <2>4. [tick |-> t, type |-> type] \in Signal BY <2>3 DEF Signal
  <2>5. out' \in [Session -> Signal] BY <2>2, <2>4 DEF StrategyTypeOK
  <2>6. strpc' \in [Session -> {"none", "loop", "pop", "push", "count", "done"}]
    BY <2>2 DEF StrategyTypeOK
  <2> QED BY <1>3, <2>1, <2>5, <2>6 DEF StrategyTypeOK
<1>4. ASSUME PopTick(g) PROVE Goal
  <2>1. Head(mdQueue) \in AnyTick /\ mdQueue' \in Seq(AnyTick)
    BY <1>4 DEF PopTick, FeedTypeOK
  <2>2. TakeTick(g, Head(mdQueue)) /\ UNCHANGED <<signalsGenerated, sigQueue>> BY <1>4 DEF PopTick
  <2>3. StrategyTypeOK' BY <1>3, <2>1, <2>2
  <2>4. UNCHANGED <<raced, phantoms>>
    <3>1. raced' = raced BY <1>4 DEF PopTick
    <3>2. phantoms' = phantoms BY <1>4 DEF PopTick
    <3> QED BY <3>1, <3>2
  <2>5. RacedTypeOK' /\ raced \subseteq raced' BY <2>4 DEF FeedTypeOK, RacedTypeOK
  <2>6. Rest BY <1>4 DEF PopTick
  <2> QED BY <2>1, <2>3, <2>5, <2>6
<1>5. ASSUME RacedPopTick(g) PROVE Goal
  <2>1. Race("md", strpc, g, {"pop"}) /\ (MakeUp \/ UNCHANGED phantoms) BY <1>5 DEF RacedPopTick
  <2>2. RacedTypeOK' /\ raced \subseteq raced' BY <2>1, RaceKeepsType DEF FeedTypeOK
  <2>3. UNCHANGED <<signalsGenerated, sigQueue, mdQueue>> BY <1>5 DEF RacedPopTick
  <2>4. CASE TakeTick(g, Garbled)
    <3>1. StrategyTypeOK' BY <1>3, <2>3, <2>4, TickTypes
    <3> QED BY <1>5, <2>2, <2>3, <3>1 DEF RacedPopTick, FeedTypeOK
  <2>5. CASE StrategyGoesTo(g, "loop") /\ UNCHANGED <<md, out>>
    <3>1. StrategyTypeOK' BY <2>3, <2>5 DEF StrategyTypeOK
    <3> QED BY <1>5, <2>2, <2>3, <3>1 DEF RacedPopTick, FeedTypeOK
  <2> QED BY <1>5, <2>4, <2>5 DEF RacedPopTick
<1>6. ASSUME PushSignal(g) PROVE Goal
  <2>1. out[g] \in Signal BY DEF StrategyTypeOK
  <2>2. sigQueue' \in Seq(Signal) BY <1>6, <2>1 DEF PushSignal, StrategyTypeOK
  <2>3. out' \in [Session -> Signal] BY <1>6, TickTypes DEF PushSignal, StrategyTypeOK
  <2> QED BY <1>0, <1>6, <2>2, <2>3 DEF PushSignal, StrategyTypeOK
<1>7. ASSUME DropSignal(g) PROVE Goal
  <2>1. out' \in [Session -> Signal] BY <1>7, TickTypes DEF DropSignal, StrategyTypeOK
  <2> QED BY <1>0, <1>7, <2>1 DEF DropSignal, StrategyTypeOK
<1>8. ASSUME RacedPushSignal(g) PROVE Goal
  <2>1. Race("sig", strpc, g, {"push"}) /\ UNCHANGED phantoms BY <1>8 DEF RacedPushSignal
  <2>2. RacedTypeOK' /\ raced \subseteq raced' BY <2>1, RaceKeepsType DEF FeedTypeOK
  <2>3. out' \in [Session -> Signal] BY <1>8, TickTypes DEF RacedPushSignal, StrategyTypeOK
  <2>4. strpc' \in [Session -> {"none", "loop", "pop", "push", "count", "done"}]
    BY <1>8 DEF RacedPushSignal, StrategyTypeOK
  <2>5. StrategyTypeOK' BY <1>8, <2>3, <2>4 DEF RacedPushSignal, StrategyTypeOK
  <2> QED BY <1>8, <2>2, <2>5 DEF RacedPushSignal, FeedTypeOK
<1>9. ASSUME CountSignal(g) PROVE Goal BY <1>0, <1>9 DEF CountSignal, StrategyTypeOK
<1> HIDE DEF Goal
<1>10. Goal BY <1>1, <1>2, <1>4, <1>5, <1>6, <1>7, <1>8, <1>9 DEF StrategyStep
<1> QED BY <1>10 DEF Goal

LEMMA ExecutionKeepsType ==
  ASSUME FeedTypeOK, StrategyTypeOK, ExecutionTypeOK, NEW g \in Session, ExecutionStep(g)
  PROVE  /\ UNCHANGED <<serverVars, mainVars, strVars, crashes>>
         /\ UNCHANGED <<running, feed, initialized, netpc, hand, retries, mdQueue>>
         /\ RacedTypeOK' /\ raced \subseteq raced'
         /\ StrategyTypeOK' /\ ExecutionTypeOK'
<1> DEFINE Goal == /\ UNCHANGED <<serverVars, mainVars, strVars, crashes>>
                   /\ UNCHANGED <<running, feed, initialized, netpc, hand, retries, mdQueue>>
                   /\ RacedTypeOK' /\ raced \subseteq raced'
                   /\ StrategyTypeOK' /\ ExecutionTypeOK'
<1>0. ASSUME UNCHANGED feedVars
      PROVE  /\ UNCHANGED <<running, feed, initialized, netpc, hand, retries, mdQueue>>
             /\ RacedTypeOK' /\ raced \subseteq raced'
  BY <1>0 DEF feedVars, FeedTypeOK, RacedTypeOK
<1> USE DEF ExecutionGoesTo, strVars
<1>1. ASSUME CheckExecution(g) PROVE Goal
  BY <1>0, <1>1 DEF CheckExecution, StrategyTypeOK, ExecutionTypeOK
<1>2. ASSUME NothingToSend(g) PROVE Goal
  BY <1>0, <1>2 DEF NothingToSend, StrategyTypeOK, ExecutionTypeOK
<1>3. ASSUME PopSignal(g) PROVE Goal
  <2>1. Head(sigQueue) \in Signal /\ sigQueue' \in Seq(Signal) BY <1>3 DEF PopSignal, StrategyTypeOK
  <2> QED BY <1>0, <1>3, <2>1 DEF PopSignal, StrategyTypeOK, ExecutionTypeOK
<1>4. ASSUME RacedPopSignal(g) PROVE Goal
  <2>1. Race("sig", exepc, g, {"pop"}) /\ (MakeUp \/ UNCHANGED phantoms) BY <1>4 DEF RacedPopSignal
  <2>2. RacedTypeOK' /\ raced \subseteq raced' BY <2>1, RaceKeepsType DEF FeedTypeOK
  <2>3. [tick |-> Garbled, type |-> "SELL"] \in Signal BY TickTypes DEF Signal, SignalType
  <2>4. signal' \in [Session -> Signal] BY <1>4, <2>3 DEF RacedPopSignal, ExecutionTypeOK
  <2>5. exepc' \in [Session -> {"none", "loop", "pop", "send", "done"}]
    BY <1>4 DEF RacedPopSignal, ExecutionTypeOK
  <2>6. ExecutionTypeOK' BY <1>4, <2>4, <2>5 DEF RacedPopSignal, ExecutionTypeOK
  <2>7. StrategyTypeOK' BY <1>4 DEF RacedPopSignal, StrategyTypeOK
  <2> QED BY <1>4, <2>2, <2>6, <2>7 DEF RacedPopSignal
<1>5. ASSUME SendOrder(g) PROVE Goal BY <1>0, <1>5 DEF SendOrder, StrategyTypeOK, ExecutionTypeOK
<1> HIDE DEF Goal
<1>6. Goal BY <1>1, <1>2, <1>3, <1>4, <1>5 DEF ExecutionStep
<1> QED BY <1>6 DEF Goal

LEMMA TypeHolds ==
  ASSUME TypeOK, DialsLeft, [Next]_vars
  PROVE  TypeOK' /\ DialsLeft'
<1>1. /\ ServerTypeOK /\ FeedTypeOK /\ MainTypeOK /\ StrategyTypeOK /\ ExecutionTypeOK
      /\ crashes \in 0..MaxCrashes
  BY TypeParts
<1> DEFINE Goal == /\ ServerTypeOK' /\ FeedTypeOK' /\ MainTypeOK' /\ StrategyTypeOK' /\ ExecutionTypeOK'
                   /\ crashes' \in 0..MaxCrashes /\ DialsLeft'
<1>2. ASSUME UNCHANGED serverVars PROVE ServerTypeOK' BY <1>1, <1>2 DEF serverVars, ServerTypeOK
<1>3. ASSUME UNCHANGED feedVars PROVE FeedTypeOK' /\ DialsLeft'
  BY <1>1, <1>3 DEF feedVars, FeedTypeOK, RacedTypeOK, DialsLeft
<1>4. ASSUME UNCHANGED coreVars
      PROVE  MainTypeOK' /\ StrategyTypeOK' /\ ExecutionTypeOK' /\ crashes' \in 0..MaxCrashes
  BY <1>1, <1>4 DEF coreVars, MainTypeOK, StrategyTypeOK, ExecutionTypeOK
<1>5. ASSUME UNCHANGED mainVars PROVE MainTypeOK' BY <1>1, <1>5 DEF mainVars, MainTypeOK
<1>6. ASSUME UNCHANGED exeVars PROVE ExecutionTypeOK' BY <1>1, <1>6 DEF exeVars, ExecutionTypeOK
<1>7. ASSUME (ServerStep \/ Environment) /\ UNCHANGED <<feedVars, coreVars>> PROVE Goal
  <2>1. UNCHANGED feedVars /\ UNCHANGED coreVars BY <1>7
  <2>2. ServerTypeOK' BY <1>1, <1>7, ServerKeepsType
  <2> QED BY <2>1, <2>2, <1>3, <1>4
<1>8. ASSUME MainStep PROVE Goal
  <2>1. crashes' \in 0..MaxCrashes BY <1>1, <1>8, MainKeepsType
  <2> QED BY <1>1, <1>8, <2>1, MainKeepsType
<1>9. ASSUME NEW g \in Session, NetworkThread(g) PROVE Goal
  <2>1. ServerTypeOK' /\ FeedTypeOK' /\ DialsLeft'
    BY <1>1, <1>9, NetworkKeepsType DEF NetworkThread
  <2>2. UNCHANGED coreVars BY <1>9 DEF NetworkThread
  <2> QED BY <2>1, <2>2, <1>4
<1>10. ASSUME NEW g \in Session, UseAfterReset(g), UNCHANGED coreVars PROVE Goal
  <2>1. ServerTypeOK' /\ FeedTypeOK' /\ DialsLeft' BY <1>1, <1>10, NetworkKeepsType
  <2> QED BY <2>1, <1>4, <1>10
<1>11. ASSUME NEW g \in Session, StrategyStep(g) PROVE Goal
  <2>1. /\ UNCHANGED <<serverVars, mainVars, exeVars, crashes>>
        /\ UNCHANGED <<running, feed, initialized, netpc, hand, retries>>
        /\ mdQueue' \in Seq(AnyTick) /\ RacedTypeOK' /\ StrategyTypeOK'
    BY <1>1, <1>11, StrategyKeepsType
  <2>2. FeedTypeOK' /\ DialsLeft' BY <1>1, <2>1 DEF FeedTypeOK, DialsLeft
  <2> QED BY <1>1, <1>2, <1>5, <1>6, <2>1, <2>2
<1>12. ASSUME NEW g \in Session, ExecutionStep(g) PROVE Goal
  <2>1. /\ UNCHANGED <<serverVars, mainVars, strVars, crashes>>
        /\ UNCHANGED <<running, feed, initialized, netpc, hand, retries, mdQueue>>
        /\ RacedTypeOK' /\ StrategyTypeOK' /\ ExecutionTypeOK'
    BY <1>1, <1>12, ExecutionKeepsType
  <2>2. FeedTypeOK' /\ DialsLeft' BY <1>1, <2>1 DEF FeedTypeOK, DialsLeft
  <2> QED BY <1>1, <1>2, <1>5, <2>1, <2>2
<1>13. ASSUME NEW g \in Session, Crash(g) PROVE Goal
  <2>1. UNCHANGED serverVars /\ UNCHANGED mainVars BY <1>13 DEF Crash
  <2>2. crashes' \in 0..MaxCrashes BY <1>1, <1>13 DEF Crash
  <2>3. FeedTypeOK' /\ DialsLeft'
    BY <1>1, <1>13 DEF Crash, HandleException, GoTo, FeedTypeOK, RacedTypeOK, DialsLeft, NetPc
  <2>4. StrategyTypeOK' BY <1>1, <1>13 DEF Crash, StrategyGoesTo, StrategyTypeOK
  <2>5. ExecutionTypeOK' BY <1>1, <1>13 DEF Crash, ExecutionGoesTo, ExecutionTypeOK
  <2> QED BY <1>2, <1>5, <2>1, <2>2, <2>3, <2>4, <2>5
<1>14. ASSUME UNCHANGED vars PROVE Goal
  <2>1. UNCHANGED serverVars /\ UNCHANGED feedVars /\ UNCHANGED coreVars BY <1>14 DEF vars
  <2> QED BY <1>2, <1>3, <1>4, <2>1
<1>15. ASSUME ProcessDies PROVE Goal
  <2>1. crashes' \in 0..MaxCrashes BY <1>1, <1>15, ProcessDiesKeepsType
  <2> QED BY <1>1, <1>15, <2>1, ProcessDiesKeepsType
<1> HIDE DEF Goal
<1>16. Goal
  BY <1>7, <1>8, <1>9, <1>10, <1>11, <1>12, <1>13, <1>14, <1>15 DEF Next
<1> QED
  BY <1>16 DEF Goal, TypeOK, ServerTypeOK, FeedTypeOK, RacedTypeOK, MainTypeOK, StrategyTypeOK,
               ExecutionTypeOK

-----------------------------------------------------------------------------
(* What each thread does to its place and to the running flag. *)

LEMMA NetworkMoves ==
  ASSUME FeedTypeOK, NEW g \in Session, NetworkStep(g) \/ UseAfterReset(g)
  PROVE  /\ Alive(netpc, g) /\ feed' = feed /\ (running' => running)
         /\ netpc' \in [Session -> NetPc] /\ netpc'[g] # "none"
         /\ netpc'[g] = "done" => ~running' \/ feed = "freed"
         /\ \A h \in Session \ {g} :
              netpc'[h] = netpc[h] \/ (netpc[h] = "recv" /\ netpc'[h] = "stray")
<1> DEFINE Goal == /\ Alive(netpc, g) /\ feed' = feed /\ (running' => running)
                   /\ netpc' \in [Session -> NetPc] /\ netpc'[g] # "none"
                   /\ netpc'[g] = "done" => ~running' \/ feed = "freed"
                   /\ \A h \in Session \ {g} :
                        netpc'[h] = netpc[h] \/ (netpc[h] = "recv" /\ netpc'[h] = "stray")
<1>1. ASSUME NEW label \in NetPc \ {"none", "done"}, Alive(netpc, g), feed' = feed, running' = running,
             ResetClient(g, label)
      PROVE  Goal
  BY <1>1, ResetMoves
<1> USE DEF FeedTypeOK, Alive, At, GoTo, NetPc
<1>2. ASSUME NEW label \in NetPc \ {"none"}, Alive(netpc, g), feed' = feed, running' = running,
             GoTo(g, label), label = "done" => ~running \/ feed = "freed"
      PROVE  Goal
  BY <1>2
<1>3. ASSUME CheckRunning(g) \/ CheckRetry(g) \/ EndRetries(g) \/ CheckClient(g) PROVE Goal
  BY <1>2, <1>3 DEF CheckRunning, CheckRetry, EndRetries, CheckClient
<1>4. ASSUME Reconnect(g) \/ ReconnectFails(g) PROVE Goal
  BY <1>1, <1>4 DEF Reconnect, ReconnectFails
<1>5. ASSUME GiveUp(g) PROVE Goal BY <1>5 DEF GiveUp
<1>6. ASSUME RecvFails(g) \/ StrayFails(g) PROVE Goal
  BY <1>1, <1>6 DEF RecvFails, StrayFails, DropClient
<1>7. ASSUME RecvPartial(g) \/ RecvTick(g) \/ StrayReturns(g) PROVE Goal
  BY <1>2, <1>7 DEF RecvPartial, RecvTick, StrayReturns
<1>8. ASSUME Push(g) \/ QueueFull(g) \/ RacedPush(g) PROVE Goal
  BY <1>2, <1>8 DEF Push, QueueFull, RacedPush, Pushing
<1>9. ASSUME SpinAgain(g) \/ DropTick(g) \/ ReturnFromFreed(g) PROVE Goal
  BY <1>2, <1>9 DEF SpinAgain, DropTick, ReturnFromFreed
<1> HIDE DEF Goal
<1>10. Goal
  BY <1>3, <1>4, <1>5, <1>6, <1>7, <1>8, <1>9 DEF NetworkStep, UseAfterReset
<1> QED BY <1>10 DEF Goal

LEMMA StrategyMoves ==
  ASSUME NEW g \in Session, StrategyStep(g)
  PROVE  /\ Alive(strpc, g)
         /\ \E label \in {"loop", "pop", "push", "count", "done"} :
              strpc' = [strpc EXCEPT ![g] = label] /\ (label = "done" => ~running)
<1> USE DEF Alive, StrategyGoesTo
<1>1. CASE CheckStrategy(g) BY <1>1 DEF CheckStrategy
<1>2. CASE NoTick(g) BY <1>2 DEF NoTick
<1>3. CASE PopTick(g) \/ RacedPopTick(g) BY <1>3 DEF PopTick, RacedPopTick, TakeTick
<1>4. CASE PushSignal(g) BY <1>4 DEF PushSignal
<1>5. CASE DropSignal(g) BY <1>5 DEF DropSignal
<1>6. CASE RacedPushSignal(g) BY <1>6 DEF RacedPushSignal
<1>7. CASE CountSignal(g) BY <1>7 DEF CountSignal
<1> QED BY <1>1, <1>2, <1>3, <1>4, <1>5, <1>6, <1>7 DEF StrategyStep

LEMMA ExecutionMoves ==
  ASSUME NEW g \in Session, ExecutionStep(g)
  PROVE  /\ Alive(exepc, g)
         /\ \E label \in {"loop", "pop", "send", "done"} :
              exepc' = [exepc EXCEPT ![g] = label] /\ (label = "done" => ~running)
<1> USE DEF Alive, ExecutionGoesTo
<1>1. CASE CheckExecution(g) BY <1>1 DEF CheckExecution
<1>2. CASE NothingToSend(g) BY <1>2 DEF NothingToSend
<1>3. CASE PopSignal(g) \/ RacedPopSignal(g) BY <1>3 DEF PopSignal, RacedPopSignal
<1>4. CASE SendOrder(g) BY <1>4 DEF SendOrder
<1> QED BY <1>1, <1>2, <1>3, <1>4 DEF ExecutionStep

LEMMA CrashMoves ==
  ASSUME NEW g \in Session, Crash(g)
  PROVE  /\ ~running' /\ feed' = feed /\ UNCHANGED mainVars
         /\ \/ /\ Alive(netpc, g) /\ netpc' = [netpc EXCEPT ![g] = "done"]
               /\ UNCHANGED <<strpc, exepc>>
            \/ /\ Alive(strpc, g) /\ strpc' = [strpc EXCEPT ![g] = "done"]
               /\ UNCHANGED <<netpc, exepc>>
            \/ /\ Alive(exepc, g) /\ exepc' = [exepc EXCEPT ![g] = "done"]
               /\ UNCHANGED <<netpc, strpc>>
BY DEF Crash, HandleException, GoTo, StrategyGoesTo, ExecutionGoesTo

(* A thread moves on its own; the main thread starts them in order. *)
LEMMA NotStartedHolds ==
  ASSUME TypeOK, NotStarted, [Next]_vars
  PROVE  NotStarted'
<1>1. /\ FeedTypeOK /\ MainTypeOK
      /\ netpc \in [Session -> NetPc]
      /\ strpc \in [Session -> {"none", "loop", "pop", "push", "count", "done"}]
      /\ exepc \in [Session -> {"none", "loop", "pop", "send", "done"}]
      /\ session \in 0..MaxSessions
  BY TypeParts DEF FeedTypeOK, MainTypeOK, StrategyTypeOK, ExecutionTypeOK
<1> DEFINE Goal == NotStarted'
<1>2. ASSUME UNCHANGED <<session, mainpc, netpc, strpc, exepc>> PROVE Goal
  BY <1>2 DEF NotStarted
<1>3. ASSUME (ServerStep \/ Environment) /\ UNCHANGED <<feedVars, coreVars>> PROVE Goal
  BY <1>2, <1>3 DEF feedVars, coreVars
<1>4. ASSUME MainStep PROVE Goal
  <2> USE DEF strVars, exeVars, feedVars
  <2>1. ASSUME InitializeClient PROVE Goal BY <1>2, <2>1 DEF InitializeClient
  <2>2. ASSUME WorkClient PROVE Goal
    <3>1. /\ session' = session + 1 /\ mainpc' = "startStrategy" /\ UNCHANGED <<strpc, exepc>>
          /\ netpc' = [netpc EXCEPT ![session + 1] = "loop"]
      BY <2>2 DEF WorkClient, GoTo
    <3> QED BY <1>1, <3>1 DEF NotStarted, Session
  <2>3. ASSUME StartStrategy PROVE Goal
    BY <1>1, <2>3 DEF StartStrategy, NotStarted, Session
  <2>4. ASSUME StartExecution PROVE Goal
    BY <1>1, <2>4 DEF StartExecution, NotStarted, Session
  <2>5. ASSUME WorkReturns PROVE Goal
    BY <1>1, <2>5 DEF WorkReturns, NotStarted, Session
  <2>6. ASSUME StopClient PROVE Goal BY <1>2, <2>6 DEF StopClient
  <2>7. ASSUME Destroy PROVE Goal BY <1>1, <2>7 DEF Destroy, NotStarted, Session
  <2>8. ASSUME JoinAll PROVE Goal BY <1>1, <2>8 DEF JoinAll, NotStarted, Session
  <2>9. ASSUME ThreadFails PROVE Goal BY <1>1, <2>9 DEF ThreadFails, NotStarted, Session
  <2> QED BY <1>4, <2>1, <2>2, <2>3, <2>4, <2>5, <2>6, <2>7, <2>8, <2>9 DEF MainStep
<1>5. ASSUME NEW g \in Session, NetworkStep(g) \/ UseAfterReset(g), UNCHANGED coreVars PROVE Goal
  <2>1. /\ Alive(netpc, g)
        /\ \A h \in Session \ {g} :
             netpc'[h] = netpc[h] \/ (netpc[h] = "recv" /\ netpc'[h] = "stray")
    BY <1>1, <1>5, NetworkMoves
  <2> QED BY <1>1, <1>5, <2>1 DEF NotStarted, Alive, coreVars
<1>6. ASSUME ProcessDies PROVE Goal
  BY <1>1, <1>6 DEF ProcessDies, Dead, NotStarted
<1>7. ASSUME NEW g \in Session, StrategyStep(g) PROVE Goal
  <2>1. UNCHANGED <<session, mainpc, netpc, exepc>>
    BY <1>7, TypeParts, StrategyKeepsType DEF mainVars, exeVars
  <2>2. Alive(strpc, g) /\ \E label : strpc' = [strpc EXCEPT ![g] = label] BY <1>7, StrategyMoves
  <2> QED BY <1>1, <2>1, <2>2 DEF NotStarted, Alive
<1>8. ASSUME NEW g \in Session, ExecutionStep(g) PROVE Goal
  <2>1. UNCHANGED <<session, mainpc, netpc, strpc>>
    BY <1>8, TypeParts, ExecutionKeepsType DEF mainVars, strVars
  <2>2. Alive(exepc, g) /\ \E label : exepc' = [exepc EXCEPT ![g] = label] BY <1>8, ExecutionMoves
  <2> QED BY <1>1, <2>1, <2>2 DEF NotStarted, Alive
<1>9. ASSUME NEW g \in Session, Crash(g) PROVE Goal
  BY <1>1, <1>9, CrashMoves DEF NotStarted, Alive, mainVars
<1>10. ASSUME UNCHANGED vars PROVE Goal
  BY <1>2, <1>10 DEF vars, feedVars, coreVars
<1> HIDE DEF Goal
<1> QED
  BY <1>3, <1>4, <1>5, <1>6, <1>7, <1>8, <1>9, <1>10 DEF Next, NetworkThread, Goal

LEMMA FlagMeansThreadsHolds ==
  ASSUME TypeOK, FlagMeansThreads, [Next]_vars
  PROVE  FlagMeansThreads'
<1>1. /\ FeedTypeOK /\ MainTypeOK
      /\ netpc \in [Session -> NetPc] /\ running \in BOOLEAN
      /\ strpc \in [Session -> {"none", "loop", "pop", "push", "count", "done"}]
      /\ exepc \in [Session -> {"none", "loop", "pop", "send", "done"}]
      /\ session \in 0..MaxSessions
  BY TypeParts DEF FeedTypeOK, MainTypeOK, StrategyTypeOK, ExecutionTypeOK
<1>2. session > 0 => session \in Session BY <1>1 DEF Session
<1> DEFINE Goal == FlagMeansThreads'
<1>3. ASSUME UNCHANGED <<running, feed, clientStopped, session, mainpc, netpc, strpc, exepc>> PROVE Goal
  BY <1>3 DEF FlagMeansThreads, Alive
<1>4. ASSUME (ServerStep \/ Environment) /\ UNCHANGED <<feedVars, coreVars>> PROVE Goal
  BY <1>3, <1>4 DEF feedVars, coreVars
<1>5. ASSUME MainStep PROVE Goal
  <2> USE DEF strVars, exeVars, feedVars
  <2>1. ASSUME InitializeClient PROVE Goal
    BY <2>1 DEF InitializeClient, InitializeFeed, FlagMeansThreads, Alive
  <2>2. ASSUME WorkClient PROVE Goal
    <3>1. /\ session' = session + 1 /\ session' \in Session /\ mainpc' = "startStrategy"
          /\ netpc' = [netpc EXCEPT ![session + 1] = "loop"] /\ UNCHANGED feed
          /\ ~clientStopped' /\ mainpc = "idle"
      BY <1>1, <2>2 DEF WorkClient, GoTo, Session
    <3>2. Alive(netpc, session)' /\ session' > 0 BY <1>1, <3>1 DEF Alive, Session
    <3> QED BY <3>1, <3>2 DEF FlagMeansThreads
  <2>3. ASSUME StartStrategy PROVE Goal
    BY <1>1, <1>2, <2>3 DEF StartStrategy, FlagMeansThreads, Alive
  <2>4. ASSUME StartExecution PROVE Goal
    BY <1>1, <1>2, <2>4 DEF StartExecution, FlagMeansThreads, Alive
  <2>5. ASSUME WorkReturns PROVE Goal
    BY <2>5 DEF WorkReturns, FlagMeansThreads, Alive
  <2>6. ASSUME StopClient PROVE Goal BY <2>6 DEF StopClient, FlagMeansThreads
  <2>7. ASSUME Destroy PROVE Goal BY <2>7 DEF Destroy, FreeFeed, FlagMeansThreads
  <2>8. ASSUME JoinAll PROVE Goal BY <2>8 DEF JoinAll, FlagMeansThreads
  <2>9. ASSUME ThreadFails PROVE Goal BY <2>9 DEF ThreadFails, FlagMeansThreads
  <2> QED BY <1>5, <2>1, <2>2, <2>3, <2>4, <2>5, <2>6, <2>7, <2>8, <2>9 DEF MainStep
<1>6. ASSUME NEW g \in Session, NetworkStep(g) \/ UseAfterReset(g), UNCHANGED coreVars PROVE Goal
  <2>1. /\ feed' = feed /\ (running' => running) /\ netpc'[g] # "none"
        /\ netpc'[g] = "done" => ~running' \/ feed = "freed"
        /\ \A h \in Session \ {g} :
             netpc'[h] = netpc[h] \/ (netpc[h] = "recv" /\ netpc'[h] = "stray")
    BY <1>1, <1>6, NetworkMoves
  <2>2. UNCHANGED <<clientStopped, session, mainpc, strpc, exepc>> BY <1>6 DEF coreVars
  <2>3. (running' /\ mainpc # "thrown") => session \in Session /\ Alive(netpc, session)
    BY <1>2, <2>1 DEF FlagMeansThreads
  <2>4. (running' /\ mainpc # "thrown") => Alive(netpc, session)'
    BY <2>1, <2>2, <2>3 DEF FlagMeansThreads, Alive
  <2> QED BY <2>1, <2>2, <2>4 DEF FlagMeansThreads, Alive
<1>7. ASSUME ProcessDies PROVE Goal
  BY <1>7 DEF ProcessDies, FreeFeed, FlagMeansThreads
<1>8. ASSUME NEW g \in Session, StrategyStep(g) PROVE Goal
  <2>1. UNCHANGED <<running, feed, clientStopped, session, mainpc, netpc, exepc>>
    BY <1>8, TypeParts, StrategyKeepsType DEF mainVars, exeVars
  <2>2. \E label \in {"loop", "pop", "push", "count", "done"} :
          strpc' = [strpc EXCEPT ![g] = label] /\ (label = "done" => ~running)
    BY <1>8, StrategyMoves
  <2>3. (running /\ Alive(strpc, session) /\ session \in Session) => Alive(strpc, session)'
    BY <1>1, <2>1, <2>2 DEF Alive
  <2> QED BY <1>2, <2>1, <2>3 DEF FlagMeansThreads, Alive
<1>9. ASSUME NEW g \in Session, ExecutionStep(g) PROVE Goal
  <2>1. UNCHANGED <<running, feed, clientStopped, session, mainpc, netpc, strpc>>
    BY <1>9, TypeParts, ExecutionKeepsType DEF mainVars, strVars
  <2>2. \E label \in {"loop", "pop", "send", "done"} :
          exepc' = [exepc EXCEPT ![g] = label] /\ (label = "done" => ~running)
    BY <1>9, ExecutionMoves
  <2>3. (running /\ Alive(exepc, session) /\ session \in Session) => Alive(exepc, session)'
    BY <1>1, <2>1, <2>2 DEF Alive
  <2> QED BY <1>2, <2>1, <2>3 DEF FlagMeansThreads, Alive
<1>10. ASSUME NEW g \in Session, Crash(g) PROVE Goal
  BY <1>10, CrashMoves DEF FlagMeansThreads, mainVars
<1>11. ASSUME UNCHANGED vars PROVE Goal
  BY <1>3, <1>11 DEF vars, feedVars, coreVars
<1> HIDE DEF Goal
<1> QED
  BY <1>4, <1>5, <1>6, <1>7, <1>8, <1>9, <1>10, <1>11 DEF Next, NetworkThread, Goal
-----------------------------------------------------------------------------
LEMMA CoreInit == Init => CoreInv
<1> SUFFICES ASSUME Init PROVE CoreInv OBVIOUS
<1>1. TypeOK
  <2>1. ServerTypeOK BY DEF Init, ServerInit, ServerTypeOK
  <2>2. FeedTypeOK
    <3>1. FeedInit BY DEF Init
    <3>2. netpc \in [Session -> NetPc] BY <3>1 DEF FeedInit, NetPc
    <3>3. hand \in [Session -> AnyTick] BY <3>1, TickTypes DEF FeedInit
    <3>4. 0 \in 0..MaxRetries BY FeedAssumption
    <3>5. retries \in [Session -> 0..MaxRetries] BY <3>1, <3>4 DEF FeedInit
    <3>6. running \in BOOLEAN /\ feed \in {"none", "alive", "freed"} /\ initialized \in BOOLEAN
      BY <3>1 DEF FeedInit
    <3>7. mdQueue \in Seq(AnyTick) BY <3>1 DEF FeedInit
    <3>8. RacedTypeOK BY <3>1, FeedAssumption DEF FeedInit, RacedTypeOK
    <3> QED BY <3>2, <3>3, <3>5, <3>6, <3>7, <3>8 DEF FeedTypeOK
  <2>3. MainTypeOK
    <3>1. 0 \in 0..MaxSessions BY FeedAssumption
    <3>2. session = 0 /\ clientStarted = FALSE /\ clientStopped = FALSE /\ mainpc = "idle" BY DEF Init
    <3> QED BY <3>1, <3>2 DEF MainTypeOK
  <2>4. StrategyTypeOK BY TickTypes DEF Init, StrategyTypeOK
  <2>5. ExecutionTypeOK BY TickTypes DEF Init, ExecutionTypeOK
  <2>6. crashes \in 0..MaxCrashes BY DEF Init
  <2> QED BY <2>1, <2>2, <2>3, <2>4, <2>5, <2>6, TypeParts
<1>2. DialsLeft BY DEF Init, FeedInit, DialsLeft
<1>3. NotStarted BY DEF Init, FeedInit, NotStarted
<1>4. FlagMeansThreads BY DEF Init, FeedInit, FlagMeansThreads
<1> QED BY <1>1, <1>2, <1>3, <1>4 DEF CoreInv

(* The inductive invariant of the client: its types, the limit on dialling, *)
(* the order in which work_client starts the threads, and what the running  *)
(* flag says of them.                                                       *)
THEOREM CoreInvariant == Spec => []CoreInv
<1>1. Init => CoreInv BY CoreInit
<1>2. CoreInv /\ [Next]_vars => CoreInv'
  BY TypeHolds, NotStartedHolds, FlagMeansThreadsHolds DEF CoreInv
<1> QED BY <1>1, <1>2, PTL DEF Spec

(* Every variable of the client keeps its type; retries_left of             *)
(* receive_loop never goes beyond its limit.                                *)
THEOREM CoreTypeCorrect == Spec => []TypeOK
<1>1. CoreInv => TypeOK BY DEF CoreInv
<1> QED BY <1>1, CoreInvariant, PTL

(* While m_client_running says so and work_client has returned, the         *)
(* network, strategy and execution thread of its session are all alive.     *)
THEOREM RunningMeansAllThreadsHolds == Spec => []RunningMeansAllThreads
<1>1. CoreInv => RunningMeansAllThreads
  BY DEF CoreInv, FlagMeansThreads, RunningMeansAllThreads
<1> QED BY <1>1, CoreInvariant, PTL

-----------------------------------------------------------------------------
(* The statistics. *)

(* How many threads are at a label, and how one that moves changes that.    *)
NumberAt(pc, label) == Cardinality({g \in Session : pc[g] = label})

LEMMA SessionFinite == IsFiniteSet(Session)
<1>1. 1 \in Int /\ MaxSessions \in Int OBVIOUS
<1>2. IsFiniteSet(1..MaxSessions) BY <1>1, FS_Interval
<1> QED BY <1>2 DEF Session

LEMMA NumberAtType ==
  ASSUME NEW pc, NEW label
  PROVE  NumberAt(pc, label) \in Nat
<1>1. IsFiniteSet(Session) BY SessionFinite
<1> DEFINE A == {g \in Session : pc[g] = label}
<1>2. IsFiniteSet(A) BY <1>1, FS_Subset
<1> HIDE DEF A
<1>3. Cardinality(A) \in Nat BY <1>2, FS_CardinalityType
<1> QED BY <1>3 DEF NumberAt, A

(* Only thread g moves. *)
OnlyMoves(pc, moved, g) == \A h \in Session \ {g} : moved[h] = pc[h]

LEMMA ThreadMoves ==
  ASSUME NEW pc, NEW moved, NEW g \in Session, NEW label, OnlyMoves(pc, moved, g)
  PROVE  /\ (moved[g] = label /\ pc[g] # label) => NumberAt(moved, label) = NumberAt(pc, label) + 1
         /\ (moved[g] # label /\ pc[g] = label) => NumberAt(moved, label) = NumberAt(pc, label) - 1
         /\ (moved[g] = label <=> pc[g] = label) => NumberAt(moved, label) = NumberAt(pc, label)
<1> DEFINE B == {h \in Session : pc[h] = label}
           A == {h \in Session : moved[h] = label}
<1>1. IsFiniteSet(Session) BY SessionFinite
<1>2. IsFiniteSet(B) BY <1>1, FS_Subset
<1>3. NumberAt(pc, label) = Cardinality(B) /\ NumberAt(moved, label) = Cardinality(A) BY DEF NumberAt
<1>4. \A h \in Session \ {g} : moved[h] = pc[h] BY DEF OnlyMoves
<1>5. ASSUME moved[g] = label, pc[g] # label PROVE Cardinality(A) = Cardinality(B) + 1
  <2>1. A = B \cup {g} /\ g \notin B BY <1>4, <1>5
  <2> HIDE DEF A, B
  <2> QED BY <1>2, <2>1, FS_AddElement
<1>6. ASSUME moved[g] # label, pc[g] = label PROVE Cardinality(A) = Cardinality(B) - 1
  <2>1. A = B \ {g} /\ g \in B BY <1>4, <1>6
  <2> HIDE DEF A, B
  <2> QED BY <1>2, <2>1, FS_RemoveElement
<1>7. ASSUME moved[g] = label <=> pc[g] = label PROVE Cardinality(A) = Cardinality(B)
  <2>1. A = B BY <1>4, <1>7
  <2> QED BY <2>1
<1> HIDE DEF A, B
<1> QED BY <1>3, <1>5, <1>6, <1>7

Excess ==
    (signalsGenerated + NumberAt(strpc, "count"))
    - (ordersSent + Len(sigQueue) + NumberAt(exepc, "send"))

Accounted == "sig" \notin raced /\ mainpc # "killed"

LEMMA AccountingIsExcess == SignalAccounting <=> (Accounted => Excess \in (-crashes)..crashes)
BY DEF SignalAccounting, Accounted, Excess, NumberAt

(* What the numbers of the accounts are. *)
LEMMA AccountTypes ==
  ASSUME TypeOK
  PROVE  /\ DOMAIN strpc = Session /\ DOMAIN exepc = Session
         /\ Len(sigQueue) \in Nat /\ signalsGenerated \in Nat /\ ordersSent \in Nat
         /\ crashes \in Nat /\ sigQueue \in Seq(Signal) /\ out \in [Session -> Signal]
         /\ NumberAt(strpc, "count") \in Nat /\ NumberAt(exepc, "send") \in Nat
         /\ Excess \in Int
<1>1. NumberAt(strpc, "count") \in Nat /\ NumberAt(exepc, "send") \in Nat BY NumberAtType
<1>2. /\ DOMAIN strpc = Session /\ DOMAIN exepc = Session
      /\ Len(sigQueue) \in Nat /\ signalsGenerated \in Nat /\ ordersSent \in Nat
      /\ crashes \in Nat /\ sigQueue \in Seq(Signal) /\ out \in [Session -> Signal]
  BY DEF TypeOK
<1> QED BY <1>1, <1>2 DEF Excess

(* The steps of the strategy and the execution thread keep the balance. *)
LEMMA StrategyAccounts ==
  ASSUME TypeOK, NEW g \in Session, StrategyStep(g), "sig" \notin raced'
  PROVE  Excess' = Excess
<1> DEFINE n == NumberAt(strpc, "count")
           m == NumberAt(strpc', "count")
           q == Len(sigQueue)
           r == Len(sigQueue')
<1>1. /\ DOMAIN strpc = Session /\ q \in Nat /\ signalsGenerated \in Nat /\ ordersSent \in Nat
      /\ n \in Nat /\ NumberAt(exepc, "send") \in Nat
      /\ sigQueue \in Seq(Signal) /\ out[g] \in Signal
  BY AccountTypes
<1>2. ordersSent' = ordersSent /\ exepc' = exepc
  BY TypeParts, StrategyKeepsType DEF exeVars
<1>3. /\ Excess = (signalsGenerated + n) - (ordersSent + q + NumberAt(exepc, "send"))
      /\ Excess' = (signalsGenerated' + m) - (ordersSent + r + NumberAt(exepc, "send"))
  BY <1>2 DEF Excess
<1>4. \/ m = n /\ r = q /\ signalsGenerated' = signalsGenerated
      \/ m = n + 1 /\ r = q + 1 /\ signalsGenerated' = signalsGenerated
      \/ m = n - 1 /\ r = q /\ signalsGenerated' = signalsGenerated + 1
  <2> HIDE DEF n, m, q, r
  <2> DEFINE Goal == \/ m = n /\ r = q /\ signalsGenerated' = signalsGenerated
                     \/ m = n + 1 /\ r = q + 1 /\ signalsGenerated' = signalsGenerated
                     \/ m = n - 1 /\ r = q /\ signalsGenerated' = signalsGenerated + 1
  <2>1. ASSUME NEW to \in {"loop", "pop", "push", "done"}, strpc[g] # "count",
               strpc' = [strpc EXCEPT ![g] = to], UNCHANGED <<signalsGenerated, sigQueue>>
        PROVE  Goal
    <3>1. OnlyMoves(strpc, strpc', g) /\ strpc'[g] = to BY <1>1, <2>1 DEF OnlyMoves
    <3>2. strpc'[g] # "count" BY <3>1
    <3>4. strpc[g] # "count" BY <2>1
    <3>3. m = n BY <3>1, <3>2, <3>4, ThreadMoves DEF m, n
    <3> QED BY <2>1, <3>3 DEF q, r
  <2>2. ASSUME CheckStrategy(g) PROVE Goal BY <2>1, <2>2 DEF CheckStrategy, StrategyGoesTo
  <2>3. ASSUME NoTick(g) PROVE Goal BY <2>1, <2>3 DEF NoTick, StrategyGoesTo
  <2>4. ASSUME PopTick(g) \/ RacedPopTick(g) PROVE Goal
    <3>1. \E to \in {"loop", "push"} : strpc' = [strpc EXCEPT ![g] = to]
      BY <2>4 DEF PopTick, RacedPopTick, TakeTick, StrategyGoesTo
    <3>2. strpc[g] # "count" /\ UNCHANGED <<signalsGenerated, sigQueue>>
      BY <2>4 DEF PopTick, RacedPopTick
    <3> QED BY <2>1, <3>1, <3>2
  <2>5. ASSUME PushSignal(g) PROVE Goal
    <3>1. strpc[g] = "push" /\ strpc' = [strpc EXCEPT ![g] = "count"]
      BY <2>5 DEF PushSignal, StrategyGoesTo
    <3>0. strpc[g] = "push" /\ OnlyMoves(strpc, strpc', g) /\ strpc'[g] = "count"
      BY <1>1, <3>1 DEF OnlyMoves
    <3>2. m = n + 1 BY <3>0, ThreadMoves DEF m, n
    <3>3. r = q + 1 BY <1>1, <2>5 DEF PushSignal, q, r
    <3> QED BY <2>5, <3>2, <3>3 DEF PushSignal
  <2>6. ASSUME DropSignal(g) PROVE Goal BY <2>1, <2>6 DEF DropSignal, StrategyGoesTo
  <2>7. ASSUME CountSignal(g) PROVE Goal
    <3>1. strpc[g] = "count" /\ strpc' = [strpc EXCEPT ![g] = "loop"]
      BY <2>7 DEF CountSignal, StrategyGoesTo
    <3>0. strpc[g] = "count" /\ OnlyMoves(strpc, strpc', g) /\ strpc'[g] = "loop"
      BY <1>1, <3>1 DEF OnlyMoves
    <3>2. m = n - 1 BY <3>0, ThreadMoves DEF m, n
    <3> QED BY <2>7, <3>2 DEF CountSignal, q, r
  <2>8. ~RacedPushSignal(g) BY DEF RacedPushSignal, Race
  <2> HIDE DEF Goal
  <2>9. Goal BY <2>2, <2>3, <2>4, <2>5, <2>6, <2>7, <2>8 DEF StrategyStep
  <2> QED BY <2>9 DEF Goal
<1> DEFINE sg == signalsGenerated
           sgn == signalsGenerated'
           os == ordersSent
           k == NumberAt(exepc, "send")
<1>5. /\ n \in Nat /\ q \in Nat /\ sg \in Nat /\ os \in Nat /\ k \in Nat
      /\ Excess = (sg + n) - (os + q + k) /\ Excess' = (sgn + m) - (os + r + k)
  BY <1>1, <1>3
<1>6. \/ m = n /\ r = q /\ sgn = sg
      \/ m = n + 1 /\ r = q + 1 /\ sgn = sg
      \/ m = n - 1 /\ r = q /\ sgn = sg + 1
  BY <1>4
<1> HIDE DEF n, m, q, r, sg, sgn, os, k
<1>7. (sgn + m) - (os + r + k) = (sg + n) - (os + q + k) BY <1>5, <1>6
<1> QED BY <1>5, <1>7

LEMMA ExecutionAccounts ==
  ASSUME TypeOK, NEW g \in Session, ExecutionStep(g), "sig" \notin raced'
  PROVE  Excess' = Excess
<1> DEFINE n == NumberAt(exepc, "send")
           m == NumberAt(exepc', "send")
           q == Len(sigQueue)
           r == Len(sigQueue')
<1>1. /\ DOMAIN exepc = Session /\ q \in Nat /\ signalsGenerated \in Nat /\ ordersSent \in Nat
      /\ n \in Nat /\ NumberAt(strpc, "count") \in Nat /\ sigQueue \in Seq(Signal)
  BY AccountTypes
<1>2. signalsGenerated' = signalsGenerated /\ strpc' = strpc
  BY TypeParts, ExecutionKeepsType DEF strVars
<1>3. /\ Excess = (signalsGenerated + NumberAt(strpc, "count")) - (ordersSent + q + n)
      /\ Excess' = (signalsGenerated + NumberAt(strpc, "count")) - (ordersSent' + r + m)
  BY <1>2 DEF Excess
<1>4. \/ m = n /\ r = q /\ ordersSent' = ordersSent
      \/ m = n + 1 /\ r = q - 1 /\ ordersSent' = ordersSent
      \/ m = n - 1 /\ r = q /\ ordersSent' = ordersSent + 1
  <2> HIDE DEF n, m, q, r
  <2>1. ASSUME CheckExecution(g) PROVE m = n /\ r = q /\ ordersSent' = ordersSent
    <3>1. PICK to \in {"pop", "done"} : exepc' = [exepc EXCEPT ![g] = to]
      BY <2>1 DEF CheckExecution, ExecutionGoesTo
    <3>2. exepc[g] # "send" BY <2>1 DEF CheckExecution
    <3>4. OnlyMoves(exepc, exepc', g) /\ exepc'[g] # "send" BY <1>1, <3>1 DEF OnlyMoves
    <3>3. m = n BY <3>2, <3>4, ThreadMoves DEF m, n
    <3> QED BY <2>1, <3>3 DEF CheckExecution, q, r
  <2>2. ASSUME NothingToSend(g) PROVE m = n /\ r = q /\ ordersSent' = ordersSent
    <3>1. exepc[g] = "pop" /\ exepc' = [exepc EXCEPT ![g] = "loop"]
      BY <2>2 DEF NothingToSend, ExecutionGoesTo
    <3>0. exepc[g] = "pop" /\ OnlyMoves(exepc, exepc', g) /\ exepc'[g] = "loop"
      BY <1>1, <3>1 DEF OnlyMoves
    <3>2. m = n BY <3>0, ThreadMoves DEF m, n
    <3> QED BY <2>2, <3>2 DEF NothingToSend, q, r
  <2>3. ASSUME PopSignal(g) PROVE m = n + 1 /\ r = q - 1 /\ ordersSent' = ordersSent
    <3>1. exepc[g] = "pop" /\ exepc' = [exepc EXCEPT ![g] = "send"]
      BY <2>3 DEF PopSignal, ExecutionGoesTo
    <3>0. exepc[g] = "pop" /\ OnlyMoves(exepc, exepc', g) /\ exepc'[g] = "send"
      BY <1>1, <3>1 DEF OnlyMoves
    <3>2. m = n + 1 BY <3>0, ThreadMoves DEF m, n
    <3>3. r = q - 1 BY <1>1, <2>3 DEF PopSignal, q, r
    <3> QED BY <2>3, <3>2, <3>3 DEF PopSignal
  <2>4. ASSUME SendOrder(g) PROVE m = n - 1 /\ r = q /\ ordersSent' = ordersSent + 1
    <3>1. exepc[g] = "send" /\ exepc' = [exepc EXCEPT ![g] = "loop"]
      BY <2>4 DEF SendOrder, ExecutionGoesTo
    <3>0. exepc[g] = "send" /\ OnlyMoves(exepc, exepc', g) /\ exepc'[g] = "loop"
      BY <1>1, <3>1 DEF OnlyMoves
    <3>2. m = n - 1 BY <3>0, ThreadMoves DEF m, n
    <3> QED BY <2>4, <3>2 DEF SendOrder, q, r
  <2>5. ~RacedPopSignal(g) BY DEF RacedPopSignal, Race
  <2> QED BY <2>1, <2>2, <2>3, <2>4, <2>5 DEF ExecutionStep
<1> DEFINE sg == signalsGenerated
           os == ordersSent
           osn == ordersSent'
           k == NumberAt(strpc, "count")
<1>5. /\ n \in Nat /\ q \in Nat /\ sg \in Nat /\ os \in Nat /\ k \in Nat
      /\ Excess = (sg + k) - (os + q + n) /\ Excess' = (sg + k) - (osn + r + m)
  BY <1>1, <1>3
<1>6. \/ m = n /\ r = q /\ osn = os
      \/ m = n + 1 /\ r = q - 1 /\ osn = os
      \/ m = n - 1 /\ r = q /\ osn = os + 1
  BY <1>4
<1> HIDE DEF n, m, q, r, sg, os, osn, k
<1>7. (sg + k) - (osn + r + m) = (sg + k) - (os + q + n) BY <1>5, <1>6
<1> QED BY <1>5, <1>7

(* Only a crash makes the accounts disagree, and by one at most. *)
LEMMA CrashAccounts ==
  ASSUME TypeOK, NEW g \in Session, Crash(g)
  PROVE  Excess' \in {Excess - 1, Excess, Excess + 1}
<1> DEFINE n == NumberAt(strpc, "count")
           m == NumberAt(strpc', "count")
           k == NumberAt(exepc, "send")
           l == NumberAt(exepc', "send")
<1>1. /\ DOMAIN strpc = Session /\ DOMAIN exepc = Session
      /\ Len(sigQueue) \in Nat /\ signalsGenerated \in Nat /\ ordersSent \in Nat
      /\ n \in Nat /\ k \in Nat
  BY AccountTypes
<1>2. signalsGenerated' = signalsGenerated /\ ordersSent' = ordersSent /\ sigQueue' = sigQueue
  BY DEF Crash
<1>3. /\ Excess = (signalsGenerated + n) - (ordersSent + Len(sigQueue) + k)
      /\ Excess' = (signalsGenerated + m) - (ordersSent + Len(sigQueue) + l)
  BY <1>2 DEF Excess
<1> HIDE DEF n, m, k, l
<1>4. ASSUME UNCHANGED <<strpc, exepc>> PROVE m = n /\ l = k BY <1>4 DEF n, m, k, l
<1>5. ASSUME strpc' = [strpc EXCEPT ![g] = "done"], UNCHANGED exepc PROVE m \in {n - 1, n} /\ l = k
  <2>1. OnlyMoves(strpc, strpc', g) /\ strpc'[g] # "count" BY <1>1, <1>5 DEF OnlyMoves
  <2>2. strpc[g] = "count" => m = n - 1 BY <2>1, ThreadMoves DEF n, m
  <2>3. strpc[g] # "count" => m = n BY <2>1, ThreadMoves DEF n, m
  <2> QED BY <1>5, <2>2, <2>3 DEF k, l
<1>6. ASSUME exepc' = [exepc EXCEPT ![g] = "done"], UNCHANGED strpc PROVE l \in {k - 1, k} /\ m = n
  <2>1. OnlyMoves(exepc, exepc', g) /\ exepc'[g] # "send" BY <1>1, <1>6 DEF OnlyMoves
  <2>2. exepc[g] = "send" => l = k - 1 BY <2>1, ThreadMoves DEF k, l
  <2>3. exepc[g] # "send" => l = k BY <2>1, ThreadMoves DEF k, l
  <2> QED BY <1>6, <2>2, <2>3 DEF n, m
<1>7. (m = n /\ l = k) \/ (m \in {n - 1, n} /\ l = k) \/ (l \in {k - 1, k} /\ m = n)
  BY <1>4, <1>5, <1>6, CrashMoves
<1>8. m \in Int /\ l \in Int BY <1>1, <1>7
<1> DEFINE sg == signalsGenerated
           os == ordersSent
           q == Len(sigQueue)
<1> HIDE DEF sg, os, q
<1>9. /\ Excess = (sg + n) - (os + q + k) /\ Excess' = (sg + m) - (os + q + l)
      /\ sg \in Nat /\ os \in Nat /\ q \in Nat
  BY <1>1, <1>3 DEF sg, os, q
<1> DEFINE x == Excess
           y == Excess'
<1>10. /\ x = (sg + n) - (os + q + k) /\ y = (sg + m) - (os + q + l)
       /\ sg \in Nat /\ os \in Nat /\ q \in Nat /\ n \in Nat /\ k \in Nat
  BY <1>1, <1>9
<1> HIDE DEF x, y
<1>11. y \in {x - 1, x, x + 1} BY <1>7, <1>8, <1>10
<1> QED BY <1>11 DEF x, y

(* The Controller's thread starts threads at "loop" and counts nothing. *)
LEMMA MainAccounts ==
  ASSUME TypeOK, NotStarted, MainStep
  PROVE  Excess' = Excess /\ crashes' = crashes
<1>1. /\ strpc \in [Session -> {"none", "loop", "pop", "push", "count", "done"}]
      /\ exepc \in [Session -> {"none", "loop", "pop", "send", "done"}]
  BY DEF TypeOK
<1> DEFINE Goal == Excess' = Excess /\ crashes' = crashes
<1>2. ASSUME UNCHANGED <<strpc, exepc, signalsGenerated, ordersSent, sigQueue, crashes>> PROVE Goal
  BY <1>2 DEF Excess
<1> USE DEF strVars, exeVars
<1>3. ASSUME StartStrategy PROVE Goal
  <2>1. /\ strpc' = [strpc EXCEPT ![session] = "loop"]
        /\ UNCHANGED <<exepc, signalsGenerated, ordersSent, sigQueue, crashes>>
    BY <1>3 DEF StartStrategy
  <2>2. NumberAt(strpc', "count") = NumberAt(strpc, "count")
    <3>1. CASE session \in Session
      <4>1. strpc[session] = "none" BY <1>3, <3>1 DEF StartStrategy, NotStarted
      <4>2. OnlyMoves(strpc, strpc', session) /\ strpc'[session] # "count" BY <1>1, <2>1, <3>1 DEF OnlyMoves
      <4> QED BY <3>1, <4>1, <4>2, ThreadMoves
    <3>2. CASE session \notin Session
      <4>1. strpc' = strpc BY <1>1, <2>1, <3>2
      <4> QED BY <4>1
    <3> QED BY <3>1, <3>2
  <2> QED BY <2>1, <2>2 DEF Excess
<1>4. ASSUME StartExecution PROVE Goal
  <2>1. /\ exepc' = [exepc EXCEPT ![session] = "loop"]
        /\ UNCHANGED <<strpc, signalsGenerated, ordersSent, sigQueue, crashes>>
    BY <1>4 DEF StartExecution
  <2>2. NumberAt(exepc', "send") = NumberAt(exepc, "send")
    <3>1. CASE session \in Session
      <4>1. exepc[session] = "none" BY <1>4, <3>1 DEF StartExecution, NotStarted
      <4>2. OnlyMoves(exepc, exepc', session) /\ exepc'[session] # "send" BY <1>1, <2>1, <3>1 DEF OnlyMoves
      <4> QED BY <3>1, <4>1, <4>2, ThreadMoves
    <3>2. CASE session \notin Session
      <4>1. exepc' = exepc BY <1>1, <2>1, <3>2
      <4> QED BY <4>1
    <3> QED BY <3>1, <3>2
  <2> QED BY <2>1, <2>2 DEF Excess
<1>5. ASSUME \/ InitializeClient \/ WorkClient \/ ThreadFails \/ WorkReturns
             \/ StopClient \/ Destroy \/ JoinAll
      PROVE  Goal
  BY <1>2, <1>5 DEF InitializeClient, WorkClient, ThreadFails, WorkReturns, StopClient, Destroy, JoinAll
<1> HIDE DEF Goal
<1>6. Goal BY <1>3, <1>4, <1>5 DEF MainStep
<1> QED BY <1>6 DEF Goal

(* A queue that a race may have damaged stays so, and a process that has    *)
(* died does not come back.                                                 *)
LEMMA AccountedBefore ==
  ASSUME TypeOK, DialsLeft, [Next]_vars, Accounted'
  PROVE  Accounted /\ ~ProcessDies
<1>1. ServerTypeOK /\ FeedTypeOK /\ StrategyTypeOK /\ ExecutionTypeOK BY TypeParts
<1> DEFINE Goal == raced \subseteq raced' /\ (mainpc = "killed" => mainpc' = "killed")
<1>2. ASSUME UNCHANGED <<raced, mainpc>> PROVE Goal BY <1>2
<1>3. ASSUME (ServerStep \/ Environment) /\ UNCHANGED <<feedVars, coreVars>> PROVE Goal
  BY <1>3 DEF feedVars, coreVars
<1>4. ASSUME MainStep PROVE Goal
  <2>1. mainpc # "killed"
    BY <1>4 DEF MainStep, InitializeClient, WorkClient, StartStrategy, StartExecution, ThreadFails,
                WorkReturns, StopClient, Destroy, JoinAll
  <2>2. raced' = raced
    BY <1>4 DEF MainStep, InitializeClient, WorkClient, StartStrategy, StartExecution, ThreadFails,
                WorkReturns, StopClient, Destroy, JoinAll, feedVars
  <2> QED BY <2>1, <2>2
<1>5. ASSUME NEW g \in Session, NetworkStep(g) \/ UseAfterReset(g), UNCHANGED coreVars PROVE Goal
  BY <1>1, <1>5, NetworkKeepsType DEF CoreInv, coreVars
<1>6. ASSUME NEW g \in Session, StrategyStep(g) PROVE Goal
  BY <1>1, <1>6, StrategyKeepsType DEF mainVars
<1>7. ASSUME NEW g \in Session, ExecutionStep(g) PROVE Goal
  BY <1>1, <1>7, ExecutionKeepsType DEF mainVars
<1>8. ASSUME NEW g \in Session, Crash(g) PROVE Goal BY <1>8 DEF Crash, mainVars
<1>9. ASSUME UNCHANGED vars PROVE Goal BY <1>9 DEF vars, feedVars, coreVars
<1>10. ~ProcessDies BY DEF Accounted, ProcessDies
<1> HIDE DEF Goal
<1>11. Goal BY <1>3, <1>4, <1>5, <1>6, <1>7, <1>8, <1>9, <1>10 DEF Next, NetworkThread
<1> QED BY <1>10, <1>11 DEF Goal, Accounted

LEMMA SignalAccountingHoldsNext ==
  ASSUME CoreInv, SignalAccounting, [Next]_vars
  PROVE  SignalAccounting'
<1>0. SUFFICES ASSUME Accounted' PROVE Excess' \in (-crashes')..crashes'
  BY DEF SignalAccounting, Accounted, Excess, NumberAt
<1>1. TypeOK /\ NotStarted /\ DialsLeft BY DEF CoreInv
<1>2. Accounted /\ ~ProcessDies BY <1>0, <1>1, AccountedBefore
<1>3. crashes \in Nat /\ Excess \in Int /\ Excess \in (-crashes)..crashes
  BY <1>1, <1>2, AccountTypes, AccountingIsExcess
<1>4. "sig" \notin raced' BY <1>0 DEF Accounted
<1> DEFINE Goal == Excess' \in (-crashes')..crashes'
<1>5. ASSUME Excess' = Excess, crashes' = crashes PROVE Goal BY <1>3, <1>5
<1>6. ASSUME UNCHANGED coreVars PROVE Goal
  <2>1. Excess' = Excess /\ crashes' = crashes BY <1>6 DEF coreVars, Excess
  <2> QED BY <1>5, <2>1
<1>7. ASSUME MainStep PROVE Goal BY <1>1, <1>5, <1>7, MainAccounts
<1>8. ASSUME NEW g \in Session, StrategyStep(g) PROVE Goal
  <2>1. crashes' = crashes BY <1>1, <1>8, TypeParts, StrategyKeepsType
  <2> QED BY <1>1, <1>4, <1>5, <1>8, <2>1, StrategyAccounts
<1>9. ASSUME NEW g \in Session, ExecutionStep(g) PROVE Goal
  <2>1. crashes' = crashes BY <1>1, <1>9, TypeParts, ExecutionKeepsType
  <2> QED BY <1>1, <1>4, <1>5, <1>9, <2>1, ExecutionAccounts
<1>10. ASSUME NEW g \in Session, Crash(g) PROVE Goal
  <2>1. Excess' \in {Excess - 1, Excess, Excess + 1} BY <1>1, <1>10, CrashAccounts
  <2>2. crashes' = crashes + 1 BY <1>10 DEF Crash
  <2> QED BY <1>3, <2>1, <2>2
<1>11. ASSUME UNCHANGED vars PROVE Goal BY <1>6, <1>11 DEF vars
<1> HIDE DEF Goal
<1>12. Goal BY <1>2, <1>6, <1>7, <1>8, <1>9, <1>10, <1>11 DEF Next, NetworkThread
<1> QED BY <1>12 DEF Goal

(* The signals generated are the orders sent, those in the queue and those  *)
(* a thread is handling, but for one per exception thrown: no signal is     *)
(* counted twice or lost between m_signals_generated, m_signal_queue and    *)
(* m_orders_sent, over any number of sessions, for as long as no two        *)
(* strategy threads have been in push and no two execution threads in pop   *)
(* of that queue at once, as they can be in the joins of a restart.         *)
THEOREM SignalAccountingHolds == Spec => []SignalAccounting
<1>1. Init => SignalAccounting
  <2> SUFFICES ASSUME Init PROVE SignalAccounting OBVIOUS
  <2>1. TypeOK BY CoreInit DEF CoreInv
  <2>2. {g \in Session : strpc[g] = "count"} = {} BY DEF Init
  <2>3. {g \in Session : exepc[g] = "send"} = {} BY DEF Init
  <2>4. NumberAt(strpc, "count") = 0 /\ NumberAt(exepc, "send") = 0
    BY <2>2, <2>3, FS_EmptySet DEF NumberAt
  <2>5. signalsGenerated = 0 /\ ordersSent = 0 /\ Len(sigQueue) = 0 /\ crashes = 0 BY DEF Init
  <2>6. Excess = 0 BY <2>4, <2>5 DEF Excess
  <2> QED BY <2>5, <2>6, AccountingIsExcess
<1>2. CoreInv /\ SignalAccounting /\ [Next]_vars => SignalAccounting'
  BY SignalAccountingHoldsNext
<1> QED BY <1>1, <1>2, CoreInvariant, PTL DEF Spec
-----------------------------------------------------------------------------
(* Threads of several sessions. *)

NoneRevived(pc, moved) ==
    \A g \in Session : (Alive(moved, g) => Alive(pc, g)) /\ (pc[g] = "none" => moved[g] = "none")

LEMMA MoverWasAlive ==
  ASSUME NEW pc, NEW moved, NEW g \in Session, Alive(pc, g), OnlyMoves(pc, moved, g)
  PROVE  NoneRevived(pc, moved)
BY DEF NoneRevived, OnlyMoves, Alive

LEMMA OldThreadsEndedHolds ==
  ASSUME TypeOK, NotStarted, OldThreadsEnded, [Next]_vars
  PROVE  OldThreadsEnded'
<1>1. /\ FeedTypeOK /\ MainTypeOK
      /\ netpc \in [Session -> NetPc]
      /\ strpc \in [Session -> {"none", "loop", "pop", "push", "count", "done"}]
      /\ exepc \in [Session -> {"none", "loop", "pop", "send", "done"}]
      /\ session \in 0..MaxSessions
  BY TypeParts DEF FeedTypeOK, MainTypeOK, StrategyTypeOK, ExecutionTypeOK
<1>2. 1..(session - 1) \subseteq Session BY <1>1, FeedAssumption DEF Session
<1>0. \A g \in 1..(session - 1) : session \in Session BY <1>1 DEF Session
<1> DEFINE Goal == OldThreadsEnded'
<1>3. ASSUME UNCHANGED <<session, mainpc>>,
             NoneRevived(netpc, netpc'), NoneRevived(strpc, strpc'), NoneRevived(exepc, exepc')
      PROVE  Goal
  BY <1>0, <1>2, <1>3 DEF OldThreadsEnded, NotJoined, JoiningOld, NoneRevived
<1>4. NoneRevived(netpc, netpc) /\ NoneRevived(strpc, strpc) /\ NoneRevived(exepc, exepc)
  BY DEF NoneRevived
<1>5. DOMAIN netpc = Session /\ DOMAIN strpc = Session /\ DOMAIN exepc = Session BY <1>1
<1>6. ASSUME UNCHANGED <<session, mainpc, netpc, strpc, exepc>> PROVE Goal
  BY <1>6 DEF OldThreadsEnded, NotJoined, JoiningOld, Alive
<1>7. ASSUME (ServerStep \/ Environment) /\ UNCHANGED <<feedVars, coreVars>> PROVE Goal
  BY <1>6, <1>7 DEF feedVars, coreVars
<1>8. ASSUME MainStep PROVE Goal
  <2> USE DEF strVars, exeVars, feedVars
  <2>0. ASSUME mainpc \in {"idle", "gone"}
        PROVE  \A g \in 1..(session - 1) : ~Alive(netpc, g) /\ ~Alive(strpc, g) /\ ~Alive(exepc, g)
    BY <2>0 DEF OldThreadsEnded, NotJoined, JoiningOld
  <2>1. ASSUME InitializeClient PROVE Goal BY <1>6, <2>1 DEF InitializeClient
  <2>2. ASSUME WorkClient PROVE Goal
    <3>1. /\ session' = session + 1 /\ mainpc = "idle" /\ mainpc' = "startStrategy"
          /\ netpc' = [netpc EXCEPT ![session + 1] = "loop"] /\ UNCHANGED <<strpc, exepc>>
      BY <2>2 DEF WorkClient, GoTo
    <3>2. \A g \in 1..(session' - 1) : g = session \/ g \in 1..(session - 1) BY <1>1, <3>1
    <3>3. \A g \in 1..(session' - 1) : netpc'[g] = netpc[g] BY <1>1, <3>1 DEF Session
    <3>4. \A g \in 1..(session - 1) : ~Alive(netpc, g) /\ ~Alive(strpc, g) /\ ~Alive(exepc, g)
      BY <2>0, <3>1
    <3>5. session' - 1 = session BY <1>1, <3>1
    <3> QED BY <3>1, <3>2, <3>3, <3>4, <3>5 DEF OldThreadsEnded, NotJoined, JoiningOld, Alive
  <2>3. ASSUME StartStrategy PROVE Goal
    <3>1. /\ mainpc = "startStrategy" /\ mainpc' = "startExecution" /\ session' = session
          /\ \A g \in 1..(session - 1) : ~Alive(netpc, g)
          /\ strpc' = [strpc EXCEPT ![session] = "loop"] /\ UNCHANGED <<netpc, exepc>>
      BY <2>3 DEF StartStrategy, Joined, Alive
    <3>2. \A g \in 1..(session - 1) : strpc'[g] = strpc[g] BY <1>1, <3>1
    <3> QED BY <3>1, <3>2 DEF OldThreadsEnded, NotJoined, JoiningOld, Alive
  <2>4. ASSUME StartExecution PROVE Goal
    <3>1. /\ mainpc = "startExecution" /\ mainpc' = "joinExecution" /\ session' = session
          /\ \A g \in 1..(session - 1) : ~Alive(strpc, g)
          /\ exepc' = [exepc EXCEPT ![session] = "loop"] /\ UNCHANGED <<netpc, strpc>>
      BY <2>4 DEF StartExecution, Joined, Alive
    <3>2. \A g \in 1..(session - 1) : exepc'[g] = exepc[g] BY <1>1, <3>1
    <3> QED BY <3>1, <3>2 DEF OldThreadsEnded, NotJoined, JoiningOld, Alive
  <2>5. ASSUME WorkReturns PROVE Goal
    BY <2>5 DEF WorkReturns, Joined, OldThreadsEnded, NotJoined, JoiningOld, Alive
  <2>6. ASSUME StopClient PROVE Goal BY <1>6, <2>6 DEF StopClient
  <2>7. ASSUME Destroy PROVE Goal
    BY <2>7 DEF Destroy, OldThreadsEnded, NotJoined, JoiningOld, Alive
  <2>8. ASSUME JoinAll PROVE Goal
    <3>1. /\ Ended(netpc) /\ Ended(strpc) /\ Ended(exepc)
          /\ UNCHANGED <<session, netpc, strpc, exepc>>
      BY <2>8 DEF JoinAll
    <3> QED BY <1>2, <3>1 DEF Ended, OldThreadsEnded, Alive
  <2>9. ASSUME ThreadFails PROVE Goal
    <3>1. UNCHANGED <<session, netpc, strpc, exepc>> /\ mainpc' = "thrown" BY <2>9 DEF ThreadFails
    <3>2. CASE mainpc = "idle" BY <2>0, <3>1, <3>2 DEF OldThreadsEnded, Alive
    <3>3. CASE mainpc = "startStrategy" /\ Joined(netpc)
      <4>1. session \in Session => strpc[session] = "none" /\ exepc[session] = "none"
        BY <3>3 DEF NotStarted
      <4> QED BY <1>0, <3>1, <3>3, <4>1 DEF Joined, OldThreadsEnded, NotJoined, JoiningOld, Alive
    <3>4. CASE mainpc = "startExecution" /\ Joined(strpc)
      <4>1. session \in Session => exepc[session] = "none" BY <3>4 DEF NotStarted
      <4> QED BY <1>0, <3>1, <3>4, <4>1 DEF Joined, OldThreadsEnded, NotJoined, JoiningOld, Alive
    <3> QED BY <2>9, <3>2, <3>3, <3>4 DEF ThreadFails
  <2> QED BY <1>8, <2>1, <2>2, <2>3, <2>4, <2>5, <2>6, <2>7, <2>8, <2>9 DEF MainStep
<1>9. ASSUME NEW g \in Session, NetworkStep(g) \/ UseAfterReset(g), UNCHANGED coreVars PROVE Goal
  <2>1. /\ Alive(netpc, g)
        /\ \A h \in Session \ {g} :
             netpc'[h] = netpc[h] \/ (netpc[h] = "recv" /\ netpc'[h] = "stray")
    BY <1>1, <1>9, NetworkMoves
  <2>2. NoneRevived(netpc, netpc') BY <2>1 DEF NoneRevived, Alive
  <2>3. UNCHANGED <<session, mainpc, strpc, exepc>> BY <1>9 DEF coreVars
  <2> QED BY <1>3, <1>4, <2>2, <2>3
<1>10. ASSUME ProcessDies PROVE Goal
  BY <1>2, <1>10 DEF ProcessDies, Dead, OldThreadsEnded, Alive
<1>11. ASSUME NEW g \in Session, StrategyStep(g) PROVE Goal
  <2>1. UNCHANGED <<session, mainpc, netpc, exepc>>
    BY <1>11, TypeParts, StrategyKeepsType DEF mainVars, exeVars
  <2>2. Alive(strpc, g) /\ \E label : strpc' = [strpc EXCEPT ![g] = label] BY <1>11, StrategyMoves
  <2>3. NoneRevived(strpc, strpc')
    <3>1. OnlyMoves(strpc, strpc', g) BY <1>5, <2>2 DEF OnlyMoves
    <3> QED BY <2>2, <3>1, MoverWasAlive
  <2> QED BY <1>3, <1>4, <2>1, <2>3
<1>12. ASSUME NEW g \in Session, ExecutionStep(g) PROVE Goal
  <2>1. UNCHANGED <<session, mainpc, netpc, strpc>>
    BY <1>12, TypeParts, ExecutionKeepsType DEF mainVars, strVars
  <2>2. Alive(exepc, g) /\ \E label : exepc' = [exepc EXCEPT ![g] = label] BY <1>12, ExecutionMoves
  <2>3. NoneRevived(exepc, exepc')
    <3>1. OnlyMoves(exepc, exepc', g) BY <1>5, <2>2 DEF OnlyMoves
    <3> QED BY <2>2, <3>1, MoverWasAlive
  <2> QED BY <1>3, <1>4, <2>1, <2>3
<1>13. ASSUME NEW g \in Session, Crash(g) PROVE Goal
  <2>1. UNCHANGED <<session, mainpc>> BY <1>13, CrashMoves DEF mainVars
  <2>2. \/ Alive(netpc, g) /\ OnlyMoves(netpc, netpc', g) /\ UNCHANGED <<strpc, exepc>>
        \/ Alive(strpc, g) /\ OnlyMoves(strpc, strpc', g) /\ UNCHANGED <<netpc, exepc>>
        \/ Alive(exepc, g) /\ OnlyMoves(exepc, exepc', g) /\ UNCHANGED <<netpc, strpc>>
    BY <1>5, <1>13, CrashMoves DEF OnlyMoves
  <2>3. NoneRevived(netpc, netpc') /\ NoneRevived(strpc, strpc') /\ NoneRevived(exepc, exepc')
    BY <1>4, <2>2, MoverWasAlive
  <2> QED BY <1>3, <2>1, <2>3
<1>14. ASSUME UNCHANGED vars PROVE Goal
  BY <1>6, <1>14 DEF vars, feedVars, coreVars
<1> HIDE DEF Goal
<1>15. Goal
  BY <1>7, <1>8, <1>9, <1>10, <1>11, <1>12, <1>13, <1>14 DEF Next, NetworkThread
<1> QED BY <1>15 DEF Goal

(* However often the client is restarted, a queue has two producers or two  *)
(* consumers only while work_client is inside the assignment that joins the *)
(* older of them, and never three.                                          *)
THEOREM RolesOverlapOnlyAtJoinHolds == Spec => []RolesOverlapOnlyAtJoin
<1>1. Init => OldThreadsEnded BY DEF Init, OldThreadsEnded
<1>2. CoreInv /\ OldThreadsEnded /\ [Next]_vars => OldThreadsEnded'
  BY OldThreadsEndedHolds DEF CoreInv
<1>3. CoreInv /\ OldThreadsEnded => RolesOverlapOnlyAtJoin
  <2> SUFFICES ASSUME CoreInv, OldThreadsEnded, NEW g \in Session, NEW h \in Session, g < h
               PROVE  /\ (Alive(netpc, g) /\ Alive(netpc, h)) => h = session /\ JoiningOld(g, {"startStrategy"})
                      /\ (Alive(strpc, g) /\ Alive(strpc, h)) => h = session /\ JoiningOld(g, {"startExecution"})
                      /\ (Alive(exepc, g) /\ Alive(exepc, h)) => h = session /\ JoiningOld(g, {"joinExecution"})
    BY DEF RolesOverlapOnlyAtJoin
  <2>1. session \in Nat /\ g \in Nat /\ h \in Nat /\ g > 0 BY DEF CoreInv, TypeOK, Session
  <2>2. g \in 1..(session - 1) \/ h > session BY <2>1
  <2>3. h \in 1..(session - 1) \/ h >= session BY <2>1
  <2>4. /\ (h > session) => ~Alive(netpc, h) /\ ~Alive(strpc, h) /\ ~Alive(exepc, h)
        /\ (h = session /\ mainpc = "startStrategy") => ~Alive(strpc, h)
        /\ (h = session /\ mainpc \in {"startStrategy", "startExecution"}) => ~Alive(exepc, h)
    BY DEF CoreInv, NotStarted, Alive
  <2>5. ~(g = session - 1 /\ h = session - 1) BY <2>1
  <2>6. h > session \/ h = session \/ h \in 1..(session - 1) BY <2>1
  <2>7. (Alive(netpc, g) /\ Alive(netpc, h)) => h = session /\ JoiningOld(g, {"startStrategy"})
    BY <2>2, <2>4, <2>5, <2>6 DEF OldThreadsEnded, JoiningOld
  <2>8. (Alive(strpc, g) /\ Alive(strpc, h)) => h = session /\ JoiningOld(g, {"startExecution"})
    BY <2>2, <2>4, <2>5, <2>6 DEF OldThreadsEnded, NotJoined, JoiningOld, Alive
  <2>9. (Alive(exepc, g) /\ Alive(exepc, h)) => h = session /\ JoiningOld(g, {"joinExecution"})
    BY <2>2, <2>4, <2>5, <2>6 DEF OldThreadsEnded, NotJoined, JoiningOld, Alive
  <2> QED BY <2>7, <2>8, <2>9
<1> QED BY <1>1, <1>2, <1>3, CoreInvariant, PTL DEF Spec

-----------------------------------------------------------------------------
(* The steps left after a stop. *)

LEMMA NetworkGoesDown ==
  ASSUME FeedTypeOK, NEW g \in Session, NetworkStep(g) \/ UseAfterReset(g), ~running
  PROVE  GoesDown(NetworkStepsLeft, netpc, netpc')
<1> DEFINE Goal == NetworkStepsLeft[netpc'[g]] < NetworkStepsLeft[netpc[g]]
<1>1. Goal
  <2> USE DEF FeedTypeOK, At, GoTo, NetworkStepsLeft
  <2>1. CASE CheckRunning(g) BY <2>1 DEF CheckRunning
  <2>2. CASE CheckRetry(g) \/ SpinAgain(g) BY <2>2 DEF CheckRetry, SpinAgain
  <2>3. CASE Reconnect(g)
    <3>1. netpc[g] = "dial" /\ netpc'[g] = "check" BY <2>3 DEF Reconnect, ResetClient
    <3> QED BY <3>1
  <2>4. CASE ReconnectFails(g)
    <3>1. netpc[g] = "dial" /\ netpc'[g] = "retry" BY <2>4 DEF ReconnectFails, ResetClient
    <3> QED BY <3>1
  <2>5. CASE EndRetries(g) \/ GiveUp(g) BY <2>5 DEF EndRetries, GiveUp
  <2>6. CASE CheckClient(g)
    <3>1. netpc[g] = "check" /\ netpc'[g] \in {"giveup", "loop"} BY <2>6 DEF CheckClient
    <3> QED BY <3>1
  <2>7. CASE RecvFails(g) \/ StrayFails(g)
    <3>1. netpc[g] \in {"recv", "stray"} /\ netpc'[g] = "loop"
      BY <2>7 DEF RecvFails, StrayFails, DropClient, ResetClient
    <3> QED BY <3>1
  <2>8. CASE RecvPartial(g) \/ RecvTick(g) BY <2>8 DEF RecvPartial, RecvTick
  <2>9. CASE Push(g) \/ QueueFull(g) \/ RacedPush(g)
    <3>1. netpc[g] \in {"push", "again"} /\ netpc'[g] \in {"loop", "spin"}
      BY <2>9 DEF Push, QueueFull, RacedPush, Pushing
    <3>2. NetworkStepsLeft[netpc[g]] = 3 BY <3>1
    <3>3. NetworkStepsLeft[netpc'[g]] \in {1, 2} BY <3>1
    <3> QED BY <3>2, <3>3
  <2>10. CASE DropTick(g) \/ StrayReturns(g) BY <2>10 DEF DropTick, StrayReturns
  <2>11. CASE ReturnFromFreed(g)
    <3>1. netpc[g] \in NetPc \ {"none", "done"} /\ netpc'[g] = "done"
      BY <2>11 DEF ReturnFromFreed
    <3> QED BY <3>1 DEF NetPc
  <2> QED
    BY <2>1, <2>2, <2>3, <2>4, <2>5, <2>6, <2>7, <2>8, <2>9, <2>10, <2>11
    DEF NetworkStep, UseAfterReset
<1>2. \A h \in Session \ {g} :
        netpc'[h] = netpc[h] \/ (netpc[h] = "recv" /\ netpc'[h] = "stray")
  BY NetworkMoves
<1>3. NetworkStepsLeft["stray"] < NetworkStepsLeft["recv"] BY DEF NetworkStepsLeft
<1> QED BY <1>1, <1>2, <1>3 DEF GoesDown

LEMMA StrategyGoesDown ==
  ASSUME TypeOK, NEW g \in Session, StrategyStep(g), ~running
  PROVE  StrategyStepsLeft[strpc'[g]] < StrategyStepsLeft[strpc[g]]
<1>0. strpc \in [Session -> {"none", "loop", "pop", "push", "count", "done"}] BY DEF TypeOK
<1> USE <1>0 DEF StrategyGoesTo, StrategyStepsLeft
<1>1. CASE CheckStrategy(g) BY <1>1 DEF CheckStrategy
<1>2. CASE NoTick(g) BY <1>2 DEF NoTick
<1>3. CASE PopTick(g) \/ RacedPopTick(g)
  <2>1. strpc[g] = "pop" /\ \E label \in {"loop", "push"} : strpc' = [strpc EXCEPT ![g] = label]
    BY <1>3 DEF PopTick, RacedPopTick, TakeTick
  <2> QED BY <2>1
<1>4. CASE PushSignal(g) BY <1>4 DEF PushSignal
<1>5. CASE DropSignal(g) BY <1>5 DEF DropSignal
<1>6. CASE RacedPushSignal(g)
  <2>1. strpc[g] = "push" /\ \E label \in {"count", "loop"} : strpc' = [strpc EXCEPT ![g] = label]
    BY <1>6 DEF RacedPushSignal
  <2> QED BY <2>1
<1>7. CASE CountSignal(g) BY <1>7 DEF CountSignal
<1> QED BY <1>1, <1>2, <1>3, <1>4, <1>5, <1>6, <1>7 DEF StrategyStep

LEMMA ExecutionGoesDown ==
  ASSUME TypeOK, NEW g \in Session, ExecutionStep(g), ~running
  PROVE  ExecutionStepsLeft[exepc'[g]] < ExecutionStepsLeft[exepc[g]]
<1>0. exepc \in [Session -> {"none", "loop", "pop", "send", "done"}] BY DEF TypeOK
<1> USE <1>0 DEF ExecutionGoesTo, ExecutionStepsLeft
<1>1. CASE CheckExecution(g) BY <1>1 DEF CheckExecution
<1>2. CASE NothingToSend(g) BY <1>2 DEF NothingToSend
<1>3. CASE PopSignal(g) BY <1>3 DEF PopSignal
<1>4. CASE RacedPopSignal(g)
  <2>1. exepc[g] = "pop" /\ \E label \in {"send", "loop"} : exepc' = [exepc EXCEPT ![g] = label]
    BY <1>4 DEF RacedPopSignal
  <2> QED BY <2>1
<1>5. CASE SendOrder(g) BY <1>5 DEF SendOrder
<1> QED BY <1>1, <1>2, <1>3, <1>4, <1>5 DEF ExecutionStep

(* A thread that ends at once goes down too. *)
LEMMA EndingGoesDown ==
  ASSUME TypeOK, NEW g \in Session
  PROVE  /\ Alive(netpc, g) => NetworkStepsLeft["done"] < NetworkStepsLeft[netpc[g]]
         /\ Alive(strpc, g) => StrategyStepsLeft["done"] < StrategyStepsLeft[strpc[g]]
         /\ Alive(exepc, g) => ExecutionStepsLeft["done"] < ExecutionStepsLeft[exepc[g]]
<1>1. /\ netpc[g] \in NetPc
      /\ strpc[g] \in {"none", "loop", "pop", "push", "count", "done"}
      /\ exepc[g] \in {"none", "loop", "pop", "send", "done"}
  BY DEF TypeOK
<1>2. Alive(netpc, g) => NetworkStepsLeft["done"] < NetworkStepsLeft[netpc[g]]
  BY <1>1 DEF Alive, NetworkStepsLeft, NetPc
<1>3. Alive(strpc, g) => StrategyStepsLeft["done"] < StrategyStepsLeft[strpc[g]]
  BY <1>1 DEF Alive, StrategyStepsLeft
<1>4. Alive(exepc, g) => ExecutionStepsLeft["done"] < ExecutionStepsLeft[exepc[g]]
  BY <1>1 DEF Alive, ExecutionStepsLeft
<1> QED BY <1>2, <1>3, <1>4

LEMMA OneGoesDown ==
  ASSUME NEW left, NEW pc, NEW moved, NEW g \in Session, OnlyMoves(pc, moved, g),
         left[moved[g]] < left[pc[g]]
  PROVE  GoesDown(left, pc, moved)
BY DEF GoesDown, OnlyMoves

LEMMA ShutdownStep ==
  ASSUME CoreInv, [Next]_vars, ~running, ~running'
  PROVE  /\ GoesDown(NetworkStepsLeft, netpc, netpc')
         /\ GoesDown(StrategyStepsLeft, strpc, strpc')
         /\ GoesDown(ExecutionStepsLeft, exepc, exepc')
<1>1. /\ TypeOK /\ NotStarted /\ FeedTypeOK /\ MainTypeOK
      /\ DOMAIN netpc = Session /\ DOMAIN strpc = Session /\ DOMAIN exepc = Session
  BY TypeParts DEF CoreInv, TypeOK
<1> DEFINE Goal == /\ GoesDown(NetworkStepsLeft, netpc, netpc')
                   /\ GoesDown(StrategyStepsLeft, strpc, strpc')
                   /\ GoesDown(ExecutionStepsLeft, exepc, exepc')
<1>2. ASSUME NEW left, NEW pc PROVE GoesDown(left, pc, pc) BY DEF GoesDown
<1>3. ASSUME NEW left, NEW pc, NEW g \in Session, NEW label, DOMAIN pc = Session,
             left[label] < left[pc[g]]
      PROVE  GoesDown(left, pc, [pc EXCEPT ![g] = label])
  <2> DEFINE moved == [pc EXCEPT ![g] = label]
  <2>1. OnlyMoves(pc, moved, g) /\ moved[g] = label BY <1>3 DEF OnlyMoves
  <2> HIDE DEF moved
  <2>2. GoesDown(left, pc, moved) BY <1>3, <2>1, OneGoesDown
  <2> QED BY <2>2 DEF moved
<1>4. ASSUME UNCHANGED <<netpc, strpc, exepc>> PROVE Goal BY <1>2, <1>4
<1>5. ASSUME (ServerStep \/ Environment) /\ UNCHANGED <<feedVars, coreVars>> PROVE Goal
  BY <1>4, <1>5 DEF feedVars, coreVars
<1>6. ASSUME MainStep PROVE Goal
  <2> USE DEF strVars, exeVars, feedVars
  <2>1. CASE InitializeClient \/ ThreadFails \/ WorkReturns \/ StopClient \/ Destroy \/ JoinAll
    BY <1>4, <2>1 DEF InitializeClient, ThreadFails, WorkReturns, StopClient, Destroy, JoinAll
  <2>2. ~WorkClient BY DEF WorkClient
  <2>3. CASE StartStrategy
    <3>1. strpc' = [strpc EXCEPT ![session] = "loop"] /\ UNCHANGED <<netpc, exepc>> /\ mainpc = "startStrategy"
      BY <2>3 DEF StartStrategy
    <3>2. CASE session \in Session
      <4>1. strpc[session] = "none" BY <1>1, <3>1, <3>2 DEF NotStarted
      <4>2. StrategyStepsLeft["loop"] < StrategyStepsLeft["none"] BY DEF StrategyStepsLeft
      <4> QED BY <1>1, <1>2, <1>3, <3>1, <3>2, <4>1, <4>2
    <3>3. CASE session \notin Session
      <4>1. strpc' = strpc BY <1>1, <3>1, <3>3 DEF TypeOK
      <4> QED BY <1>4, <3>1, <4>1
    <3> QED BY <3>2, <3>3
  <2>4. CASE StartExecution
    <3>1. exepc' = [exepc EXCEPT ![session] = "loop"] /\ UNCHANGED <<netpc, strpc>> /\ mainpc = "startExecution"
      BY <2>4 DEF StartExecution
    <3>2. CASE session \in Session
      <4>1. exepc[session] = "none" BY <1>1, <3>1, <3>2 DEF NotStarted
      <4>2. ExecutionStepsLeft["loop"] < ExecutionStepsLeft["none"] BY DEF ExecutionStepsLeft
      <4> QED BY <1>1, <1>2, <1>3, <3>1, <3>2, <4>1, <4>2
    <3>3. CASE session \notin Session
      <4>1. exepc' = exepc BY <1>1, <3>1, <3>3 DEF TypeOK
      <4> QED BY <1>4, <3>1, <4>1
    <3> QED BY <3>2, <3>3
  <2> HIDE DEF Goal
  <2> QED BY <1>6, <2>1, <2>2, <2>3, <2>4 DEF MainStep
<1>7. ASSUME NEW g \in Session, NetworkStep(g) \/ UseAfterReset(g), UNCHANGED coreVars PROVE Goal
  <2>1. GoesDown(NetworkStepsLeft, netpc, netpc') BY <1>1, <1>7, NetworkGoesDown
  <2>2. UNCHANGED <<strpc, exepc>> BY <1>7 DEF coreVars
  <2> QED BY <1>2, <2>1, <2>2
<1>8. ASSUME ProcessDies PROVE Goal
  <2>1. netpc' = Dead(netpc) /\ strpc' = Dead(strpc) /\ exepc' = Dead(exepc)
    BY <1>8 DEF ProcessDies
  <2>2. GoesDown(NetworkStepsLeft, netpc, netpc')
    BY <1>1, <2>1, EndingGoesDown DEF GoesDown, Dead, Alive
  <2>3. GoesDown(StrategyStepsLeft, strpc, strpc')
    BY <1>1, <2>1, EndingGoesDown DEF GoesDown, Dead, Alive
  <2>4. GoesDown(ExecutionStepsLeft, exepc, exepc')
    BY <1>1, <2>1, EndingGoesDown DEF GoesDown, Dead, Alive
  <2> QED BY <2>2, <2>3, <2>4
<1>9. ASSUME NEW g \in Session, StrategyStep(g) PROVE Goal
  <2>1. UNCHANGED <<netpc, exepc>> BY <1>1, <1>9, TypeParts, StrategyKeepsType DEF exeVars
  <2>2. \E label : strpc' = [strpc EXCEPT ![g] = label] BY <1>9, StrategyMoves
  <2>3. StrategyStepsLeft[strpc'[g]] < StrategyStepsLeft[strpc[g]] BY <1>1, <1>9, StrategyGoesDown
  <2>4. OnlyMoves(strpc, strpc', g) BY <1>1, <2>2 DEF OnlyMoves
  <2>5. GoesDown(StrategyStepsLeft, strpc, strpc') BY <2>3, <2>4, OneGoesDown
  <2> QED BY <1>2, <2>1, <2>5
<1>10. ASSUME NEW g \in Session, ExecutionStep(g) PROVE Goal
  <2>1. UNCHANGED <<netpc, strpc>> BY <1>1, <1>10, TypeParts, ExecutionKeepsType DEF strVars
  <2>2. \E label : exepc' = [exepc EXCEPT ![g] = label] BY <1>10, ExecutionMoves
  <2>3. ExecutionStepsLeft[exepc'[g]] < ExecutionStepsLeft[exepc[g]] BY <1>1, <1>10, ExecutionGoesDown
  <2>4. OnlyMoves(exepc, exepc', g) BY <1>1, <2>2 DEF OnlyMoves
  <2>5. GoesDown(ExecutionStepsLeft, exepc, exepc') BY <2>3, <2>4, OneGoesDown
  <2> QED BY <1>2, <2>1, <2>5
<1>11. ASSUME NEW g \in Session, Crash(g) PROVE Goal
  <2>1. CASE Alive(netpc, g) /\ netpc' = [netpc EXCEPT ![g] = "done"] /\ UNCHANGED <<strpc, exepc>>
    BY <1>1, <1>2, <1>3, <2>1, EndingGoesDown
  <2>2. CASE Alive(strpc, g) /\ strpc' = [strpc EXCEPT ![g] = "done"] /\ UNCHANGED <<netpc, exepc>>
    BY <1>1, <1>2, <1>3, <2>2, EndingGoesDown
  <2>3. CASE Alive(exepc, g) /\ exepc' = [exepc EXCEPT ![g] = "done"] /\ UNCHANGED <<netpc, strpc>>
    BY <1>1, <1>2, <1>3, <2>3, EndingGoesDown
  <2> HIDE DEF Goal
  <2> QED BY <1>11, <2>1, <2>2, <2>3, CrashMoves
<1>12. ASSUME UNCHANGED vars PROVE Goal BY <1>4, <1>12 DEF vars, feedVars, coreVars
<1> HIDE DEF Goal
<1>13. Goal
  BY <1>5, <1>6, <1>7, <1>8, <1>9, <1>10, <1>11, <1>12 DEF Next, NetworkThread
<1> QED BY <1>13 DEF Goal

(* Once the flag is down, no thread of any session takes more than six      *)
(* steps to its end, whether or not the connection works and the queues are *)
(* full: no loop of the pipeline goes round again.                          *)
THEOREM ShutdownIsBoundedHolds == Spec => ShutdownIsBounded
<1>1. CoreInv /\ [Next]_vars =>
        [~running /\ ~running' =>
           /\ GoesDown(NetworkStepsLeft, netpc, netpc')
           /\ GoesDown(StrategyStepsLeft, strpc, strpc')
           /\ GoesDown(ExecutionStepsLeft, exepc, exepc')]_vars
  BY ShutdownStep
<1> QED BY <1>1, CoreInvariant, PTL DEF Spec, ShutdownIsBounded
=============================================================================
