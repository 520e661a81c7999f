-------------------------- MODULE BookEngine_proofs --------------------------
(***************************************************************************)
(* The order book implements the matching engine: each step of add and     *)
(* remove is a step of MatchingEngine or leaves its state alone, for every *)
(* capacity, set of ids, set of prices and largest quantity.               *)
(***************************************************************************)
EXTENDS OptionOrderBook_proofs, FiniteSetTheorems, FunctionTheorems

(* The orders in the two containers, whether consumed or not. *)
All == ToSet(containers["Bid"]) \cup ToSet(containers["Ask"])

(* A bid is among the bids and an ask among the asks. *)
OwnSide == \A s \in Side : \A k \in 1..Len(containers[s]) : containers[s][k].side = s

EngineInv == BookInv /\ OwnSide

(* No two orders of the containers carry the same id. *)
IdsIdentify == \A o, p \in All : o.id = p.id => o = p
-----------------------------------------------------------------------------
(* Positions and members. *)
LEMMA Members ==
    ASSUME ContainersType
    PROVE  \A o : o \in All <=> \E s \in Side : \E k \in 1..Len(containers[s]) : containers[s][k] = o
<1>1. ASSUME NEW s \in Side
      PROVE  \A o : o \in ToSet(containers[s]) <=> \E k \in 1..Len(containers[s]) : containers[s][k] = o
  <2>1. containers[s] \in Seq(Order)
    BY ContainerFacts
  <2>. QED
    BY <2>1, ToSetOfSeq
<1>2. Side = {"Bid", "Ask"}
  BY DEF Side
<1>. QED
  BY <1>1, <1>2 DEF All

LEMMA MembersNext ==
    ASSUME ContainersType'
    PROVE  \A o : o \in All' <=> \E s \in Side : \E k \in 1..Len(containers'[s]) : containers'[s][k] = o
<1>1. (ContainersType => \A o : o \in All <=> \E s \in Side : \E k \in 1..Len(containers[s]) : containers[s][k] = o)'
  BY Members, PTL
<1>. QED
  BY <1>1

LEMMA IdsAreKeys ==
    ASSUME ContainersType, BookShape
    PROVE  IdsIdentify
<1> SUFFICES ASSUME NEW o \in All, NEW p \in All, o.id = p.id PROVE o = p
  BY DEF IdsIdentify
<1>1. PICK s \in Side : \E k \in 1..Len(containers[s]) : containers[s][k] = o
  BY Members
<1>2. PICK k \in 1..Len(containers[s]) : containers[s][k] = o
  BY <1>1
<1>3. PICK t \in Side : \E j \in 1..Len(containers[t]) : containers[t][j] = p
  BY Members
<1>4. PICK j \in 1..Len(containers[t]) : containers[t][j] = p
  BY <1>3
<1>5. k \in DOMAIN containers[s] /\ j \in DOMAIN containers[t]
  BY <1>2, <1>4, ContainerFacts
<1>6. s = t
  BY <1>2, <1>4, <1>5 DEF BookShape, MapMatchesContainers, ContainersInMap
<1>7. k = j
  BY <1>2, <1>4, <1>5, <1>6 DEF BookShape, MapMatchesContainers, UniqueIds
<1>. QED
  BY <1>2, <1>4, <1>6, <1>7

(* Every order of the book is an order, and sits on its own side.           *)
LEMMA MemberFacts ==
    ASSUME ContainersType, OwnSide, NEW o \in All
    PROVE  o \in Order /\ \E k \in 1..Len(containers[o.side]) : containers[o.side][k] = o
<1>1. PICK s \in Side : \E k \in 1..Len(containers[s]) : containers[s][k] = o
  BY Members
<1>2. PICK k \in 1..Len(containers[s]) : containers[s][k] = o
  BY <1>1
<1>3. o.side = s
  BY <1>2 DEF OwnSide
<1>4. o \in Order
  BY <1>2, ContainerFacts
<1>. QED
  BY <1>2, <1>3, <1>4

(* What remove takes out of the book. *)
LEMMA EraseMembers ==
    ASSUME ContainersType, BookShape, OwnSide, NEW id, Has(id), Erase(id)
    PROVE  /\ All' = {o \in All : o.id # id}
           /\ \E o \in All : o.id = id
           /\ OwnSide'
<1> DEFINE s == orderIdsToSide[id]
           c == containers
           d == containers'
<1>1. PICK k \in 1..Len(c[s]) :
        /\ s \in Side
        /\ c[s][k].id = id
        /\ d \in [Side -> Seq(Order)]
        /\ Len(d[s]) = Len(c[s]) - 1
        /\ \A j \in 1..(Len(c[s]) - 1) : d[s][j] = IF j < k THEN c[s][j] ELSE c[s][j + 1]
        /\ \A t \in Side \ {s} : d[t] = c[t]
  BY EraseEffect
<1> HIDE DEF c, d, s
<1>2. ContainersType' /\ Len(c[s]) \in Nat
  BY <1>1, EraseKeepsShape, ContainerFacts DEF c
<1>3. \A o : o \in All <=> \E t \in Side : \E j \in 1..Len(c[t]) : c[t][j] = o
  BY Members DEF c
<1>4. \A o : o \in All' <=> \E t \in Side : \E j \in 1..Len(d[t]) : d[t][j] = o
  BY <1>2, MembersNext DEF d
<1>5. \A t \in Side : \A j \in 1..Len(c[t]) : c[t][j].id = id => t = s /\ j = k
  <2>1. SUFFICES ASSUME NEW t \in Side, NEW j \in 1..Len(c[t]), c[t][j].id = id
                 PROVE  t = s /\ j = k
    OBVIOUS
  <2>2. j \in DOMAIN c[t] /\ k \in DOMAIN c[s]
    BY <1>1, ContainerFacts DEF c
  <2>3. t = s
    BY <1>1, <2>1, <2>2 DEF BookShape, MapMatchesContainers, ContainersInMap, c, s
  <2>4. j = k
    BY <1>1, <2>1, <2>2, <2>3 DEF BookShape, MapMatchesContainers, UniqueIds, c
  <2>. QED
    BY <2>3, <2>4
<1>6. \A t \in Side : \A j \in 1..Len(d[t]) :
        \E m \in 1..Len(c[t]) : c[t][m] = d[t][j] /\ ~(t = s /\ m = k)
  <2>1. SUFFICES ASSUME NEW t \in Side, NEW j \in 1..Len(d[t])
                 PROVE  \E m \in 1..Len(c[t]) : c[t][m] = d[t][j] /\ ~(t = s /\ m = k)
    OBVIOUS
  <2>2. CASE t # s
    BY <1>1, <2>2
  <2>3. CASE t = s
    <3>1. j \in 1..(Len(c[s]) - 1)
      BY <1>1, <2>3
    <3>2. CASE j < k
      <4>1. j \in 1..Len(c[s]) /\ j # k /\ c[s][j] = d[s][j]
        BY <1>1, <1>2, <3>1, <3>2
      <4>. QED
        BY <2>3, <4>1
    <3>3. CASE ~(j < k)
      <4>1. j + 1 \in 1..Len(c[s]) /\ j + 1 # k
        BY <1>1, <1>2, <3>1, <3>3
      <4>2. c[s][j + 1] = d[s][j]
        BY <1>1, <3>1, <3>3
      <4>. QED
        BY <2>3, <4>1, <4>2
    <3>. QED
      BY <3>2, <3>3
  <2>. QED
    BY <2>2, <2>3
<1>7. \A t \in Side : \A m \in 1..Len(c[t]) :
        ~(t = s /\ m = k) => \E j \in 1..Len(d[t]) : d[t][j] = c[t][m]
  <2>1. SUFFICES ASSUME NEW t \in Side, NEW m \in 1..Len(c[t]), ~(t = s /\ m = k)
                 PROVE  \E j \in 1..Len(d[t]) : d[t][j] = c[t][m]
    OBVIOUS
  <2>2. CASE t # s
    BY <1>1, <2>2
  <2>3. CASE t = s
    <3>1. CASE m < k
      <4>1. m \in 1..(Len(c[s]) - 1)
        BY <1>1, <1>2, <2>3, <3>1
      <4>2. m \in 1..Len(d[s]) /\ d[s][m] = c[s][m]
        BY <1>1, <3>1, <4>1
      <4>. QED
        BY <2>3, <4>2
    <3>2. CASE ~(m < k)
      <4>1. m - 1 \in 1..(Len(c[s]) - 1) /\ ~(m - 1 < k) /\ (m - 1) + 1 = m
        BY <1>1, <1>2, <2>1, <2>3, <3>2
      <4>2. m - 1 \in 1..Len(d[s]) /\ d[s][m - 1] = c[s][m]
        BY <1>1, <4>1
      <4>. QED
        BY <2>3, <4>2
    <3>. QED
      BY <3>1, <3>2
  <2>. QED
    BY <2>2, <2>3
<1>8. All' = {o \in All : o.id # id}
  <2>1. ASSUME NEW o \in All' PROVE o \in All /\ o.id # id
    BY <1>3, <1>4, <1>5, <1>6
  <2>2. ASSUME NEW o \in All, o.id # id PROVE o \in All'
    <3>1. PICK t \in Side : \E m \in 1..Len(c[t]) : c[t][m] = o
      BY <1>3
    <3>2. PICK m \in 1..Len(c[t]) : c[t][m] = o
      BY <3>1
    <3>3. ~(t = s /\ m = k)
      BY <1>1, <2>2, <3>2
    <3>4. \E j \in 1..Len(d[t]) : d[t][j] = o
      BY <1>7, <3>2, <3>3
    <3>. QED
      BY <1>4, <3>4
  <2>. QED
    BY <2>1, <2>2
<1>9. \E o \in All : o.id = id
  BY <1>1, <1>3
<1>10. OwnSide'
  <2>1. \A t \in Side : \A j \in 1..Len(c[t]) : c[t][j].side = t
    BY DEF OwnSide, c
  <2>2. \A t \in Side : \A j \in 1..Len(d[t]) : d[t][j].side = t
    BY <1>6, <2>1
  <2>. QED
    BY <2>2 DEF OwnSide, d
<1>. QED
  BY <1>8, <1>9, <1>10

(* What a partial fill changes in the book. *)
LEMMA EditMembers ==
    ASSUME ContainersType, BookShape, OwnSide,
           NEW s \in Side, NEW k \in 1..Len(containers[s]), NEW q \in 0..MaxQty,
           containers' = WithQty(s, k, q),
           orderIdsToSide' = orderIdsToSide
    PROVE  /\ All' = (All \ {containers[s][k]}) \cup {[containers[s][k] EXCEPT !.qty = q]}
           /\ OwnSide'
<1> DEFINE c == containers
           d == containers'
           p == containers[s][k]
           r == [p EXCEPT !.qty = q]
<1>1. /\ ContainersType'
      /\ \A t \in Side : Len(d[t]) = Len(c[t])
  BY QtyEdit
<1>2. /\ c \in [Side -> Seq(Order)] /\ c[s] \in Seq(Order) /\ DOMAIN c[s] = 1..Len(c[s])
      /\ p \in Order
  BY ContainerFacts DEF ContainersType
<1>3. d = [c EXCEPT ![s] = [c[s] EXCEPT ![k] = r]]
  BY DEF WithQty
<1>4. \A t \in Side : \A j \in 1..Len(c[t]) : d[t][j] = IF t = s /\ j = k THEN r ELSE c[t][j]
  <2> HIDE DEF r, p
  <2>. QED
    BY <1>2, <1>3
<1>5. r.side = p.side
  BY <1>2 DEF Order
<1>6. IdsIdentify
  BY IdsAreKeys
<1>7. \A o : o \in All <=> \E t \in Side : \E j \in 1..Len(c[t]) : c[t][j] = o
  BY Members
<1>8. \A o : o \in All' <=> \E t \in Side : \E j \in 1..Len(d[t]) : d[t][j] = o
  BY <1>1, MembersNext
<1>9. \A t \in Side : \A j \in 1..Len(c[t]) : c[t][j] = p => t = s /\ j = k
  <2>1. SUFFICES ASSUME NEW t \in Side, NEW j \in 1..Len(c[t]), c[t][j] = p
                 PROVE  t = s /\ j = k
    OBVIOUS
  <2>2. j \in DOMAIN c[t] /\ k \in DOMAIN c[s]
    BY ContainerFacts
  <2>3. t = s
    BY <2>1, <2>2 DEF BookShape, MapMatchesContainers, ContainersInMap
  <2>4. j = k
    BY <2>1, <2>2, <2>3 DEF BookShape, MapMatchesContainers, UniqueIds
  <2>. QED
    BY <2>3, <2>4
<1>10. \A t \in Side : \A j \in 1..Len(c[t]) : c[t][j].side = t
  BY DEF OwnSide
<1>11. p = c[s][k]
  OBVIOUS
<1> HIDE DEF c, d, p, r
<1>12. All' = (All \ {p}) \cup {r}
  <2>1. ASSUME NEW o \in All' PROVE o = r \/ (o \in All /\ o # p)
    <3>1. PICK t \in Side : \E j \in 1..Len(d[t]) : d[t][j] = o
      BY <1>8
    <3>2. PICK j \in 1..Len(c[t]) : d[t][j] = o
      BY <1>1, <3>1
    <3>. QED
      BY <1>4, <1>7, <1>9, <3>2
  <2>2. r \in All'
    <3>1. k \in 1..Len(d[s]) /\ d[s][k] = r
      BY <1>1, <1>4, <1>11 DEF c
    <3>. QED
      BY <1>8, <3>1
  <2>3. ASSUME NEW o \in All, o # p PROVE o \in All'
    <3>1. PICK t \in Side : \E j \in 1..Len(c[t]) : c[t][j] = o
      BY <1>7
    <3>2. PICK j \in 1..Len(c[t]) : c[t][j] = o
      BY <3>1
    <3>3. j \in 1..Len(d[t]) /\ d[t][j] = o
      BY <1>1, <1>4, <1>11, <2>3, <3>2
    <3>. QED
      BY <1>8, <3>3
  <2>. QED
    BY <2>1, <2>2, <2>3
<1>13. OwnSide'
  <2>1. \A t \in Side : \A j \in 1..Len(d[t]) : d[t][j].side = t
    BY <1>1, <1>4, <1>5, <1>10, <1>11
  <2>. QED
    BY <2>1 DEF OwnSide, d
<1>. QED
  BY <1>12, <1>13 DEF c, p, r

(* What add puts into the book. *)
LEMMA InsertMembers ==
    ASSUME BookInv, OwnSide, Insert
    PROVE  All' = All \cup {order} /\ OwnSide'
<1> DEFINE s == order.side
           c == containers
           d == containers'
           p == InsertPos(containers[order.side], order)
<1>1. d = [c EXCEPT ![s] = InsertAt(c[s], p, order)]
  BY DEF Insert
<1>2. order \in Order /\ order.side \in Side /\ ContainersType /\ ContainersType'
  BY MatchedFacts, OrderFields, InsertKeepsInv, BookInvParts DEF Insert
<1>3. p \in 1..(Len(c[s]) + 1) /\ c[s] \in Seq(Order) /\ Len(c[s]) \in Nat
  BY <1>2, InsertPosFacts, ContainerFacts
<1>4. \A o : o \in All <=> \E t \in Side : \E j \in 1..Len(c[t]) : c[t][j] = o
  BY <1>2, Members
<1>5. \A o : o \in All' <=> \E t \in Side : \E j \in 1..Len(d[t]) : d[t][j] = o
  BY <1>2, MembersNext
<1>6. c \in [Side -> Seq(Order)]
  BY <1>2 DEF ContainersType
<1>7. \A t \in Side : \A j \in 1..Len(c[t]) : c[t][j].side = t
  BY DEF OwnSide
<1>8. s \in Side /\ order.side = s
  BY <1>2
<1> HIDE DEF c, d, p, s
<1> DEFINE v == c[s]
           w == InsertAt(v, p, order)
<1>9. /\ Len(w) = Len(v) + 1
      /\ \A j \in 1..(Len(v) + 1) : w[j] = IF j < p THEN v[j] ELSE IF j = p THEN order ELSE v[j - 1]
  <2>1. v \in Seq(Order) /\ p \in 1..(Len(v) + 1) /\ order \in Order
    BY <1>2, <1>3
  <2> HIDE DEF v
  <2>. QED
    BY <2>1, InsertAtProperties
<1>10. /\ Len(d[s]) = Len(c[s]) + 1
       /\ \A j \in 1..(Len(c[s]) + 1) :
            d[s][j] = IF j < p THEN c[s][j] ELSE IF j = p THEN order ELSE c[s][j - 1]
       /\ \A t \in Side \ {s} : d[t] = c[t]
  <2>1. d = [c EXCEPT ![s] = w]
    BY <1>1
  <2> HIDE DEF w
  <2>2. d[s] = w /\ \A t \in Side \ {s} : d[t] = c[t]
    BY <1>6, <1>8, <2>1
  <2>. QED
    BY <1>9, <2>2
<1> HIDE DEF v, w
<1>11. \A j \in 1..Len(d[s]) : d[s][j] = order \/ \E m \in 1..Len(c[s]) : c[s][m] = d[s][j]
  <2>1. SUFFICES ASSUME NEW j \in 1..(Len(c[s]) + 1), j # p
                 PROVE  \E m \in 1..Len(c[s]) : c[s][m] = d[s][j]
    BY <1>10
  <2>2. CASE j < p
    <3>1. j \in 1..Len(c[s]) /\ d[s][j] = c[s][j]
      BY <1>3, <1>10, <2>2
    <3>. QED
      BY <3>1
  <2>3. CASE ~(j < p)
    <3>1. j - 1 \in 1..Len(c[s])
      BY <1>3, <2>1, <2>3
    <3>2. d[s][j] = c[s][j - 1]
      BY <1>10, <2>1, <2>3
    <3>. QED
      BY <3>1, <3>2
  <2>. QED
    BY <2>2, <2>3
<1>12. \A m \in 1..Len(c[s]) : \E j \in 1..Len(d[s]) : d[s][j] = c[s][m]
  <2>1. SUFFICES ASSUME NEW m \in 1..Len(c[s]) PROVE \E j \in 1..(Len(c[s]) + 1) : d[s][j] = c[s][m]
    BY <1>10
  <2>2. CASE m < p
    <3>1. m \in 1..(Len(c[s]) + 1)
      BY <1>3
    <3>2. d[s][m] = c[s][m]
      BY <1>10, <2>2, <3>1
    <3>. QED
      BY <3>1, <3>2
  <2>3. CASE ~(m < p)
    <3>1. m + 1 \in 1..(Len(c[s]) + 1) /\ ~(m + 1 < p) /\ m + 1 # p /\ (m + 1) - 1 = m
      BY <1>3, <2>3
    <3>2. d[s][m + 1] = c[s][m]
      BY <1>10, <3>1
    <3>. QED
      BY <3>1, <3>2
  <2>. QED
    BY <2>2, <2>3
<1>13. order \in All'
  <2>1. p \in 1..Len(d[s]) /\ d[s][p] = order
    BY <1>3, <1>10
  <2>. QED
    BY <1>5, <1>8, <2>1
<1>14. ASSUME NEW o \in All' PROVE o = order \/ o \in All
  <2>1. PICK t \in Side : \E j \in 1..Len(d[t]) : d[t][j] = o
    BY <1>5
  <2>2. CASE t = s
    BY <1>4, <1>8, <1>11, <2>1, <2>2
  <2>3. CASE t # s
    BY <1>4, <1>10, <2>1, <2>3
  <2>. QED
    BY <2>2, <2>3
<1>15. ASSUME NEW o \in All PROVE o \in All'
  <2>1. PICK t \in Side : \E m \in 1..Len(c[t]) : c[t][m] = o
    BY <1>4
  <2>2. CASE t = s
    BY <1>5, <1>8, <1>12, <2>1, <2>2
  <2>3. CASE t # s
    BY <1>5, <1>10, <2>1, <2>3
  <2>. QED
    BY <2>2, <2>3
<1>16. \A t \in Side : \A j \in 1..Len(d[t]) : d[t][j].side = t
  <2>1. \A j \in 1..Len(d[s]) : d[s][j].side = s
    BY <1>7, <1>8, <1>11
  <2>. QED
    BY <1>7, <1>10, <2>1
<1>17. OwnSide'
  BY <1>16 DEF OwnSide, d
<1>. QED
  BY <1>13, <1>14, <1>15, <1>17

-----------------------------------------------------------------------------
(* What rests is what has not been consumed. *)
LEMMA RestingMembers == Resting = {o \in All : o.id \notin ToSet(idsToRemove)}
BY DEF Resting, All

LEMMA RestingMembersNext == Resting' = {o \in All' : o.id \notin ToSet(idsToRemove')}
BY DEF Resting, All

LEMMA RestingFrame ==
    ASSUME UNCHANGED <<containers, idsToRemove>>
    PROVE  Resting' = Resting
BY DEF Resting

LEMMA RestingAll ==
    ASSUME idsToRemove = <<>>
    PROVE  Resting = All
<1>1. ToSet(<<>>) = {}
  BY DEF ToSet
<1>. QED
  BY <1>1, RestingMembers

(* An order and NoOrder are different. *)
LEMMA OrderIsThere ==
    ASSUME order \in Order
    PROVE  order # NoOrder
BY NoOrderAssumption DEF Order, AnyOrder

(* The order the loop stands at rests, and is a best one to trade with.     *)
LEMMA PassiveIsBest ==
    ASSUME BookInv, OwnSide, AtPassive, Tradeable(order, Passive)
    PROVE  /\ Passive \in All /\ Passive \in Resting
           /\ Passive \in Engine!Best
           /\ order \in Order /\ order.qty > 0 /\ Passive \in Order /\ Passive.qty > 0
<1> DEFINE s == OppSide(order.side)
           c == Opposite
<1>1. /\ pc = "match" /\ i \in 1..Len(c) /\ i \in Nat
      /\ order \in Order /\ order.qty > 0 /\ Passive \in Order /\ Passive.qty > 0
      /\ Passive = c[i]
  BY AtPassiveFacts DEF Passive
<1>2. /\ s \in Side /\ s # order.side /\ order.side \in Side /\ c = containers[s] /\ Len(c) \in Nat
      /\ DOMAIN c = 1..Len(c) /\ \A k \in 1..Len(c) : c[k] \in Order
  BY <1>1, OppositeFacts, OrderFields, BookInvParts DEF Opposite
<1>3. Len(idsToRemove) = i - 1 /\ idsToRemove \in Seq(OrderId)
  BY TradesAtFront, AtPassiveFacts
<1>4. Passive \in All
  BY <1>1, <1>2, BookInvParts, Members
<1>5. \A k \in 1..(i - 1) : idsToRemove[k] = c[k].id
  BY <1>1, <1>3, BookInvParts DEF CallProgress, ConsumedIsFront
<1>6. \A x : x \in ToSet(idsToRemove) <=> \E k \in 1..(i - 1) : c[k].id = x
  <2>1. \A x : x \in ToSet(idsToRemove) <=> \E k \in 1..(i - 1) : idsToRemove[k] = x
    BY <1>3, ToSetOfSeq
  <2>. QED
    BY <1>5, <2>1
<1> HIDE DEF c
<1>7. \A j, k \in 1..Len(c) : c[j].id = c[k].id => j = k
  BY <1>2, BookInvParts DEF BookShape, MapMatchesContainers, UniqueIds
<1>8. Passive \in Resting
  <2>1. ASSUME NEW k \in 1..(i - 1) PROVE c[k].id # Passive.id
    <3>1. k \in 1..Len(c) /\ k # i
      BY <1>1, <1>2
    <3>. QED
      BY <1>1, <1>7, <3>1
  <2>. QED
    BY <1>4, <1>6, <2>1, RestingMembers
<1>9. Passive.side = s
  BY <1>1, <1>2 DEF OwnSide
<1>10. Passive \in Engine!Compatible
  <2>1. ~IsMoreCons(order.price, Passive.price, order.side)
    BY DEF Tradeable
  <2>2. ~Engine!Better(Passive.price, order.price, order.side)
    BY <1>1, <2>1, OrderFields DEF Engine!Better, IsMoreCons
  <2>. QED
    BY <1>2, <1>8, <1>9, <2>2 DEF Engine!Compatible
<1>11. ASSUME NEW q \in Engine!Compatible PROVE ~Engine!Better(q.price, Passive.price, Passive.side)
  <2>1. q \in Resting /\ q.side # order.side
    BY DEF Engine!Compatible
  <2>2. q \in All /\ q.id \notin ToSet(idsToRemove)
    BY <2>1, RestingMembers
  <2>3. q \in Order /\ \E k \in 1..Len(containers[q.side]) : containers[q.side][k] = q
    BY <2>2, MemberFacts, BookInvParts
  <2>4. q.side = s
    BY <1>2, <2>1, <2>3, OrderFields DEF Side
  <2>5. PICK k \in 1..Len(c) : c[k] = q
    BY <1>2, <2>3, <2>4
  <2>6. ~(k \in 1..(i - 1))
    BY <1>6, <2>2, <2>5
  <2>7. k = i \/ i < k
    BY <1>1, <1>2, <2>6
  <2>8. k = i \/ ~IsMoreCons(Passive.price, q.price, s)
    BY <1>1, <1>2, <2>5, <2>7, BookInvParts DEF BookShape, PriceSorted
  <2>9. k = i => q = Passive
    BY <1>1, <2>5
  <2>10. Passive.price \in Int /\ q.price \in Int
    BY <1>1, <2>3, OrderFields
  <2>. QED
    BY <1>9, <2>8, <2>9, <2>10 DEF Engine!Better, IsMoreCons
<1>12. Passive \in Engine!Best
  BY <1>10, <1>11 DEF Engine!Best
<1>. QED
  BY <1>1, <1>4, <1>8, <1>12

-----------------------------------------------------------------------------
(* One lemma per action: what it is to the engine.                          *)
LEMMA RejectIsReject ==
    ASSUME BookInv, NEW o, RejectInvalid(o)
    PROVE  Engine!Reject
<1>1. pc = "idle" /\ result' = FALSE /\ UNCHANGED <<containers, idsToRemove, order>>
  BY DEF RejectInvalid
<1>2. order = NoOrder
  BY <1>1, BookInvParts DEF CallType
<1>3. Resting' = Resting
  BY <1>1, RestingFrame
<1>. QED
  BY <1>1, <1>2, <1>3 DEF Engine!Reject

LEMMA StartIsSubmit ==
    ASSUME BookInv, NEW o \in AnyOrder, StartMatch(o)
    PROVE  o \in Engine!Submitted /\ Engine!Submit(o)
<1>1. /\ pc = "idle" /\ IsValid(o) /\ order' = o /\ idsToRemove' = <<>>
      /\ UNCHANGED <<containers, result>>
  BY DEF StartMatch
<1>2. order = NoOrder /\ idsToRemove = <<>>
  BY <1>1, BookInvParts DEF CallType, CallProgress, ConsumedIsFront
<1>3. Resting' = Resting
  BY <1>1, <1>2, RestingFrame
<1>4. o \in Engine!Submitted
  BY DEF AnyOrder, Engine!Submitted, Side, Engine!Side
<1>. QED
  BY <1>1, <1>2, <1>3, <1>4 DEF Engine!Submit, IsValid

(* remove answers true exactly when the order was there. *)
LEMMA RemoveIsCancel ==
    ASSUME EngineInv, NEW id, RemoveOrder(id)
    PROVE  Engine!Cancel(id) /\ OwnSide'
<1>1. /\ pc = "idle" /\ Erase(id) /\ result' = Has(id) /\ UNCHANGED <<order, idsToRemove>>
  BY DEF RemoveOrder
<1>2. ContainersType /\ BookShape /\ OwnSide
  BY BookInvParts DEF EngineInv
<1>3. order = NoOrder /\ idsToRemove = <<>> /\ idsToRemove' = <<>>
  BY <1>1, BookInvParts DEF EngineInv, CallType, CallProgress, ConsumedIsFront
<1>4. Resting = All /\ Resting' = All'
  <2>1. ToSet(<<>>) = {}
    BY DEF ToSet
  <2>. QED
    BY <1>3, <2>1, RestingMembers, RestingMembersNext
<1>5. CASE Has(id)
  <2>1. All' = {o \in All : o.id # id} /\ (\E o \in All : o.id = id) /\ OwnSide'
    BY <1>1, <1>2, <1>5, EraseMembers
  <2>2. All' # All
    BY <2>1
  <2>3. result' = TRUE
    BY <1>1, <1>5
  <2>. QED
    BY <1>1, <1>3, <1>4, <2>1, <2>2, <2>3 DEF Engine!Cancel
<1>6. CASE ~Has(id)
  <2>1. containers' = containers
    BY <1>1, <1>2, <1>6, EraseAbsent
  <2>2. All' = All /\ OwnSide'
    BY <1>2, <2>1 DEF All, OwnSide
  <2>3. ASSUME NEW o \in All PROVE o.id # id
    <3>1. PICK s \in Side : \E k \in 1..Len(containers[s]) : containers[s][k] = o
      BY <1>2, Members
    <3>2. PICK k \in DOMAIN containers[s] : containers[s][k] = o
      BY <1>2, <3>1, ContainerFacts
    <3>3. Has(o.id)
      BY <1>2, <3>2 DEF BookShape, MapMatchesContainers, ContainersInMap
    <3>. QED
      BY <1>6, <3>3
  <2>4. result' = FALSE
    BY <1>1, <1>6
  <2>5. {o \in All : o.id # id} = All
    BY <2>3
  <2>. QED
    BY <1>1, <1>3, <1>4, <2>2, <2>4, <2>5 DEF Engine!Cancel
<1>. QED
  BY <1>5, <1>6

(* A passive that is used up leaves what rests at once, though it leaves    *)
(* its container only in the purge.                                         *)
LEMMA ConsumePassiveIsTrade ==
    ASSUME EngineInv, ConsumePassive
    PROVE  Engine!Progress /\ OwnSide'
<1> DEFINE p == Passive
<1>1. /\ AtPassive /\ Tradeable(order, Passive) /\ p.qty < order.qty
      /\ idsToRemove' = Append(idsToRemove, p.id)
      /\ order' = [order EXCEPT !.qty = @ - p.qty]
      /\ UNCHANGED <<containers, result>>
  BY DEF ConsumePassive
<1>2. /\ p \in All /\ p \in Resting /\ p \in Engine!Best
      /\ order \in Order /\ order.qty > 0 /\ p \in Order /\ p.qty > 0
      /\ ContainersType /\ BookShape
  BY <1>1, PassiveIsBest, BookInvParts DEF EngineInv
<1>3. ToSet(idsToRemove') = ToSet(idsToRemove) \cup {p.id}
  BY <1>1, <1>2, AtPassiveFacts, ToSetOfAppend, OrderFields DEF EngineInv
<1>4. All' = All /\ OwnSide'
  BY <1>1 DEF All, OwnSide, EngineInv
<1>5. Resting' = Resting \ {p}
  <2>1. \A o \in All : o.id = p.id => o = p
    BY <1>2, IdsAreKeys DEF IdsIdentify
  <2> HIDE DEF p
  <2>. QED
    BY <1>3, <1>4, <2>1, RestingMembers, RestingMembersNext
<1>6. order # NoOrder
  BY <1>2, OrderIsThere
<1>7. Engine!Trade(p)
  BY <1>1, <1>2, <1>5 DEF Engine!Trade
<1>. QED
  BY <1>2, <1>4, <1>6, <1>7 DEF Engine!Progress

LEMMA ConsumeAggressorIsTrade ==
    ASSUME EngineInv, ConsumeAggressor
    PROVE  Engine!Progress /\ OwnSide'
<1> DEFINE p == Passive
           s == OppSide(order.side)
           q == p.qty - order.qty
           r == [p EXCEPT !.qty = q]
<1>1. /\ AtPassive /\ Tradeable(order, Passive) /\ p.qty > order.qty
      /\ order' = [order EXCEPT !.qty = 0]
      /\ UNCHANGED <<orderIdsToSide, idsToRemove, result>>
  BY DEF ConsumeAggressor
<1>2. /\ p \in All /\ p \in Resting /\ p \in Engine!Best
      /\ order \in Order /\ order.qty > 0 /\ p \in Order /\ p.qty > 0
      /\ ContainersType /\ BookShape /\ OwnSide
  BY <1>1, PassiveIsBest, BookInvParts DEF EngineInv
<1>3. s \in Side /\ p = containers[s][i] /\ i \in 1..Len(containers[s])
  BY <1>1, <1>2, AtPassiveFacts, OppositeFacts DEF EngineInv, Opposite, Passive
<1>4. q \in 0..MaxQty /\ p.qty - order.qty = q
  <2>1. p.qty \in 0..MaxQty /\ order.qty \in 0..MaxQty
    BY <1>2, OrderFields
  <2>. QED
    BY <1>1, <2>1, QtyAssumption
<1>5. containers' = WithQty(s, i, q)
  BY <1>3 DEF ConsumeAggressor, WithQty, Opposite, Passive
<1>6. All' = (All \ {p}) \cup {r} /\ OwnSide'
  <2> HIDE DEF q, s
  <2>1. All' = (All \ {containers[s][i]}) \cup {[containers[s][i] EXCEPT !.qty = q]} /\ OwnSide'
    BY <1>1, <1>2, <1>3, <1>4, <1>5, EditMembers
  <2>. QED
    BY <1>3, <2>1
<1>7. Resting' = (Resting \ {p}) \cup {r}
  <2>1. r.id = p.id /\ p.id \notin ToSet(idsToRemove)
    BY <1>2, RestingMembers DEF Order
  <2> HIDE DEF p, r
  <2>. QED
    BY <1>1, <1>6, <2>1, RestingMembers, RestingMembersNext
<1>8. order # NoOrder
  BY <1>2, OrderIsThere
<1>9. Engine!Trade(p)
  <2>1. /\ ~(p.qty < order.qty) /\ p.qty # order.qty
        /\ order.qty - order.qty = 0
    BY <1>1, <1>2, OrderFields
  <2>2. order' = [order EXCEPT !.qty = order.qty - order.qty]
    BY <1>1, <2>1
  <2>. QED
    BY <1>1, <1>2, <1>7, <2>1, <2>2 DEF Engine!Trade
<1>. QED
  BY <1>2, <1>6, <1>8, <1>9 DEF Engine!Progress

LEMMA ConsumeBothIsTrade ==
    ASSUME EngineInv, ConsumeBoth
    PROVE  Engine!Progress /\ OwnSide'
<1> DEFINE p == Passive
           s == OppSide(order.side)
           r == [p EXCEPT !.qty = 0]
<1>1. /\ AtPassive /\ Tradeable(order, Passive) /\ p.qty = order.qty
      /\ order' = [order EXCEPT !.qty = 0]
      /\ idsToRemove' = Append(idsToRemove, p.id)
      /\ UNCHANGED <<orderIdsToSide, result>>
  BY DEF ConsumeBoth
<1>2. /\ p \in All /\ p \in Resting /\ p \in Engine!Best
      /\ order \in Order /\ order.qty > 0 /\ p \in Order /\ p.qty > 0
      /\ ContainersType /\ BookShape /\ OwnSide
  BY <1>1, PassiveIsBest, BookInvParts DEF EngineInv
<1>3. s \in Side /\ p = containers[s][i] /\ i \in 1..Len(containers[s])
  BY <1>1, <1>2, AtPassiveFacts, OppositeFacts DEF EngineInv, Opposite, Passive
<1>4. 0 \in 0..MaxQty
  BY QtyAssumption
<1>5. containers' = WithQty(s, i, 0)
  BY <1>3 DEF ConsumeBoth, WithQty, Opposite, Passive
<1>6. All' = (All \ {p}) \cup {r} /\ OwnSide'
  <2> HIDE DEF s
  <2>1. All' = (All \ {containers[s][i]}) \cup {[containers[s][i] EXCEPT !.qty = 0]} /\ OwnSide'
    BY <1>1, <1>2, <1>3, <1>4, <1>5, EditMembers
  <2>. QED
    BY <1>3, <2>1
<1>7. ToSet(idsToRemove') = ToSet(idsToRemove) \cup {p.id}
  BY <1>1, <1>2, AtPassiveFacts, ToSetOfAppend, OrderFields DEF EngineInv
<1>8. Resting' = Resting \ {p}
  <2>1. \A o \in All : o.id = p.id => o = p
    BY <1>2, IdsAreKeys DEF IdsIdentify
  <2>2. r.id = p.id
    BY <1>2 DEF Order
  <2> HIDE DEF p, r
  <2>. QED
    BY <1>6, <1>7, <2>1, <2>2, RestingMembers, RestingMembersNext
<1>9. order # NoOrder
  BY <1>2, OrderIsThere
<1>10. Engine!Trade(p)
  <2>1. /\ ~(p.qty < order.qty) /\ order.qty - order.qty = 0
    BY <1>1, <1>2, OrderFields
  <2>2. order' = [order EXCEPT !.qty = order.qty - order.qty]
    BY <1>1, <2>1
  <2>. QED
    BY <1>1, <1>2, <1>8, <2>1, <2>2 DEF Engine!Trade
<1>. QED
  BY <1>2, <1>6, <1>9, <1>10 DEF Engine!Progress

(* A purge removes what rested no longer. *)
LEMMA PurgeIsStutter ==
    ASSUME EngineInv, PurgeOne
    PROVE  UNCHANGED Engine!vars /\ OwnSide'
<1> DEFINE id == Head(idsToRemove)
<1>1. /\ pc = "purge" /\ idsToRemove # <<>> /\ Erase(id) /\ idsToRemove' = Tail(idsToRemove)
      /\ UNCHANGED <<order, result>>
  BY DEF PurgeOne
<1>2. /\ ContainersType /\ BookShape /\ OwnSide /\ idsToRemove \in Seq(OrderId)
      /\ order \in Order
  BY <1>1, BookInvParts DEF EngineInv, CallType
<1>3. Len(idsToRemove) >= 1 /\ id = idsToRemove[1]
  BY <1>1, <1>2
<1>4. Has(id)
  <2>1. Len(idsToRemove) <= Len(Opposite) /\ \A k \in 1..Len(idsToRemove) : idsToRemove[k] = Opposite[k].id
    BY <1>1, BookInvParts DEF EngineInv, CallProgress, ConsumedIsFront
  <2>2. /\ OppSide(order.side) \in Side /\ DOMAIN Opposite = 1..Len(Opposite) /\ Len(Opposite) \in Nat
        /\ Opposite = containers[OppSide(order.side)]
    BY <1>2, OppositeFacts DEF Opposite
  <2>3. 1 \in 1..Len(idsToRemove) /\ 1 \in 1..Len(Opposite)
    BY <1>2, <1>3, <2>1, <2>2
  <2>4. id = Opposite[1].id
    BY <1>3, <2>1, <2>3
  <2>. QED
    BY <1>2, <2>2, <2>3, <2>4 DEF BookShape, MapMatchesContainers, ContainersInMap
<1>5. All' = {o \in All : o.id # id} /\ OwnSide'
  <2> HIDE DEF id
  <2>. QED
    BY <1>1, <1>2, <1>4, EraseMembers
<1>6. ToSet(idsToRemove) = {id} \cup ToSet(idsToRemove')
  <2>1. /\ Tail(idsToRemove) \in Seq(OrderId) /\ Len(Tail(idsToRemove)) = Len(idsToRemove) - 1
        /\ \A k \in 1..(Len(idsToRemove) - 1) : Tail(idsToRemove)[k] = idsToRemove[k + 1]
        /\ Len(idsToRemove) \in Nat
    BY <1>1, <1>2
  <2>2. \A x : x \in ToSet(idsToRemove) <=> \E k \in 1..Len(idsToRemove) : idsToRemove[k] = x
    BY <1>2, ToSetOfSeq
  <2>3. \A x : x \in ToSet(Tail(idsToRemove)) <=>
                 \E k \in 1..(Len(idsToRemove) - 1) : idsToRemove[k + 1] = x
    <3>1. \A x : x \in ToSet(Tail(idsToRemove)) <=>
                   \E k \in 1..Len(Tail(idsToRemove)) : Tail(idsToRemove)[k] = x
      BY <2>1, ToSetOfSeq
    <3>. QED
      BY <2>1, <3>1
  <2>4. \A k \in 1..Len(idsToRemove) : k = 1 \/ (k - 1 \in 1..(Len(idsToRemove) - 1) /\ (k - 1) + 1 = k)
    BY <2>1
  <2>5. \A k \in 1..(Len(idsToRemove) - 1) : k + 1 \in 1..Len(idsToRemove)
    BY <2>1
  <2>6. 1 \in 1..Len(idsToRemove)
    BY <1>3, <2>1
  <2>7. \A x : x \in ToSet(idsToRemove) <=> x = id \/ x \in ToSet(Tail(idsToRemove))
    BY <1>3, <2>2, <2>3, <2>4, <2>5, <2>6
  <2>. QED
    BY <1>1, <2>7
<1>7. Resting' = Resting
  <2> HIDE DEF id
  <2>. QED
    BY <1>5, <1>6, RestingMembers, RestingMembersNext
<1>. QED
  BY <1>1, <1>5, <1>7 DEF Engine!vars

-----------------------------------------------------------------------------
(* The outcome of add. *)

(* MatchingEngine counts as everyone does. *)
LEMMA SameCardinality == \A S : Engine!Cardinality(S) = Cardinality(S)
BY DEF Engine!Cardinality, Cardinality

(* A side of the engine has as many orders as its vector. *)
LEMMA SideCount ==
    ASSUME ContainersType, BookShape, OwnSide, idsToRemove = <<>>, NEW s \in Side
    PROVE  Cardinality(Engine!OfSide(s)) = Len(containers[s])
<1> DEFINE c == containers[s]
           n == Len(containers[s])
           F == [k \in 1..n |-> c[k]]
           O == Engine!OfSide(s)
<1>1. n \in Nat /\ DOMAIN c = 1..n
  BY ContainerFacts
<1>2. O = {o \in All : o.side = s}
  BY RestingAll DEF Engine!OfSide
<1>3. \A k \in 1..n : c[k] \in O
  BY <1>2, Members DEF OwnSide
<1>4. \A j, k \in 1..n : c[j] = c[k] => j = k
  BY <1>1 DEF BookShape, MapMatchesContainers, UniqueIds
<1>5. \A o \in O : \E k \in 1..n : c[k] = o
  BY <1>2, MemberFacts
<1> HIDE DEF c, n, O
<1>6. F \in [1..n -> O] /\ \A k \in 1..n : F[k] = c[k]
  BY <1>3
<1>7. F \in Bijection(1..n, O)
  <2>1. \A j, k \in 1..n : F[j] = F[k] => j = k
    BY <1>4, <1>6
  <2>2. \A o \in O : \E k \in 1..n : F[k] = o
    BY <1>5, <1>6
  <2> HIDE DEF F
  <2>. QED
    BY <1>6, <2>1, <2>2, Fun_IsBij
<1>8. ExistsBijection(1..n, O)
  BY <1>7, Fun_ExistsBij
<1>9. Cardinality(O) = n
  BY <1>1, <1>8, FS_CountingElements
<1>. QED
  BY <1>9 DEF O, n

(* When add is done, nothing is left that its order could trade with. *)
LEMMA NothingCompatible ==
    ASSUME EngineInv, Matched, order.qty # 0
    PROVE  Engine!Compatible = {}
<1>1. /\ ContainersType /\ BookShape /\ OwnSide /\ order \in Order /\ idsToRemove = <<>>
      /\ \A j \in 1..Len(Opposite) : ~Tradeable(order, Opposite[j])
  BY MatchedFacts, BookInvParts DEF EngineInv
<1>2. SUFFICES ASSUME NEW p \in Engine!Compatible PROVE FALSE
  OBVIOUS
<1>3. p \in Resting /\ p.side # order.side /\ ~Engine!Better(p.price, order.price, order.side)
  BY <1>2 DEF Engine!Compatible
<1>4. p \in All
  BY <1>1, <1>3, RestingAll
<1>5. p \in Order /\ \E k \in 1..Len(containers[p.side]) : containers[p.side][k] = p
  BY <1>1, <1>4, MemberFacts
<1>6. p.side = OppSide(order.side)
  BY <1>1, <1>3, <1>5, OrderFields DEF OppSide, Side
<1>7. PICK k \in 1..Len(Opposite) : Opposite[k] = p
  BY <1>5, <1>6 DEF Opposite
<1>8. IsMoreCons(order.price, p.price, order.side)
  BY <1>1, <1>7 DEF Tradeable
<1>9. order.price \in Int /\ p.price \in Int
  BY <1>1, <1>5, OrderFields
<1>. QED
  BY <1>3, <1>8, <1>9 DEF IsMoreCons, Engine!Better

LEMMA FinishIsDrop ==
    ASSUME EngineInv, FinishWithoutInsert
    PROVE  Engine!Progress /\ OwnSide'
<1>1. /\ Matched /\ (order.qty = 0 \/ Has(order.id) \/ IsFull(order.side))
      /\ order' = NoOrder /\ result' = FALSE /\ UNCHANGED <<containers, idsToRemove>>
  BY DEF FinishWithoutInsert, Return
<1>2. /\ ContainersType /\ BookShape /\ OwnSide /\ order \in Order /\ idsToRemove = <<>>
  BY <1>1, MatchedFacts, BookInvParts DEF EngineInv
<1>3. Resting' = Resting /\ OwnSide'
  BY <1>1, <1>2, RestingFrame DEF OwnSide
<1>4. ASSUME order.qty # 0, Has(order.id) PROVE \E p \in Resting : p.id = order.id
  <2>1. \E k \in DOMAIN containers[orderIdsToSide[order.id]] :
            containers[orderIdsToSide[order.id]][k].id = order.id
    BY <1>2, <1>4 DEF BookShape, MapMatchesContainers, MapInContainers, Has
  <2>2. orderIdsToSide[order.id] \in Side
    BY <1>2, <1>4 DEF ContainersType, Has
  <2>3. \E p \in All : p.id = order.id
    BY <1>2, <2>1, <2>2, Members, ContainerFacts
  <2>. QED
    BY <1>2, <2>3, RestingAll
<1>5. ASSUME order.qty # 0, IsFull(order.side)
      PROVE  Cardinality(Engine!OfSide(order.side)) >= SIZE
  <2>1. order.side \in Side
    BY <1>2, OrderFields
  <2>2. Cardinality(Engine!OfSide(order.side)) = SIZE
    BY <1>2, <1>5, <2>1, SideCount DEF IsFull
  <2>. QED
    BY <2>2, SizeAssumption
<1>6. order.qty # 0 => Engine!Compatible = {}
  BY <1>1, NothingCompatible
<1>7. Engine!Drop
  BY <1>1, <1>3, <1>4, <1>5, <1>6, SameCardinality DEF Engine!Drop
<1>8. order # NoOrder
  BY <1>2, OrderIsThere
<1>. QED
  BY <1>3, <1>7, <1>8 DEF Engine!Progress

LEMMA InsertIsRest ==
    ASSUME EngineInv, Insert
    PROVE  Engine!Progress /\ OwnSide'
<1>1. /\ Matched /\ order.qty > 0 /\ ~Has(order.id) /\ ~IsFull(order.side)
      /\ order' = NoOrder /\ result' = TRUE /\ UNCHANGED idsToRemove
  BY DEF Insert, Return
<1>2. /\ ContainersType /\ BookShape /\ OwnSide /\ order \in Order /\ idsToRemove = <<>>
  BY <1>1, MatchedFacts, BookInvParts DEF EngineInv
<1>3. All' = All \cup {order} /\ OwnSide'
  BY InsertMembers DEF EngineInv
<1>4. Resting = All /\ Resting' = All'
  <2>1. ToSet(<<>>) = {}
    BY DEF ToSet
  <2>. QED
    BY <1>1, <1>2, <2>1, RestingMembers, RestingMembersNext
<1>5. Engine!Compatible = {}
  <2>1. order.qty # 0
    BY <1>1
  <2>. QED
    BY <1>1, <2>1, NothingCompatible
<1>6. ASSUME NEW p \in Resting PROVE p.id # order.id
  <2>1. PICK s \in Side : \E k \in 1..Len(containers[s]) : containers[s][k] = p
    BY <1>2, <1>4, Members
  <2>2. PICK k \in DOMAIN containers[s] : containers[s][k] = p
    BY <1>2, <2>1, ContainerFacts
  <2>3. Has(p.id)
    BY <1>2, <2>2 DEF BookShape, MapMatchesContainers, ContainersInMap
  <2>. QED
    BY <1>1, <2>3
<1>7. Cardinality(Engine!OfSide(order.side)) < SIZE
  <2>1. order.side \in Side
    BY <1>2, OrderFields
  <2>2. Cardinality(Engine!OfSide(order.side)) = Len(containers[order.side])
    BY <1>2, <2>1, SideCount
  <2>3. Len(containers[order.side]) <= SIZE /\ Len(containers[order.side]) # SIZE
    BY <1>1, <1>2, <2>1 DEF BookShape, WithinArena, IsFull
  <2>4. Len(containers[order.side]) \in Nat
    BY <1>2, <2>1, ContainerFacts
  <2>. QED
    BY <2>2, <2>3, <2>4, SizeAssumption
<1>8. Engine!Rest
  BY <1>1, <1>3, <1>4, <1>5, <1>6, <1>7, SameCardinality DEF Engine!Rest
<1>9. order # NoOrder
  BY <1>2, OrderIsThere
<1>. QED
  BY <1>3, <1>8, <1>9 DEF Engine!Progress

-----------------------------------------------------------------------------
LEMMA InitIsEngineInit ==
    ASSUME Init
    PROVE  Engine!Init /\ EngineInv
<1>1. /\ containers = [s \in Side |-> <<>>] /\ order = NoOrder /\ result = FALSE
      /\ idsToRemove = <<>>
  BY DEF Init
<1>2. containers["Bid"] = <<>> /\ containers["Ask"] = <<>>
  BY <1>1 DEF Side
<1>3. Resting = {}
  BY <1>2 DEF Resting, ToSet
<1>4. OwnSide
  BY <1>1 DEF OwnSide
<1>. QED
  BY <1>1, <1>3, <1>4, InitEstablishesInv DEF EngineInv, Engine!Init

LEMMA StepIsEngineStep ==
    ASSUME EngineInv, [Next]_bookVars
    PROVE  [Engine!Next]_Engine!vars /\ EngineInv'
<1>1. BookInv /\ BookInv'
  BY NextKeepsInv DEF EngineInv
<1>2. ASSUME UNCHANGED <<containers, order, idsToRemove, result>>
      PROVE  UNCHANGED Engine!vars /\ OwnSide'
  BY <1>2, RestingFrame DEF EngineInv, OwnSide, Engine!vars
<1>3. ASSUME NEW o \in AnyOrder, RejectInvalid(o) \/ StartMatch(o)
      PROVE  Engine!Next /\ OwnSide'
  <2>1. CASE RejectInvalid(o)
    BY <1>1, <2>1, RejectIsReject DEF RejectInvalid, EngineInv, OwnSide, Engine!Next
  <2>2. CASE StartMatch(o)
    BY <1>1, <2>2, StartIsSubmit DEF StartMatch, EngineInv, OwnSide, Engine!Next
  <2>. QED
    BY <1>3, <2>1, <2>2
<1>4. ASSUME NEW id \in OrderId, RemoveOrder(id) PROVE Engine!Next /\ OwnSide'
  BY <1>4, RemoveIsCancel DEF Engine!Next
<1>5. CASE SkipPassive \/ EndMatch
  BY <1>1, <1>2, <1>5 DEF SkipPassive, EndMatch, EngineInv
<1>6. CASE ConsumePassive \/ ConsumeAggressor \/ ConsumeBoth
  BY <1>1, <1>6, ConsumePassiveIsTrade, ConsumeAggressorIsTrade, ConsumeBothIsTrade
     DEF EngineInv, Engine!Next
<1>7. CASE PurgeOne
  BY <1>1, <1>7, PurgeIsStutter DEF EngineInv
<1>8. CASE FinishWithoutInsert \/ Insert
  BY <1>1, <1>8, FinishIsDrop, InsertIsRest DEF EngineInv, Engine!Next
<1>9. CASE UNCHANGED bookVars
  BY <1>1, <1>2, <1>9 DEF bookVars, EngineInv
<1>10. [Engine!Next]_Engine!vars /\ OwnSide'
  BY <1>3, <1>4, <1>5, <1>6, <1>7, <1>8, <1>9 DEF Next, CallStep, MatchStep, EngineInv
<1>. QED
  BY <1>1, <1>10 DEF EngineInv

(* The vectors, the map and the three loops of add and remove do what a     *)
(* matching engine does, in every step: each trade is with a best           *)
(* compatible order and takes the same from both, an order comes to rest    *)
(* only when nothing compatible is left, and the answer says whether it did.*)
THEOREM BookIsAnEngine == Spec => EngineSteps
<1>1. Init => Engine!Init /\ EngineInv
  BY InitIsEngineInit
<1>2. EngineInv /\ [Next]_bookVars => EngineInv'
  BY StepIsEngineStep
<1>3. EngineInv /\ [Next]_bookVars => [Engine!Next]_Engine!vars
  BY StepIsEngineStep
<1>. QED
  BY <1>1, <1>2, <1>3, PTL DEF Spec, EngineSteps
=============================================================================
