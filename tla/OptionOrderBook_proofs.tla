----------------------- MODULE OptionOrderBook_proofs -----------------------
(***************************************************************************)
(* The order book keeps BookInv, for every capacity, set of ids, set of    *)
(* prices and largest quantity.                                            *)
(***************************************************************************)
EXTENDS OptionOrderBook, SequenceLemmas

(* What the containers and the map promise together. *)
BookShape == MapMatchesContainers /\ PriceSorted /\ Uncrossed /\ WithinArena

ContainersType ==
    /\ containers \in [Side -> Seq(Order)]
    /\ DOMAIN orderIdsToSide \subseteq OrderId
    /\ orderIdsToSide \in [DOMAIN orderIdsToSide -> Side]

(* Positions of a container are 1..Len and hold orders. *)
LEMMA ContainerFacts ==
    ASSUME ContainersType, NEW s \in Side
    PROVE  /\ containers[s] \in Seq(Order)
           /\ Len(containers[s]) \in Nat
           /\ DOMAIN containers[s] = 1..Len(containers[s])
           /\ \A k \in 1..Len(containers[s]) : containers[s][k] \in Order
BY LenProperties, ElementOfSeq DEF ContainersType

(* An order's fields. *)
LEMMA OrderFields ==
    ASSUME NEW o \in Order
    PROVE  /\ o.id \in OrderId /\ o.side \in Side /\ o.price \in Price
           /\ o.price \in Int /\ o.qty \in 0..MaxQty /\ o.qty \in Nat
<1>1. o.id \in OrderId /\ o.side \in Side /\ o.price \in Price /\ o.qty \in 0..MaxQty
  BY DEF Order
<1>2. Price \subseteq Int
  BY PriceAssumption
<1>3. 0..MaxQty \subseteq Nat
  BY QtyAssumption
<1>. QED
  BY <1>1, <1>2, <1>3

-----------------------------------------------------------------------------
(* What remove does to a book of the right shape: the order found is the    *)
(* one with the id, and it alone leaves the container and the map.          *)
LEMMA EraseEffect ==
    ASSUME ContainersType, BookShape, NEW id, Has(id), Erase(id)
    PROVE  \E k \in 1..Len(containers[orderIdsToSide[id]]) :
             LET s == orderIdsToSide[id]
             IN  /\ s \in Side
                 /\ containers[s][k].id = id
                 /\ k = FindId(containers[s], id)
                 /\ containers' \in [Side -> Seq(Order)]
                 /\ containers'[s] = RemoveAt(containers[s], k)
                 /\ Len(containers'[s]) = Len(containers[s]) - 1
                 /\ \A j \in 1..(Len(containers[s]) - 1) :
                        containers'[s][j] = IF j < k THEN containers[s][j] ELSE containers[s][j + 1]
                 /\ \A t \in Side \ {s} : containers'[t] = containers[t]
                 /\ DOMAIN orderIdsToSide' = DOMAIN orderIdsToSide \ {id}
                 /\ \A x \in DOMAIN orderIdsToSide \ {id} : orderIdsToSide'[x] = orderIdsToSide[x]
<1> DEFINE s == orderIdsToSide[id]
<1>1. s \in Side
  BY DEF ContainersType, Has
<1> HIDE DEF s
<1>2. /\ containers[s] \in Seq(Order) /\ Len(containers[s]) \in Nat
      /\ DOMAIN containers[s] = 1..Len(containers[s])
  BY <1>1, ContainerFacts
<1>3. PICK k \in 1..Len(containers[s]) : containers[s][k].id = id
  BY <1>2 DEF s, BookShape, MapMatchesContainers, MapInContainers, Has
<1>4. {j \in DOMAIN containers[s] : containers[s][j].id = id} = {k}
  BY <1>1, <1>2, <1>3 DEF BookShape, MapMatchesContainers, UniqueIds
<1>5. FindId(containers[s], id) = k
  <2>1. {k, Len(containers[s]) + 1} \in SUBSET Nat /\ {k, Len(containers[s]) + 1} # {}
    BY <1>2
  <2>2. FindId(containers[s], id) = Min({k, Len(containers[s]) + 1})
    <3>1. {k} \cup {Len(containers[s]) + 1} = {k, Len(containers[s]) + 1}
      OBVIOUS
    <3>. QED
      BY <1>4, <3>1 DEF FindId
  <2>3. /\ Min({k, Len(containers[s]) + 1}) \in {k, Len(containers[s]) + 1}
        /\ \A y \in {k, Len(containers[s]) + 1} : Min({k, Len(containers[s]) + 1}) <= y
    BY <2>1, MinOfNats
  <2>. QED
    BY <1>2, <2>2, <2>3
<1>6. /\ RemoveAt(containers[s], k) \in Seq(Order)
      /\ Len(RemoveAt(containers[s], k)) = Len(containers[s]) - 1
      /\ \A j \in 1..(Len(containers[s]) - 1) :
            RemoveAt(containers[s], k)[j] = IF j < k THEN containers[s][j] ELSE containers[s][j + 1]
  BY <1>2, RemoveAtProperties
<1>7. containers' = [containers EXCEPT ![s] = RemoveAt(containers[s], k)]
  BY <1>5 DEF Erase, s
<1>8. /\ containers' \in [Side -> Seq(Order)]
      /\ containers'[s] = RemoveAt(containers[s], k)
      /\ \A t \in Side \ {s} : containers'[t] = containers[t]
  BY <1>1, <1>6, <1>7 DEF ContainersType
<1>9. /\ DOMAIN orderIdsToSide' = DOMAIN orderIdsToSide \ {id}
      /\ \A x \in DOMAIN orderIdsToSide \ {id} : orderIdsToSide'[x] = orderIdsToSide[x]
  BY DEF Erase, Restrict
<1>10. containers'[s] = RemoveAt(containers[s], k)
       /\ Len(containers'[s]) = Len(containers[s]) - 1
       /\ \A j \in 1..(Len(containers[s]) - 1) :
            containers'[s][j] = IF j < k THEN containers[s][j] ELSE containers[s][j + 1]
  BY <1>6, <1>8
<1>. QED
  BY <1>1, <1>3, <1>5, <1>8, <1>9, <1>10 DEF s

(* Removing an order keeps the shape of the book. *)
LEMMA EraseKeepsShape ==
    ASSUME ContainersType, BookShape, NEW id, Has(id), Erase(id)
    PROVE  ContainersType' /\ BookShape'
<1> DEFINE s == orderIdsToSide[id]
           c == containers
           d == containers'
<1>1. PICK k \in 1..Len(c[s]) :
        /\ s \in Side
        /\ c[s][k].id = id
        /\ d \in [Side -> Seq(Order)]
        /\ Len(d[s]) = Len(c[s]) - 1
        /\ \A j \in 1..(Len(c[s]) - 1) : d[s][j] = IF j < k THEN c[s][j] ELSE c[s][j + 1]
        /\ \A t \in Side \ {s} : d[t] = c[t]
        /\ DOMAIN orderIdsToSide' = DOMAIN orderIdsToSide \ {id}
        /\ \A x \in DOMAIN orderIdsToSide \ {id} : orderIdsToSide'[x] = orderIdsToSide[x]
  BY EraseEffect
<1> HIDE DEF s
<1>2. \A t \in Side : /\ c[t] \in Seq(Order) /\ Len(c[t]) \in Nat /\ DOMAIN c[t] = 1..Len(c[t])
                       /\ d[t] \in Seq(Order) /\ Len(d[t]) \in Nat /\ DOMAIN d[t] = 1..Len(d[t])
                       /\ \A j \in 1..Len(c[t]) : c[t][j] \in Order
  <2>1. \A t \in Side : d[t] \in Seq(Order)
    BY <1>1
  <2>. QED
    BY <2>1, ContainerFacts, LenProperties
(* Where the order at a position of d was in c. *)
<1> DEFINE was(t, j) == IF t = s /\ j >= k THEN j + 1 ELSE j
<1>3. \A t \in Side : \A j \in 1..Len(d[t]) :
        was(t, j) \in 1..Len(c[t]) /\ d[t][j] = c[t][was(t, j)]
  <2>1. ASSUME NEW t \in Side, NEW j \in 1..Len(d[t])
        PROVE  was(t, j) \in 1..Len(c[t]) /\ d[t][j] = c[t][was(t, j)]
    <3>1. CASE t = s
      BY <1>1, <1>2, <2>1, <3>1
    <3>2. CASE t # s
      BY <1>1, <1>2, <2>1, <3>2
    <3>. QED
      BY <3>1, <3>2
  <2>. QED
    BY <2>1
<1>4. \A t \in Side : \A j, m \in 1..Len(d[t]) : j < m => was(t, j) < was(t, m)
  BY <1>1, <1>2
<1>5. \A t \in Side : \A j \in 1..Len(d[t]) : t = s => was(t, j) # k
  BY <1>1, <1>2
<1>6. \A t \in Side : \A m \in 1..Len(c[t]) :
        c[t][m].id # id => \E j \in 1..Len(d[t]) : d[t][j] = c[t][m]
  <2>1. ASSUME NEW t \in Side, NEW m \in 1..Len(c[t]), c[t][m].id # id
        PROVE  \E j \in 1..Len(d[t]) : d[t][j] = c[t][m]
    <3>1. CASE t # s
      BY <1>1, <2>1, <3>1
    <3>2. CASE t = s /\ m < k
      <4>1. m \in 1..Len(d[t]) /\ d[t][m] = c[t][m]
        BY <1>1, <1>2, <2>1, <3>2
      <4>. QED
        BY <4>1
    <3>3. CASE t = s /\ m > k
      <4>1. m - 1 \in 1..Len(d[t]) /\ ~(m - 1 < k) /\ (m - 1) + 1 = m
        BY <1>1, <1>2, <2>1, <3>3
      <4>2. d[t][m - 1] = c[t][m]
        BY <1>1, <3>3, <4>1
      <4>. QED
        BY <4>1, <4>2
    <3>4. m # k \/ t # s
      BY <1>1, <2>1
    <3>5. m \in Int /\ k \in Int
      BY <1>2, <2>1
    <3>. QED
      BY <3>1, <3>2, <3>3, <3>4, <3>5
  <2>. QED
    BY <2>1
<1> HIDE DEF was
<1>7. UniqueIds'
  <2>1. ASSUME NEW t \in Side, NEW j \in 1..Len(d[t]), NEW m \in 1..Len(d[t]), d[t][j].id = d[t][m].id
        PROVE  j = m
    <3>1. was(t, j) = was(t, m)
      <4>1. /\ was(t, j) \in DOMAIN c[t] /\ was(t, m) \in DOMAIN c[t]
            /\ c[t][was(t, j)].id = c[t][was(t, m)].id
        BY <1>2, <1>3, <2>1
      <4>. QED
        BY <4>1 DEF BookShape, MapMatchesContainers, UniqueIds
    <3>2. was(t, j) \in Int /\ j \in Int /\ m \in Int
      BY <1>2, <1>3, <2>1
    <3>. QED
      BY <1>4, <3>1, <3>2
  <2>2. \A t \in Side : DOMAIN d[t] = 1..Len(d[t])
    BY <1>2
  <2>. QED
    BY <2>1, <2>2 DEF UniqueIds
<1>8. ASSUME NEW t \in Side, NEW j \in 1..Len(d[t])
      PROVE  d[t][j].id \in DOMAIN orderIdsToSide' /\ orderIdsToSide'[d[t][j].id] = t
  <2>1. /\ c[t][was(t, j)].id \in DOMAIN orderIdsToSide
        /\ orderIdsToSide[c[t][was(t, j)].id] = t
    <3>1. was(t, j) \in DOMAIN c[t]
      BY <1>2, <1>3, <1>8
    <3>. QED
      BY <3>1 DEF BookShape, MapMatchesContainers, ContainersInMap, Has
  <2>2. c[t][was(t, j)].id # id
    <3>1. SUFFICES ASSUME c[t][was(t, j)].id = id PROVE FALSE
      OBVIOUS
    <3>2. t = s
      BY <2>1, <3>1 DEF s
    <3>3. was(t, j) = k
      BY <1>1, <1>2, <1>3, <1>8, <3>1, <3>2 DEF BookShape, MapMatchesContainers, UniqueIds
    <3>. QED
      BY <1>5, <1>8, <3>2, <3>3
  <2>. QED
    BY <1>1, <1>3, <1>8, <2>1, <2>2
<1>9. ContainersInMap'
  BY <1>2, <1>8 DEF ContainersInMap, Has
<1>10. MapInContainers'
  <2>1. ASSUME NEW x \in DOMAIN orderIdsToSide'
        PROVE  \E j \in 1..Len(d[orderIdsToSide'[x]]) : d[orderIdsToSide'[x]][j].id = x
    <3>1. x \in DOMAIN orderIdsToSide /\ x # id /\ orderIdsToSide'[x] = orderIdsToSide[x]
      BY <1>1, <2>1
    <3>2. orderIdsToSide[x] \in Side
      BY <3>1 DEF ContainersType
    <3>3. PICK m \in 1..Len(c[orderIdsToSide[x]]) : c[orderIdsToSide[x]][m].id = x
      BY <1>2, <3>1, <3>2 DEF BookShape, MapMatchesContainers, MapInContainers
    <3>. QED
      BY <1>6, <3>1, <3>2, <3>3
  <2>2. \A x \in DOMAIN orderIdsToSide' : orderIdsToSide'[x] \in Side
    BY <1>1 DEF ContainersType
  <2>. QED
    BY <1>2, <2>1, <2>2 DEF MapInContainers
<1>11. PriceSorted'
  <2>1. ASSUME NEW t \in Side, NEW j \in 1..Len(d[t]), NEW m \in 1..Len(d[t]), j < m
        PROVE  ~IsMoreCons(d[t][j].price, d[t][m].price, t)
    <3>1. /\ was(t, j) \in DOMAIN c[t] /\ d[t][j] = c[t][was(t, j)]
          /\ was(t, m) \in DOMAIN c[t] /\ d[t][m] = c[t][was(t, m)]
      BY <1>2, <1>3, <2>1
    <3>2. was(t, j) < was(t, m)
      BY <1>4, <2>1
    <3>. QED
      BY <3>1, <3>2 DEF BookShape, PriceSorted
  <2>. QED
    BY <1>2, <2>1 DEF PriceSorted
<1>12. Uncrossed'
  <2>1. "Bid" \in Side /\ "Ask" \in Side
    BY DEF Side
  <2>2. ASSUME NEW b \in 1..Len(d["Bid"]), NEW a \in 1..Len(d["Ask"])
        PROVE  d["Bid"][b].price < d["Ask"][a].price
    <3>1. /\ was("Bid", b) \in DOMAIN c["Bid"] /\ d["Bid"][b] = c["Bid"][was("Bid", b)]
          /\ was("Ask", a) \in DOMAIN c["Ask"] /\ d["Ask"][a] = c["Ask"][was("Ask", a)]
      BY <1>2, <1>3, <2>1, <2>2
    <3>. QED
      BY <3>1 DEF BookShape, Uncrossed
  <2>. QED
    BY <1>2, <2>1, <2>2 DEF Uncrossed
<1>13. WithinArena'
  <2>1. ASSUME NEW t \in Side PROVE Len(d[t]) <= Len(c[t]) /\ Len(d[t]) \in Int /\ Len(c[t]) \in Int
    <3>1. Len(d[t]) \in Nat /\ Len(c[t]) \in Nat
      BY <1>2
    <3>2. Len(d[t]) = Len(c[t]) - 1 \/ d[t] = c[t]
      BY <1>1
    <3>. QED
      BY <3>1, <3>2
  <2>2. \A t \in Side : Len(c[t]) <= SIZE
    BY DEF BookShape, WithinArena
  <2>. QED
    BY <2>1, <2>2, SizeAssumption DEF WithinArena
<1>14. ContainersType'
  <2>1. DOMAIN orderIdsToSide' \subseteq OrderId
    BY <1>1 DEF ContainersType
  <2>2. orderIdsToSide' \in [DOMAIN orderIdsToSide' -> Side]
    <3>1. orderIdsToSide' = [x \in DOMAIN orderIdsToSide \ {id} |-> orderIdsToSide[x]]
      BY DEF Erase, Restrict
    <3>2. \A x \in DOMAIN orderIdsToSide \ {id} : orderIdsToSide[x] \in Side
      BY DEF ContainersType
    <3>. QED
      BY <3>1, <3>2
  <2>. QED
    BY <1>1, <2>1, <2>2 DEF ContainersType
<1>. QED
  BY <1>7, <1>9, <1>10, <1>11, <1>12, <1>13, <1>14 DEF BookShape, MapMatchesContainers

-----------------------------------------------------------------------------
(* The parts of BookInv: the book, and the running call.                    *)
CallType ==
    /\ pc \in {"idle", "match", "purge"}
    /\ IF pc = "idle" THEN order = NoOrder ELSE order \in Order
    /\ i \in Nat \ {0}
    /\ idsToRemove \in Seq(OrderId)
    /\ result \in BOOLEAN

LEMMA BookInvParts ==
    /\ BookInv <=> ContainersType /\ CallType /\ BookShape /\ CallProgress
    /\ BookInv' <=> ContainersType' /\ CallType' /\ BookShape' /\ CallProgress'
<1>1. BookInv <=> ContainersType /\ CallType /\ BookShape /\ CallProgress
  BY DEF BookInv, TypeOK, ContainersType, CallType, BookShape
<1>2. BookInv' <=> ContainersType' /\ CallType' /\ BookShape' /\ CallProgress'
  BY DEF BookInv, TypeOK, ContainersType, CallType, BookShape
<1>. QED
  BY <1>1, <1>2

LEMMA BookFrame ==
    ASSUME ContainersType, BookShape, UNCHANGED <<containers, orderIdsToSide>>
    PROVE  ContainersType' /\ BookShape'
BY DEF ContainersType, BookShape, MapMatchesContainers, UniqueIds, ContainersInMap,
       MapInContainers, PriceSorted, Uncrossed, WithinArena, Has

LEMMA OppositeFacts ==
    ASSUME ContainersType, order \in Order
    PROVE  /\ OppSide(order.side) \in Side /\ OppSide(order.side) # order.side
           /\ Opposite \in Seq(Order) /\ Len(Opposite) \in Nat
           /\ DOMAIN Opposite = 1..Len(Opposite)
           /\ \A k \in 1..Len(Opposite) : Opposite[k] \in Order
<1>1. OppSide(order.side) \in Side /\ OppSide(order.side) # order.side
  BY OrderFields DEF OppSide, Side
<1>. QED
  BY <1>1, ContainerFacts DEF Opposite

(* The containers with the quantity of one order changed.                   *)
WithQty(s, k, q) == [containers EXCEPT ![s][k].qty = q]

(* Changing the quantity of one resting order leaves the book's shape.      *)
LEMMA QtyEdit ==
    ASSUME ContainersType, BookShape,
           NEW s \in Side, NEW k \in 1..Len(containers[s]), NEW q \in 0..MaxQty,
           containers' = WithQty(s, k, q),
           orderIdsToSide' = orderIdsToSide
    PROVE  /\ ContainersType' /\ BookShape'
           /\ \A t \in Side : Len(containers'[t]) = Len(containers[t])
           /\ \A t \in Side : \A j \in 1..Len(containers[t]) :
                /\ containers'[t][j].id = containers[t][j].id
                /\ containers'[t][j].price = containers[t][j].price
                /\ containers'[t][j].qty = IF t = s /\ j = k THEN q ELSE containers[t][j].qty
<1> DEFINE c == containers
           d == containers'
<1>1. \A t \in Side : /\ c[t] \in Seq(Order) /\ Len(c[t]) \in Nat /\ DOMAIN c[t] = 1..Len(c[t])
                       /\ \A j \in 1..Len(c[t]) : c[t][j] \in Order
  BY ContainerFacts
<1>2. d = [c EXCEPT ![s] = [c[s] EXCEPT ![k] = [c[s][k] EXCEPT !.qty = q]]]
  BY DEF WithQty
<1>3. [c[s][k] EXCEPT !.qty = q] \in Order
  BY <1>1 DEF Order
<1>4. [c[s] EXCEPT ![k] = [c[s][k] EXCEPT !.qty = q]] \in Seq(Order)
  BY <1>1, <1>3, ExceptSeq
<1>5. d \in [Side -> Seq(Order)]
  BY <1>2, <1>4 DEF ContainersType
<1>6. \A t \in Side : Len(d[t]) = Len(c[t]) /\ DOMAIN d[t] = 1..Len(c[t])
  <2>1. d[s] = [c[s] EXCEPT ![k] = [c[s][k] EXCEPT !.qty = q]] /\ \A t \in Side \ {s} : d[t] = c[t]
    BY <1>2 DEF ContainersType
  <2>2. DOMAIN d[s] = DOMAIN c[s]
    BY <2>1
  <2>3. Len(d[s]) = Len(c[s])
    BY <1>1, <1>5, <2>2, LenProperties
  <2>. QED
    BY <1>1, <2>1, <2>2, <2>3
<1>7. \A t \in Side : \A j \in 1..Len(c[t]) :
        /\ d[t][j].id = c[t][j].id
        /\ d[t][j].price = c[t][j].price
        /\ d[t][j].qty = IF t = s /\ j = k THEN q ELSE c[t][j].qty
  <2>1. ASSUME NEW t \in Side, NEW j \in 1..Len(c[t])
        PROVE  /\ d[t][j].id = c[t][j].id
               /\ d[t][j].price = c[t][j].price
               /\ d[t][j].qty = IF t = s /\ j = k THEN q ELSE c[t][j].qty
    <3>1. c[t][j] \in Order
      BY <1>1, <2>1
    <3>2. d[t][j] = IF t = s /\ j = k THEN [c[s][k] EXCEPT !.qty = q] ELSE c[t][j]
      BY <1>1, <1>2, <2>1 DEF ContainersType
    <3>. QED
      BY <3>1, <3>2 DEF Order
  <2>. QED
    BY <2>1
<1>8. ContainersType'
  BY <1>5 DEF ContainersType
<1> HIDE DEF c, d
<1>9. UniqueIds' /\ ContainersInMap' /\ PriceSorted' /\ WithinArena'
  <2>1. UniqueIds'
    <3>1. ASSUME NEW t \in Side, NEW j \in DOMAIN d[t], NEW m \in DOMAIN d[t], d[t][j].id = d[t][m].id
          PROVE  j = m
      <4>1. j \in DOMAIN c[t] /\ m \in DOMAIN c[t]
        BY <1>1, <1>6, <3>1
      <4>2. c[t][j].id = c[t][m].id
        BY <1>6, <1>7, <3>1
      <4>. QED
        BY <4>1, <4>2 DEF BookShape, MapMatchesContainers, UniqueIds, c
    <3>. QED
      BY <3>1 DEF UniqueIds, d
  <2>2. ContainersInMap'
    <3>1. \A t \in Side : \A j \in 1..Len(c[t]) :
            c[t][j].id \in DOMAIN orderIdsToSide /\ orderIdsToSide[c[t][j].id] = t
      BY <1>1 DEF BookShape, MapMatchesContainers, ContainersInMap, Has, c
    <3>2. ASSUME NEW t \in Side, NEW j \in DOMAIN d[t]
          PROVE  d[t][j].id \in DOMAIN orderIdsToSide /\ orderIdsToSide[d[t][j].id] = t
      <4>1. j \in 1..Len(c[t])
        BY <1>6, <3>2
      <4>2. d[t][j].id = c[t][j].id
        BY <1>7, <4>1
      <4>. QED
        BY <3>1, <4>1, <4>2
    <3>. QED
      BY <3>2 DEF ContainersInMap, Has, d
  <2>3. PriceSorted'
    <3>1. ASSUME NEW t \in Side, NEW j \in DOMAIN d[t], NEW m \in DOMAIN d[t], j < m
          PROVE  ~IsMoreCons(d[t][j].price, d[t][m].price, t)
      <4>1. ~IsMoreCons(c[t][j].price, c[t][m].price, t)
        BY <1>1, <1>6, <3>1 DEF BookShape, PriceSorted, c
      <4>2. d[t][j].price = c[t][j].price /\ d[t][m].price = c[t][m].price
        BY <1>6, <1>7, <3>1
      <4>. QED
        BY <4>1, <4>2
    <3>. QED
      BY <3>1 DEF PriceSorted, d
  <2>4. WithinArena'
    BY <1>1, <1>6 DEF BookShape, WithinArena, c, d
  <2>. QED
    BY <2>1, <2>2, <2>3, <2>4
<1>10. MapInContainers'
  <2>1. ASSUME NEW x \in DOMAIN orderIdsToSide
        PROVE  \E j \in DOMAIN d[orderIdsToSide[x]] : d[orderIdsToSide[x]][j].id = x
    <3>1. orderIdsToSide[x] \in Side
      BY DEF ContainersType
    <3>2. PICK j \in DOMAIN c[orderIdsToSide[x]] : c[orderIdsToSide[x]][j].id = x
      BY DEF BookShape, MapMatchesContainers, MapInContainers, c
    <3>. QED
      BY <1>1, <1>6, <1>7, <3>1, <3>2
  <2>. QED
    BY <2>1 DEF MapInContainers, d
<1>11. Uncrossed'
  <2>1. "Bid" \in Side /\ "Ask" \in Side
    BY DEF Side
  <2>2. \A b \in 1..Len(c["Bid"]), a \in 1..Len(c["Ask"]) : c["Bid"][b].price < c["Ask"][a].price
    BY <1>1, <2>1 DEF BookShape, Uncrossed, c
  <2>3. ASSUME NEW b \in DOMAIN d["Bid"], NEW a \in DOMAIN d["Ask"]
        PROVE  d["Bid"][b].price < d["Ask"][a].price
    <3>1. b \in 1..Len(c["Bid"]) /\ a \in 1..Len(c["Ask"])
      BY <1>6, <2>1, <2>3
    <3>2. d["Bid"][b].price = c["Bid"][b].price /\ d["Ask"][a].price = c["Ask"][a].price
      BY <1>7, <2>1, <3>1
    <3>. QED
      BY <2>2, <3>1, <3>2
  <2>. QED
    BY <2>3 DEF Uncrossed, d
<1>. QED
  BY <1>6, <1>7, <1>8, <1>9, <1>10, <1>11 DEF BookShape, MapMatchesContainers, c, d

-----------------------------------------------------------------------------
(* One lemma per action: the action keeps BookInv.                          *)
LEMMA RejectInvalidKeepsInv ==
    ASSUME BookInv, NEW o, RejectInvalid(o)
    PROVE  BookInv'
<1>1. ContainersType' /\ BookShape'
  BY BookInvParts, BookFrame DEF RejectInvalid
<1>2. CallType' /\ CallProgress'
  BY BookInvParts DEF RejectInvalid, CallType, CallProgress, ConsumedIsFront, NoTradeBehindFront,
                      EmptyOnlyInFront, Opposite
<1>. QED
  BY <1>1, <1>2, BookInvParts

(* Between calls nothing in the book is empty, so matching starts clean.    *)
LEMMA StartMatchKeepsInv ==
    ASSUME BookInv, NEW o \in AnyOrder, StartMatch(o)
    PROVE  BookInv'
<1>1. ContainersType' /\ BookShape'
  BY BookInvParts, BookFrame DEF StartMatch
<1>2. o \in Order
  BY DEF StartMatch, IsValid, AnyOrder, Order
<1>3. o.qty > 0
  BY DEF StartMatch, IsValid
<1>4. CallType'
  BY <1>2, BookInvParts DEF StartMatch, CallType
<1>5. Opposite' \in Seq(Order) /\ Len(Opposite') \in Nat
  <2>1. order' = o /\ containers' = containers /\ OppSide(o.side) \in Side
    BY <1>2, OrderFields DEF StartMatch, OppSide, Side
  <2>2. Opposite' = containers[OppSide(o.side)]
    BY <2>1 DEF Opposite
  <2>. QED
    BY <2>1, <2>2, BookInvParts, ContainerFacts
<1>6. pc' = "match" /\ order' = o /\ i' = 1 /\ idsToRemove' = <<>> /\ containers' = containers
  BY DEF StartMatch
<1>7. CallProgress'
  <2>1. ConsumedIsFront'
    BY <1>5, <1>6 DEF ConsumedIsFront
  <2>2. NoTradeBehindFront'
    BY <1>3, <1>5, <1>6 DEF NoTradeBehindFront
  <2>3. EmptyOnlyInFront'
    BY <1>6, BookInvParts DEF StartMatch, CallProgress, EmptyOnlyInFront
  <2>. QED
    BY <2>1, <2>2, <2>3 DEF CallProgress
<1>. QED
  BY <1>1, <1>4, <1>7, BookInvParts

(* What the invariant gives at a passive order.                             *)
LEMMA AtPassiveFacts ==
    ASSUME BookInv, AtPassive
    PROVE  /\ pc = "match" /\ i \in 1..Len(Opposite) /\ i \in Nat
           /\ order \in Order /\ order.qty > 0 /\ order.qty \in 0..MaxQty
           /\ Passive \in Order /\ Passive.qty > 0 /\ Passive.qty \in 0..MaxQty
           /\ Len(idsToRemove) \in Nat /\ Len(idsToRemove) < i
           /\ idsToRemove \in Seq(OrderId)
<1>1. pc = "match" /\ order \in Order /\ i \in Nat /\ idsToRemove \in Seq(OrderId)
  BY BookInvParts DEF AtPassive, CallType
<1>2. i \in 1..Len(Opposite) /\ Passive \in Order
  BY <1>1, BookInvParts, OppositeFacts DEF AtPassive, Passive
<1>3. order.qty \in 0..MaxQty /\ order.qty > 0 /\ Len(idsToRemove) < i
  BY <1>1, OrderFields, BookInvParts DEF CallProgress, NoTradeBehindFront
<1>4. Passive.qty \in 0..MaxQty /\ Passive.qty \in Nat
  BY <1>2, OrderFields
<1>5. Passive.qty # 0
  BY <1>1, OppositeFacts, BookInvParts
     DEF AtPassive, Passive, Opposite, CallProgress, EmptyOnlyInFront
<1>. QED
  BY <1>1, <1>2, <1>3, <1>4, <1>5, LenProperties

LEMMA SkipPassiveKeepsInv ==
    ASSUME BookInv, SkipPassive
    PROVE  BookInv'
<1>1. ContainersType' /\ BookShape'
  BY BookInvParts, BookFrame DEF SkipPassive
<1>2. AtPassive
  BY DEF SkipPassive
<1>3. /\ pc = "match" /\ i \in 1..Len(Opposite) /\ i \in Nat /\ order.qty > 0
      /\ Len(idsToRemove) \in Nat /\ Len(idsToRemove) < i /\ Len(Opposite) \in Nat
  BY <1>2, AtPassiveFacts, OppositeFacts, BookInvParts
<1>4. Opposite' = Opposite
  BY DEF SkipPassive, Opposite
<1>5. CallType'
  BY <1>3, BookInvParts DEF SkipPassive, CallType
<1>6. ConsumedIsFront' /\ EmptyOnlyInFront'
  BY <1>4, BookInvParts DEF SkipPassive, CallProgress, ConsumedIsFront, EmptyOnlyInFront
<1>7. NoTradeBehindFront'
  <2>1. \A k \in (Len(idsToRemove) + 1)..i : ~Tradeable(order, Opposite[k])
    BY <1>3, BookInvParts DEF SkipPassive, CallProgress, NoTradeBehindFront, Passive
  <2>2. pc' = "match" /\ order' = order /\ idsToRemove' = idsToRemove /\ i' = i + 1
    BY <1>3 DEF SkipPassive
  <2>3. \A k \in (Len(idsToRemove') + 1)..(i' - 1) : ~Tradeable(order', Opposite'[k])
    BY <1>3, <1>4, <2>1, <2>2
  <2>. QED
    BY <1>3, <1>4, <2>2, <2>3 DEF NoTradeBehindFront
<1>. QED
  BY <1>1, <1>5, <1>6, <1>7, BookInvParts DEF CallProgress

(* A tradeable passive is always the first one behind the consumed front:   *)
(* were one skipped before it, its price would be no worse.                 *)
LEMMA TradesAtFront ==
    ASSUME BookInv, AtPassive, Tradeable(order, Passive)
    PROVE  Len(idsToRemove) = i - 1
<1> DEFINE n == Len(idsToRemove) + 1
           s == OppSide(order.side)
<1>1. /\ i \in 1..Len(Opposite) /\ order \in Order /\ Len(idsToRemove) \in Nat
      /\ Len(idsToRemove) < i /\ pc = "match" /\ i \in Nat
  BY AtPassiveFacts
<1>2. /\ s \in Side /\ DOMAIN containers[s] = 1..Len(Opposite)
      /\ Opposite = containers[s]
      /\ \A k \in 1..Len(Opposite) : Opposite[k] \in Order
  BY <1>1, OppositeFacts, BookInvParts DEF Opposite
<1>3. SUFFICES ASSUME n < i PROVE FALSE
  BY <1>1
<1>4. n \in 1..Len(Opposite)
  BY <1>1, <1>3
<1>5. ~Tradeable(order, Opposite[n])
  BY <1>1, <1>3, BookInvParts DEF CallProgress, NoTradeBehindFront
<1>6. ~IsMoreCons(Opposite[n].price, Opposite[i].price, s)
  BY <1>1, <1>2, <1>3, <1>4, BookInvParts DEF BookShape, PriceSorted
<1>7. order.price \in Int /\ Opposite[n].price \in Int /\ Opposite[i].price \in Int
  BY <1>1, <1>2, <1>4, OrderFields
<1>8. order.side \in {"Bid", "Ask"}
  BY <1>1, OrderFields DEF Side
<1> HIDE DEF n
<1>. QED
  BY <1>5, <1>6, <1>7, <1>8 DEF Tradeable, IsMoreCons, OppSide, Passive

(* The consumed front grows by the passive the loop stands at.              *)
LEMMA FrontGrows ==
    ASSUME BookInv, AtPassive, Tradeable(order, Passive),
           idsToRemove' = Append(idsToRemove, Passive.id)
    PROVE  /\ idsToRemove' \in Seq(OrderId) /\ Len(idsToRemove') = i
           /\ \A k \in 1..i : idsToRemove'[k] = Opposite[k].id
<1>1. Len(idsToRemove) = i - 1 /\ i \in Nat /\ i \in 1..Len(Opposite)
      /\ idsToRemove \in Seq(OrderId) /\ Passive \in Order /\ pc = "match"
  BY TradesAtFront, AtPassiveFacts
<1>2. /\ idsToRemove' \in Seq(OrderId) /\ Len(idsToRemove') = i /\ idsToRemove'[i] = Passive.id
      /\ \A k \in 1..(i - 1) : idsToRemove'[k] = idsToRemove[k]
  BY <1>1, OrderFields, AppendProperties
<1>3. \A k \in 1..(i - 1) : idsToRemove[k] = Opposite[k].id
  BY <1>1, BookInvParts DEF CallProgress, ConsumedIsFront
<1>. QED
  BY <1>1, <1>2, <1>3 DEF Passive

LEMMA ConsumePassiveKeepsInv ==
    ASSUME BookInv, ConsumePassive
    PROVE  BookInv'
<1>1. ContainersType' /\ BookShape'
  BY BookInvParts, BookFrame DEF ConsumePassive
<1>2. /\ AtPassive /\ Tradeable(order, Passive)
      /\ idsToRemove' = Append(idsToRemove, Passive.id)
      /\ pc' = pc /\ i' = i + 1 /\ containers' = containers
      /\ order' = [order EXCEPT !.qty = @ - Passive.qty]
  BY DEF ConsumePassive
<1>3. /\ idsToRemove' \in Seq(OrderId) /\ Len(idsToRemove') = i
      /\ \A k \in 1..i : idsToRemove'[k] = Opposite[k].id
  BY <1>2, FrontGrows
<1>4. /\ pc = "match" /\ i \in 1..Len(Opposite) /\ i \in Nat
      /\ order \in Order /\ order.qty \in 0..MaxQty
      /\ Passive.qty > 0 /\ Passive.qty \in 0..MaxQty /\ Len(Opposite) \in Nat
  BY <1>2, AtPassiveFacts, OppositeFacts, BookInvParts
<1>5. order'.qty = order.qty - Passive.qty /\ order'.side = order.side /\ order' \in Order
      /\ order'.qty > 0
  <2>1. order.qty - Passive.qty \in 0..MaxQty /\ order.qty - Passive.qty > 0
    BY <1>4, QtyAssumption DEF ConsumePassive
  <2>2. order.qty - Passive.qty \in 0..MaxQty /\ order'.qty = order.qty - Passive.qty
        /\ order'.side = order.side /\ order' \in Order
    BY <1>2, <1>4, <2>1 DEF Order
  <2>. QED
    BY <2>1, <2>2
<1>6. Opposite' = Opposite
  BY <1>2, <1>5 DEF Opposite
<1>7. CallType'
  BY <1>2, <1>3, <1>4, <1>5, BookInvParts DEF ConsumePassive, CallType
<1>8. ConsumedIsFront'
  BY <1>2, <1>3, <1>4, <1>6 DEF ConsumedIsFront
<1>9. NoTradeBehindFront'
  BY <1>2, <1>3, <1>4, <1>5, <1>6 DEF NoTradeBehindFront
<1>10. EmptyOnlyInFront'
  BY <1>2, <1>4, BookInvParts DEF CallProgress, EmptyOnlyInFront
<1>. QED
  BY <1>1, <1>7, <1>8, <1>9, <1>10, BookInvParts DEF CallProgress

LEMMA ConsumeAggressorKeepsInv ==
    ASSUME BookInv, ConsumeAggressor
    PROVE  BookInv'
<1> DEFINE s == OppSide(order.side)
           q == Passive.qty - order.qty
<1>1. /\ AtPassive /\ pc' = "purge" /\ UNCHANGED <<orderIdsToSide, i, idsToRemove, result>>
      /\ order' = [order EXCEPT !.qty = 0]
  BY DEF ConsumeAggressor
<1>2. /\ pc = "match" /\ i \in 1..Len(Opposite) /\ order \in Order /\ order.qty > 0
      /\ order.qty \in 0..MaxQty /\ Passive.qty \in 0..MaxQty /\ Len(idsToRemove) \in Nat
  BY <1>1, AtPassiveFacts
<1>3. /\ s \in Side /\ Opposite = containers[s] /\ Passive = containers[s][i]
      /\ i \in 1..Len(containers[s])
  BY <1>2, OppositeFacts, BookInvParts DEF Opposite, Passive
<1>4. q \in 0..MaxQty /\ q > 0
  BY <1>2, QtyAssumption DEF ConsumeAggressor
<1>5. containers' = WithQty(s, i, q)
  BY <1>3 DEF ConsumeAggressor, WithQty
<1> HIDE DEF s, q
<1>6. /\ ContainersType' /\ BookShape'
      /\ \A t \in Side : Len(containers'[t]) = Len(containers[t])
      /\ \A t \in Side : \A j \in 1..Len(containers[t]) :
            /\ containers'[t][j].id = containers[t][j].id
            /\ containers'[t][j].qty = IF t = s /\ j = i THEN q ELSE containers[t][j].qty
  <2>1. ContainersType /\ BookShape /\ orderIdsToSide' = orderIdsToSide
    BY <1>1, BookInvParts
  <2>. QED
    BY <1>3, <1>4, <1>5, <2>1, QtyEdit
<1>7. order' \in Order /\ order'.qty = 0 /\ order'.side = order.side
  BY <1>1, <1>2, QtyAssumption DEF Order
<1>8. CallType'
  BY <1>1, <1>7, BookInvParts DEF CallType
<1>9. Opposite' = containers'[s]
  BY <1>7 DEF Opposite, s
<1>10. ConsumedIsFront'
  BY <1>1, <1>2, <1>3, <1>6, <1>9, BookInvParts, ContainerFacts
     DEF CallProgress, ConsumedIsFront
<1>11. NoTradeBehindFront'
  BY <1>1, <1>7 DEF NoTradeBehindFront
<1>12. EmptyOnlyInFront'
  <2>1. \A t \in Side : DOMAIN containers'[t] = 1..Len(containers[t])
    BY <1>6, ContainerFacts, LenProperties DEF ContainersType
  <2>2. \A t \in Side : DOMAIN containers[t] = 1..Len(containers[t])
    BY BookInvParts, ContainerFacts
  <2>3. \A t \in Side : \A j \in 1..Len(containers[t]) : containers[t][j].qty # 0
    BY <1>2, <2>2, BookInvParts DEF CallProgress, EmptyOnlyInFront
  <2>. QED
    BY <1>4, <1>6, <2>1, <2>3 DEF EmptyOnlyInFront
<1>. QED
  BY <1>6, <1>8, <1>10, <1>11, <1>12, BookInvParts DEF CallProgress

LEMMA ConsumeBothKeepsInv ==
    ASSUME BookInv, ConsumeBoth
    PROVE  BookInv'
<1> DEFINE s == OppSide(order.side)
<1>1. /\ AtPassive /\ Tradeable(order, Passive)
      /\ pc' = "purge" /\ UNCHANGED <<orderIdsToSide, i, result>>
      /\ idsToRemove' = Append(idsToRemove, Passive.id)
      /\ order' = [order EXCEPT !.qty = 0]
      /\ containers' = WithQty(s, i, 0)
  BY DEF ConsumeBoth, WithQty
<1>2. /\ pc = "match" /\ i \in 1..Len(Opposite) /\ order \in Order /\ i \in Nat
  BY <1>1, AtPassiveFacts
<1>3. /\ s \in Side /\ Opposite = containers[s] /\ i \in 1..Len(containers[s])
  BY <1>2, OppositeFacts, BookInvParts DEF Opposite
<1>4. /\ idsToRemove' \in Seq(OrderId) /\ Len(idsToRemove') = i
      /\ \A k \in 1..i : idsToRemove'[k] = Opposite[k].id
  BY <1>1, FrontGrows
<1>5. /\ ContainersType' /\ BookShape'
      /\ \A t \in Side : Len(containers'[t]) = Len(containers[t])
      /\ \A t \in Side : \A j \in 1..Len(containers[t]) :
            /\ containers'[t][j].id = containers[t][j].id
            /\ containers'[t][j].qty = IF t = s /\ j = i THEN 0 ELSE containers[t][j].qty
  <2>1. 0 \in 0..MaxQty
    BY QtyAssumption
  <2>2. ContainersType /\ BookShape /\ orderIdsToSide' = orderIdsToSide
    BY <1>1, BookInvParts
  <2>3. containers' = WithQty(s, i, 0)
    BY <1>1
  <2> HIDE DEF s
  <2>. QED
    BY <1>3, <2>1, <2>2, <2>3, QtyEdit
<1>6. order' \in Order /\ order'.qty = 0 /\ order'.side = order.side
  BY <1>1, <1>2, QtyAssumption DEF Order
<1>7. CallType'
  BY <1>1, <1>4, <1>6, BookInvParts DEF CallType
<1>8. Opposite' = containers'[s] /\ OppSide(order'.side) = s
  BY <1>6 DEF Opposite
<1> HIDE DEF s
<1>9. ConsumedIsFront'
  BY <1>1, <1>2, <1>3, <1>4, <1>5, <1>8 DEF ConsumedIsFront
<1>10. NoTradeBehindFront'
  BY <1>1, <1>6 DEF NoTradeBehindFront
<1>11. EmptyOnlyInFront'
  <2>1. \A t \in Side : DOMAIN containers'[t] = 1..Len(containers[t])
    BY <1>5, ContainerFacts, LenProperties DEF ContainersType
  <2>2. \A t \in Side : DOMAIN containers[t] = 1..Len(containers[t])
    BY BookInvParts, ContainerFacts
  <2>3. \A t \in Side : \A j \in 1..Len(containers[t]) : containers[t][j].qty # 0
    BY <1>2, <2>2, BookInvParts DEF CallProgress, EmptyOnlyInFront
  <2>4. \A t \in Side : \A j \in 1..Len(containers[t]) :
            containers'[t][j].qty = 0 => t = s /\ j = i
    BY <1>5, <2>3
  <2>5. i \in Int /\ i <= Len(idsToRemove')
    BY <1>2, <1>4
  <2>6. ASSUME NEW t \in Side, NEW j \in DOMAIN containers'[t], containers'[t][j].qty = 0
        PROVE  pc' = "purge" /\ t = OppSide(order'.side) /\ j <= Len(idsToRemove')
    BY <1>1, <1>8, <2>1, <2>4, <2>5, <2>6
  <2>. QED
    BY <2>6 DEF EmptyOnlyInFront
<1>. QED
  BY <1>5, <1>7, <1>9, <1>10, <1>11, BookInvParts DEF CallProgress

LEMMA EndMatchKeepsInv ==
    ASSUME BookInv, EndMatch
    PROVE  BookInv'
<1>1. ContainersType' /\ BookShape'
  BY BookInvParts, BookFrame DEF EndMatch
<1>2. /\ pc = "match" /\ order \in Order /\ i \in Nat /\ i > 0 /\ idsToRemove \in Seq(OrderId)
      /\ Len(Opposite) \in Nat /\ DOMAIN Opposite = 1..Len(Opposite)
  BY BookInvParts, OppositeFacts DEF EndMatch, CallType
<1>3. i = Len(Opposite) + 1
  BY <1>2, BookInvParts DEF EndMatch, CallProgress, NoTradeBehindFront
<1>4. Opposite' = Opposite
  BY DEF EndMatch, Opposite
<1>5. CallType'
  BY BookInvParts DEF EndMatch, CallType
<1>6. ConsumedIsFront'
  BY <1>2, <1>4, BookInvParts DEF EndMatch, CallProgress, ConsumedIsFront
<1>7. EmptyOnlyInFront'
  BY <1>2, BookInvParts DEF EndMatch, CallProgress, EmptyOnlyInFront
<1>8. NoTradeBehindFront'
  <2>1. \A k \in (Len(idsToRemove) + 1)..(i - 1) : ~Tradeable(order, Opposite[k])
    BY <1>2, BookInvParts DEF CallProgress, NoTradeBehindFront
  <2>2. i - 1 = Len(Opposite)
    BY <1>2, <1>3
  <2>3. pc' = "purge" /\ order' = order /\ idsToRemove' = idsToRemove
    BY DEF EndMatch
  <2>. QED
    BY <1>4, <2>1, <2>2, <2>3 DEF NoTradeBehindFront
<1>. QED
  BY <1>1, <1>5, <1>6, <1>7, <1>8, BookInvParts DEF CallProgress

-----------------------------------------------------------------------------
(* The steps that take an order out of the book or put one in.              *)
LEMMA EraseAbsent ==
    ASSUME ContainersType, BookShape, NEW id, ~Has(id), Erase(id)
    PROVE  ContainersType' /\ BookShape' /\ containers' = containers
<1>1. UNCHANGED <<containers, orderIdsToSide>>
  BY DEF Erase
<1>. QED
  BY <1>1, BookFrame

(* A book without empty orders has none after a removal.                    *)
LEMMA RemoveOrderKeepsInv ==
    ASSUME BookInv, NEW id, RemoveOrder(id)
    PROVE  BookInv'
<1>1. /\ pc = "idle" /\ Erase(id) /\ result' = Has(id)
      /\ UNCHANGED <<pc, order, i, idsToRemove>>
  BY DEF RemoveOrder
<1>2. ContainersType' /\ BookShape'
  BY <1>1, BookInvParts, EraseKeepsShape, EraseAbsent
<1>3. CallType'
  <2>1. Has(id) \in BOOLEAN
    BY DEF Has
  <2>. QED
    BY <1>1, <2>1, BookInvParts DEF CallType
<1>4. \A t \in Side : \A j \in DOMAIN containers[t] : containers[t][j].qty # 0
  BY <1>1, BookInvParts DEF CallProgress, EmptyOnlyInFront
<1>5. \A t \in Side : \A j \in DOMAIN containers'[t] : containers'[t][j].qty # 0
  <2>1. CASE ~Has(id)
    BY <1>1, <1>4, <2>1, BookInvParts, EraseAbsent
  <2>2. CASE Has(id)
    <3> DEFINE s == orderIdsToSide[id]
    <3>1. PICK k \in 1..Len(containers[s]) :
            /\ s \in Side
            /\ containers' \in [Side -> Seq(Order)]
            /\ Len(containers'[s]) = Len(containers[s]) - 1
            /\ \A j \in 1..(Len(containers[s]) - 1) :
                  containers'[s][j] = IF j < k THEN containers[s][j] ELSE containers[s][j + 1]
            /\ \A t \in Side \ {s} : containers'[t] = containers[t]
      BY <1>1, <2>2, BookInvParts, EraseEffect
    <3> HIDE DEF s
    <3>2. \A t \in Side \ {s} : \A j \in DOMAIN containers'[t] : containers'[t][j].qty # 0
      BY <1>4, <3>1
    <3>3. /\ DOMAIN containers'[s] = 1..(Len(containers[s]) - 1)
          /\ DOMAIN containers[s] = 1..Len(containers[s]) /\ Len(containers[s]) \in Nat
      BY <3>1, BookInvParts, ContainerFacts, LenProperties
    <3>4. ASSUME NEW j \in DOMAIN containers'[s] PROVE containers'[s][j].qty # 0
      <4>1. j \in DOMAIN containers[s] /\ j + 1 \in DOMAIN containers[s]
        BY <3>3, <3>4
      <4>2. containers'[s][j] = containers[s][j] \/ containers'[s][j] = containers[s][j + 1]
        BY <3>1, <3>3, <3>4
      <4>. QED
        BY <1>4, <3>1, <4>1, <4>2
    <3>. QED
      BY <3>2, <3>4
  <2>. QED
    BY <2>1, <2>2
<1>6. CallProgress'
  <2>1. ConsumedIsFront' /\ NoTradeBehindFront'
    BY <1>1, BookInvParts DEF CallProgress, ConsumedIsFront, NoTradeBehindFront
  <2>2. EmptyOnlyInFront'
    BY <1>5 DEF EmptyOnlyInFront
  <2>. QED
    BY <2>1, <2>2 DEF CallProgress
<1>. QED
  BY <1>2, <1>3, <1>6, BookInvParts

(* The id at the head of idsToRemove is that of the first opposite order.   *)
LEMMA PurgeOneKeepsInv ==
    ASSUME BookInv, PurgeOne
    PROVE  BookInv'
<1> DEFINE s == OppSide(order.side)
           n == Len(idsToRemove)
           id == Head(idsToRemove)
<1>1. /\ pc = "purge" /\ idsToRemove # <<>> /\ Erase(id) /\ idsToRemove' = Tail(idsToRemove)
      /\ UNCHANGED <<pc, order, i, result>>
  BY DEF PurgeOne
<1>2. /\ order \in Order /\ idsToRemove \in Seq(OrderId) /\ i \in Nat \ {0} /\ result \in BOOLEAN
  BY <1>1, BookInvParts DEF CallType
<1>3. /\ s \in Side /\ Opposite = containers[s] /\ Len(containers[s]) \in Nat
      /\ containers[s] \in Seq(Order)
      /\ DOMAIN containers[s] = 1..Len(containers[s])
  BY <1>2, BookInvParts, OppositeFacts DEF Opposite
<1>4. /\ n \in Nat /\ n > 0 /\ idsToRemove' \in Seq(OrderId) /\ Len(idsToRemove') = n - 1
      /\ \A k \in 1..(n - 1) : idsToRemove'[k] = idsToRemove[k + 1]
      /\ id = idsToRemove[1]
  BY <1>1, <1>2, HeadTailProperties, EmptySeq, LenProperties
<1>5. n <= Len(containers[s]) /\ \A k \in 1..n : idsToRemove[k] = containers[s][k].id
  BY <1>1, <1>3, BookInvParts DEF CallProgress, ConsumedIsFront
<1>6. 1 \in 1..n /\ 1 \in 1..Len(containers[s])
  BY <1>3, <1>4, <1>5
<1>7. containers[s][1].id = id
  BY <1>4, <1>5, <1>6
<1>8. Has(id) /\ orderIdsToSide[id] = s
  BY <1>3, <1>6, <1>7, BookInvParts DEF BookShape, MapMatchesContainers, ContainersInMap
<1> HIDE DEF s, n, id
<1>9. ContainersType' /\ BookShape'
  BY <1>1, <1>8, BookInvParts, EraseKeepsShape
<1>10. PICK k \in 1..Len(containers[s]) :
         /\ containers[s][k].id = id
         /\ containers' \in [Side -> Seq(Order)]
         /\ Len(containers'[s]) = Len(containers[s]) - 1
         /\ \A j \in 1..(Len(containers[s]) - 1) :
               containers'[s][j] = IF j < k THEN containers[s][j] ELSE containers[s][j + 1]
         /\ \A t \in Side \ {s} : containers'[t] = containers[t]
  <2>1. ContainersType /\ BookShape
    BY BookInvParts
  <2> DEFINE m == orderIdsToSide[id]
  <2>2. PICK k \in 1..Len(containers[m]) :
          /\ containers[m][k].id = id
          /\ containers' \in [Side -> Seq(Order)]
          /\ Len(containers'[m]) = Len(containers[m]) - 1
          /\ \A j \in 1..(Len(containers[m]) - 1) :
                containers'[m][j] = IF j < k THEN containers[m][j] ELSE containers[m][j + 1]
          /\ \A t \in Side \ {m} : containers'[t] = containers[t]
    BY <1>1, <1>8, <2>1, EraseEffect
  <2>3. m = s
    BY <1>8
  <2> HIDE DEF m
  <2>. QED
    BY <2>2, <2>3
<1>11. k = 1
  BY <1>3, <1>6, <1>7, <1>10, BookInvParts DEF BookShape, MapMatchesContainers, UniqueIds
<1>12. /\ \A j \in 1..(Len(containers[s]) - 1) : containers'[s][j] = containers[s][j + 1]
       /\ DOMAIN containers'[s] = 1..(Len(containers[s]) - 1)
  BY <1>3, <1>10, <1>11, LenProperties
<1>13. Opposite' = containers'[s] /\ OppSide(order'.side) = s /\ order' = order
  BY <1>1 DEF Opposite, s
<1>14. CallType'
  BY <1>1, <1>2, <1>4 DEF CallType
<1>15. ConsumedIsFront'
  <2>1. Len(idsToRemove') <= Len(Opposite')
    BY <1>3, <1>4, <1>5, <1>10, <1>13
  <2>2. ASSUME NEW j \in 1..Len(idsToRemove') PROVE idsToRemove'[j] = Opposite'[j].id
    <3>1. j \in 1..(n - 1) /\ j + 1 \in 1..n /\ j \in 1..(Len(containers[s]) - 1)
      BY <1>3, <1>4, <1>5, <2>2
    <3>. QED
      BY <1>4, <1>5, <1>12, <1>13, <3>1
  <2>. QED
    BY <1>1, <2>1, <2>2 DEF ConsumedIsFront
<1>16. NoTradeBehindFront'
  <2>1. CASE order.qty = 0
    BY <1>1, <1>13, <2>1 DEF NoTradeBehindFront
  <2>2. CASE order.qty # 0
    <3>1. \A j \in (n + 1)..Len(containers[s]) : ~Tradeable(order, containers[s][j])
      BY <1>1, <1>3, <2>2, BookInvParts DEF CallProgress, NoTradeBehindFront, n
    <3>2. ASSUME NEW j \in (Len(idsToRemove') + 1)..Len(Opposite')
          PROVE  ~Tradeable(order', Opposite'[j])
      <4>1. j + 1 \in (n + 1)..Len(containers[s]) /\ j \in 1..(Len(containers[s]) - 1)
        BY <1>3, <1>4, <1>10, <1>13, <3>2
      <4>. QED
        BY <1>12, <1>13, <3>1, <4>1
    <3>. QED
      BY <1>1, <3>2 DEF NoTradeBehindFront
  <2>. QED
    BY <2>1, <2>2
<1>17. EmptyOnlyInFront'
  <2>1. \A t \in Side : \A j \in DOMAIN containers[t] :
          containers[t][j].qty = 0 => t = s /\ j <= n
    BY <1>1, BookInvParts DEF CallProgress, EmptyOnlyInFront, s, n
  <2>2. ASSUME NEW t \in Side, NEW j \in DOMAIN containers'[t], containers'[t][j].qty = 0
        PROVE  t = s /\ j <= Len(idsToRemove')
    <3>1. t = s
      BY <1>10, <2>1, <2>2
    <3>2. j \in 1..(Len(containers[s]) - 1) /\ j + 1 \in DOMAIN containers[s]
      BY <1>3, <1>12, <2>2, <3>1
    <3>3. containers[s][j + 1].qty = 0
      BY <1>12, <2>2, <3>1, <3>2
    <3>. QED
      BY <1>3, <1>4, <2>1, <3>1, <3>2, <3>3
  <2>. QED
    BY <1>1, <1>13, <2>2 DEF EmptyOnlyInFront
<1>. QED
  BY <1>9, <1>14, <1>15, <1>16, <1>17, BookInvParts DEF CallProgress

(* With nothing left to purge, nothing in the book is empty.                *)
LEMMA MatchedFacts ==
    ASSUME BookInv, Matched
    PROVE  /\ order \in Order /\ idsToRemove = <<>> /\ Len(Opposite) \in Nat
           /\ \A t \in Side : \A j \in DOMAIN containers[t] : containers[t][j].qty # 0
           /\ order.qty # 0 => \A j \in 1..Len(Opposite) : ~Tradeable(order, Opposite[j])
<1>1. pc = "purge" /\ idsToRemove = <<>> /\ order \in Order /\ Len(idsToRemove) = 0
  BY BookInvParts DEF Matched, CallType
<1>2. Len(Opposite) \in Nat
  BY <1>1, BookInvParts, OppositeFacts
<1>3. \A t \in Side : \A j \in DOMAIN containers[t] : containers[t][j].qty # 0
  <2>1. \A t \in Side : \A j \in 1..Len(containers[t]) : j > 0
    BY ContainerFacts, BookInvParts
  <2>2. \A t \in Side : DOMAIN containers[t] = 1..Len(containers[t])
    BY ContainerFacts, BookInvParts
  <2>3. \A t \in Side : \A j \in DOMAIN containers[t] : containers[t][j].qty = 0 => j <= 0
    BY <1>1, BookInvParts DEF CallProgress, EmptyOnlyInFront
  <2>4. \A t \in Side : \A j \in 1..Len(containers[t]) : j \in Int
    BY ContainerFacts, BookInvParts
  <2>. QED
    BY <2>1, <2>2, <2>3, <2>4
<1>4. order.qty # 0 => \A j \in 1..Len(Opposite) : ~Tradeable(order, Opposite[j])
  BY <1>1, <1>2, BookInvParts DEF CallProgress, NoTradeBehindFront
<1>. QED
  BY <1>1, <1>2, <1>3, <1>4

LEMMA FinishWithoutInsertKeepsInv ==
    ASSUME BookInv, FinishWithoutInsert
    PROVE  BookInv'
<1>1. Matched /\ Return(FALSE) /\ UNCHANGED <<containers, orderIdsToSide>>
  BY DEF FinishWithoutInsert
<1>2. ContainersType' /\ BookShape'
  BY <1>1, BookInvParts, BookFrame
<1>3. pc' = "idle" /\ order' = NoOrder /\ i' = 1 /\ idsToRemove' = <<>> /\ result' = FALSE
      /\ idsToRemove' = idsToRemove /\ containers' = containers
  BY <1>1, MatchedFacts DEF Return
<1>4. CallType'
  <2>1. idsToRemove' \in Seq(OrderId) /\ i' \in Nat \ {0}
    BY <1>3, BookInvParts DEF CallType
  <2>. QED
    BY <1>3, <2>1 DEF CallType
<1>5. CallProgress'
  BY <1>1, <1>3, MatchedFacts DEF CallProgress, ConsumedIsFront, NoTradeBehindFront, EmptyOnlyInFront
<1>. QED
  BY <1>2, <1>4, <1>5, BookInvParts

(* Where a new order goes: behind everything at a better price, in front    *)
(* of everything that is not.                                               *)
LEMMA InsertPosFacts ==
    ASSUME ContainersType, order \in Order
    PROVE  LET s == order.side
               c == containers[order.side]
               p == InsertPos(containers[order.side], order)
           IN  /\ p \in 1..(Len(c) + 1)
               /\ \A k \in 1..Len(c) : k < p => IsMoreCons(order.price, c[k].price, s)
               /\ p <= Len(c) => ~IsMoreCons(order.price, c[p].price, s)
<1> DEFINE s == order.side
           c == containers[s]
           T == {k \in DOMAIN c : ~IsMoreCons(order.price, c[k].price, s)} \cup {Len(c) + 1}
<1>1. s \in Side /\ Len(c) \in Nat /\ DOMAIN c = 1..Len(c)
  BY OrderFields, ContainerFacts
<1>2. InsertPos(c, order) = Min(T)
  BY DEF InsertPos
<1> HIDE DEF c
<1>3. T \in SUBSET Nat /\ T # {} /\ T \subseteq 1..(Len(c) + 1)
  BY <1>1
<1>4. Min(T) \in T /\ \A y \in T : Min(T) <= y
  <2> HIDE DEF T
  <2>. QED
    BY <1>3, MinOfNats
<1>5. \A k \in 1..Len(c) : k < Min(T) => IsMoreCons(order.price, c[k].price, s)
  <2>1. ASSUME NEW k \in 1..Len(c), ~IsMoreCons(order.price, c[k].price, s) PROVE ~(k < Min(T))
    <3>1. k \in T
      BY <1>1, <2>1
    <3>2. Min(T) \in Nat
      BY <1>3, <1>4
    <3> HIDE DEF T
    <3>. QED
      BY <1>1, <1>4, <3>1, <3>2
  <2>. QED
    BY <2>1
<1>6. Min(T) <= Len(c) => ~IsMoreCons(order.price, c[Min(T)].price, s)
  <2>1. ASSUME Min(T) <= Len(c) PROVE Min(T) # Len(c) + 1
    <3> HIDE DEF T
    <3>. QED
      BY <1>1, <1>3, <1>4, <2>1
  <2>2. Min(T) # Len(c) + 1 => ~IsMoreCons(order.price, c[Min(T)].price, s)
    BY <1>4
  <2>. QED
    BY <2>1, <2>2
<1>7. Min(T) \in 1..(Len(c) + 1)
  BY <1>3, <1>4
<1> HIDE DEF T
<1>. QED
  BY <1>2, <1>5, <1>6, <1>7 DEF c

(* The order comes to rest: sorted, alone under its id, within the arena,   *)
(* and out of reach of the other side, where nothing was left to trade.     *)
LEMMA InsertKeepsInv ==
    ASSUME BookInv, Insert
    PROVE  BookInv'
<1> DEFINE s == order.side
           o == OppSide(order.side)
           c == containers
           d == containers'
           p == InsertPos(containers[order.side], order)
           was(j) == IF j < p THEN j ELSE j - 1
<1>1. /\ Matched /\ order.qty > 0 /\ ~Has(order.id) /\ ~IsFull(s) /\ Return(TRUE)
      /\ d = [c EXCEPT ![s] = InsertAt(c[s], p, order)]
      /\ orderIdsToSide' = [id \in DOMAIN orderIdsToSide \cup {order.id} |->
                                IF id = order.id THEN s ELSE orderIdsToSide[id]]
  BY DEF Insert
<1>2. /\ order \in Order /\ s \in Side /\ o \in Side /\ o # s /\ order.id \in OrderId
      /\ order.price \in Int
  BY <1>1, MatchedFacts, OrderFields, OppositeFacts, BookInvParts
<1>3. ContainersType /\ BookShape
  BY BookInvParts
<1>4. \A t \in Side : /\ c[t] \in Seq(Order) /\ Len(c[t]) \in Nat /\ DOMAIN c[t] = 1..Len(c[t])
                       /\ \A j \in 1..Len(c[t]) : c[t][j] \in Order /\ c[t][j].price \in Int
  BY <1>3, ContainerFacts, OrderFields
<1>5. /\ p \in 1..(Len(c[s]) + 1)
      /\ \A k \in 1..Len(c[s]) : k < p => IsMoreCons(order.price, c[s][k].price, s)
      /\ p <= Len(c[s]) => ~IsMoreCons(order.price, c[s][p].price, s)
  BY <1>2, <1>3, InsertPosFacts
<1> HIDE DEF p
<1>6. /\ InsertAt(c[s], p, order) \in Seq(Order)
      /\ Len(InsertAt(c[s], p, order)) = Len(c[s]) + 1
      /\ \A j \in 1..(Len(c[s]) + 1) :
            InsertAt(c[s], p, order)[j] = IF j < p THEN c[s][j] ELSE IF j = p THEN order ELSE c[s][j - 1]
  <2> DEFINE seq == c[s]
  <2>1. seq \in Seq(Order) /\ p \in 1..(Len(seq) + 1) /\ order \in Order
    BY <1>2, <1>4, <1>5
  <2> HIDE DEF seq
  <2>2. InsertAt(seq, p, order) \in Seq(Order) /\ Len(InsertAt(seq, p, order)) = Len(seq) + 1
    BY <2>1, InsertAtProperties
  <2>3. ASSUME NEW j \in 1..(Len(seq) + 1)
        PROVE  InsertAt(seq, p, order)[j] =
                   IF j < p THEN seq[j] ELSE IF j = p THEN order ELSE seq[j - 1]
    BY <2>1, InsertAtProperties
  <2>. QED
    BY <2>2, <2>3 DEF seq
<1>7. /\ d \in [Side -> Seq(Order)] /\ d[s] = InsertAt(c[s], p, order)
      /\ \A t \in Side \ {s} : d[t] = c[t]
  BY <1>1, <1>2, <1>3, <1>6 DEF ContainersType
<1>8. /\ Len(d[s]) = Len(c[s]) + 1 /\ DOMAIN d[s] = 1..(Len(c[s]) + 1)
      /\ d[s][p] = order
      /\ \A j \in 1..(Len(c[s]) + 1) : j # p => was(j) \in 1..Len(c[s]) /\ d[s][j] = c[s][was(j)]
  <2>1. Len(d[s]) = Len(c[s]) + 1 /\ DOMAIN d[s] = 1..(Len(c[s]) + 1)
    BY <1>2, <1>6, <1>7, LenProperties
  <2>2. d[s][p] = order
    BY <1>4, <1>5, <1>6, <1>7
  <2>3. ASSUME NEW j \in 1..(Len(c[s]) + 1), j # p
        PROVE  was(j) \in 1..Len(c[s]) /\ d[s][j] = c[s][was(j)]
    BY <1>2, <1>4, <1>5, <1>6, <1>7, <2>3
  <2>. QED
    BY <2>1, <2>2, <2>3
<1>9. \A t \in Side : \A j \in 1..Len(c[t]) :
        /\ c[t][j].id \in DOMAIN orderIdsToSide /\ orderIdsToSide[c[t][j].id] = t
        /\ c[t][j].id # order.id
  BY <1>1, <1>3, <1>4 DEF BookShape, MapMatchesContainers, ContainersInMap, Has
<1>10. \A t \in Side \ {s} : DOMAIN d[t] = 1..Len(c[t])
  BY <1>4, <1>7
<1>11. \A j, m \in 1..(Len(c[s]) + 1) : j # p /\ m # p => (was(j) = was(m) => j = m)
  BY <1>2, <1>4, <1>5
<1>12. \A j, m \in 1..(Len(c[s]) + 1) : j # p /\ m # p => (j < m => was(j) < was(m))
  BY <1>2, <1>4, <1>5
<1>13. \A j \in 1..(Len(c[s]) + 1) : (j < p => was(j) < p) /\ (j > p => was(j) >= p)
  BY <1>2, <1>4, <1>5
<1> HIDE DEF was, c, d, s, o
<1>14. \A j \in DOMAIN d[s] : j # p =>
         /\ was(j) \in 1..Len(c[s]) /\ d[s][j] = c[s][was(j)] /\ d[s][j].id # order.id
  <2>1. ASSUME NEW j \in DOMAIN d[s], j # p
        PROVE  was(j) \in 1..Len(c[s]) /\ d[s][j] = c[s][was(j)] /\ d[s][j].id # order.id
    <3>1. was(j) \in 1..Len(c[s]) /\ d[s][j] = c[s][was(j)]
      BY <1>8, <2>1
    <3>. QED
      BY <1>2, <1>9, <3>1
  <2>. QED
    BY <2>1
<1>15. UniqueIds'
  <2>1. ASSUME NEW t \in Side, NEW j \in DOMAIN d[t], NEW m \in DOMAIN d[t], d[t][j].id = d[t][m].id
        PROVE  j = m
    <3>1. CASE t # s
      BY <1>3, <1>7, <2>1, <3>1 DEF BookShape, MapMatchesContainers, UniqueIds, c
    <3>2. CASE t = s /\ j # p /\ m # p
      <4>1. /\ was(j) \in DOMAIN c[s] /\ was(m) \in DOMAIN c[s]
            /\ c[s][was(j)].id = c[s][was(m)].id
        BY <1>2, <1>4, <1>8, <2>1, <3>2
      <4>2. was(j) = was(m)
        BY <1>2, <1>3, <4>1 DEF BookShape, MapMatchesContainers, UniqueIds, c
      <4>. QED
        BY <1>8, <1>11, <2>1, <3>2, <4>2
    <3>3. CASE t = s /\ j = p
      BY <1>8, <1>14, <2>1, <3>3
    <3>4. CASE t = s /\ m = p
      BY <1>8, <1>14, <2>1, <3>4
    <3>. QED
      BY <3>1, <3>2, <3>3, <3>4
  <2>. QED
    BY <2>1 DEF UniqueIds, d
<1>16. ContainersInMap'
  <2>1. /\ DOMAIN orderIdsToSide' = DOMAIN orderIdsToSide \cup {order.id}
        /\ orderIdsToSide'[order.id] = s
        /\ \A x \in DOMAIN orderIdsToSide : x # order.id => orderIdsToSide'[x] = orderIdsToSide[x]
    BY <1>1
  <2>2. ASSUME NEW t \in Side, NEW j \in DOMAIN d[t]
        PROVE  d[t][j].id \in DOMAIN orderIdsToSide' /\ orderIdsToSide'[d[t][j].id] = t
    <3>1. CASE t # s
      BY <1>4, <1>7, <1>9, <2>1, <2>2, <3>1
    <3>2. CASE t = s /\ j # p
      <4>1. was(j) \in 1..Len(c[s]) /\ d[s][j] = c[s][was(j)]
        BY <1>14, <2>2, <3>2
      <4>2. /\ d[s][j].id \in DOMAIN orderIdsToSide /\ d[s][j].id # order.id
            /\ orderIdsToSide[d[s][j].id] = s
        BY <1>2, <1>9, <4>1
      <4>. QED
        BY <2>1, <3>2, <4>2
    <3>3. CASE t = s /\ j = p
      BY <1>8, <2>1, <3>3
    <3>. QED
      BY <3>1, <3>2, <3>3
  <2>. QED
    BY <2>2 DEF ContainersInMap, Has, d
<1>17. MapInContainers'
  <2>1. ASSUME NEW x \in DOMAIN orderIdsToSide'
        PROVE  \E j \in DOMAIN d[orderIdsToSide'[x]] : d[orderIdsToSide'[x]][j].id = x
    <3>1. CASE x = order.id
      <4>1. orderIdsToSide'[x] = s /\ p \in DOMAIN d[s] /\ d[s][p].id = x
        BY <1>1, <1>5, <1>8, <3>1
      <4>. QED
        BY <4>1
    <3>2. CASE x # order.id
      <4>1. x \in DOMAIN orderIdsToSide /\ orderIdsToSide'[x] = orderIdsToSide[x]
        BY <1>1, <2>1, <3>2
      <4>2. orderIdsToSide[x] \in Side
        BY <1>3, <4>1 DEF ContainersType
      <4> DEFINE t == orderIdsToSide[x]
      <4>3. PICK k \in 1..Len(c[t]) : c[t][k].id = x
        BY <1>3, <1>4, <4>1, <4>2 DEF BookShape, MapMatchesContainers, MapInContainers, c
      <4>4. CASE t # s
        <5>1. k \in DOMAIN d[t] /\ d[t][k].id = x
          BY <1>4, <1>7, <4>2, <4>3, <4>4
        <5>. QED
          BY <4>1, <5>1
      <4>5. CASE t = s /\ k < p
        <5>1. k \in 1..(Len(c[s]) + 1) /\ k # p /\ was(k) = k
          BY <1>2, <1>4, <1>5, <4>3, <4>5 DEF was
        <5>2. k \in DOMAIN d[t] /\ d[t][k].id = x
          BY <1>8, <4>3, <4>5, <5>1
        <5>. QED
          BY <4>1, <5>2
      <4>6. CASE t = s /\ k >= p
        <5>1. k + 1 \in 1..(Len(c[s]) + 1) /\ k + 1 # p /\ was(k + 1) = k
          BY <1>2, <1>4, <1>5, <4>3, <4>6 DEF was
        <5>2. k + 1 \in DOMAIN d[t] /\ d[t][k + 1].id = x
          BY <1>8, <4>3, <4>6, <5>1
        <5>. QED
          BY <4>1, <5>2
      <4>. QED
        <5>1. k \in Int /\ p \in Int
          BY <1>5, <4>3
        <5>. QED
          BY <4>4, <4>5, <4>6, <5>1
    <3>. QED
      BY <3>1, <3>2
  <2>. QED
    BY <2>1 DEF MapInContainers, d
<1>18. PriceSorted'
  <2>1. \A j, m \in 1..Len(c[s]) : j < m => ~IsMoreCons(c[s][j].price, c[s][m].price, s)
    BY <1>2, <1>3, <1>4 DEF BookShape, PriceSorted, c
  <2>2. ASSUME NEW t \in Side, NEW j \in DOMAIN d[t], NEW m \in DOMAIN d[t], j < m
        PROVE  ~IsMoreCons(d[t][j].price, d[t][m].price, t)
    <3>1. CASE t # s
      BY <1>3, <1>7, <2>2, <3>1 DEF BookShape, PriceSorted, c
    <3>2. CASE t = s /\ j # p /\ m # p
      <4>1. /\ was(j) \in 1..Len(c[s]) /\ d[s][j] = c[s][was(j)]
            /\ was(m) \in 1..Len(c[s]) /\ d[s][m] = c[s][was(m)]
        BY <1>8, <2>2, <3>2
      <4>2. was(j) < was(m)
        BY <1>8, <1>12, <2>2, <3>2
      <4>. QED
        BY <2>1, <3>2, <4>1, <4>2
    <3>3. CASE t = s /\ m = p
      <4>0. j \in 1..(Len(c[s]) + 1) /\ j < p /\ j # p
        BY <1>5, <1>8, <2>2, <3>3
      <4>1. was(j) \in 1..Len(c[s]) /\ was(j) < p /\ d[s][j] = c[s][was(j)] /\ d[s][m] = order
        BY <1>8, <1>13, <3>3, <4>0
      <4>2. IsMoreCons(order.price, c[s][was(j)].price, s) /\ c[s][was(j)].price \in Int
        BY <1>2, <1>4, <1>5, <4>1
      <4>. QED
        BY <1>2, <3>3, <4>1, <4>2 DEF IsMoreCons
    <3>4. CASE t = s /\ j = p
      <4>0. m \in 1..(Len(c[s]) + 1) /\ m > p /\ m # p
        BY <1>5, <1>8, <2>2, <3>4
      <4>1. /\ was(m) \in 1..Len(c[s]) /\ was(m) >= p
            /\ d[s][m] = c[s][was(m)] /\ d[s][j] = order
        BY <1>8, <1>13, <3>4, <4>0
      <4>2. p \in 1..Len(c[s])
        BY <1>2, <1>4, <1>5, <4>1
      <4>3. ~IsMoreCons(order.price, c[s][p].price, s)
        BY <1>5, <4>2
      <4>4. was(m) = p \/ ~IsMoreCons(c[s][p].price, c[s][was(m)].price, s)
        BY <2>1, <4>1, <4>2
      <4>5. c[s][p].price \in Int /\ c[s][was(m)].price \in Int
        BY <1>2, <1>4, <4>1, <4>2
      <4>. QED
        BY <1>2, <3>4, <4>1, <4>3, <4>4, <4>5 DEF IsMoreCons
    <3>. QED
      BY <3>1, <3>2, <3>3, <3>4
  <2>. QED
    BY <2>2 DEF PriceSorted, d
<1>19. Uncrossed'
  <2>1. \A k \in 1..Len(c[o]) : ~Tradeable(order, c[o][k])
    <3>1. c[o] = Opposite
      BY DEF c, o, Opposite
    <3>. QED
      BY <1>1, <3>1, MatchedFacts
  <2>2. \A k \in 1..Len(c[o]) :
          IF s = "Bid" THEN order.price < c[o][k].price ELSE c[o][k].price < order.price
    BY <1>2, <1>4, <2>1 DEF Tradeable, IsMoreCons, s, Side
  <2>3. (s = "Bid" /\ o = "Ask") \/ (s = "Ask" /\ o = "Bid")
    BY <1>2 DEF Side
  <2>4. \A b \in DOMAIN c["Bid"], a \in DOMAIN c["Ask"] : c["Bid"][b].price < c["Ask"][a].price
    BY <1>3 DEF BookShape, Uncrossed, c
  <2>5. ASSUME NEW b \in DOMAIN d["Bid"], NEW a \in DOMAIN d["Ask"]
        PROVE  d["Bid"][b].price < d["Ask"][a].price
    <3>1. CASE s = "Bid" /\ o = "Ask"
      <4>1. d["Ask"] = c["Ask"] /\ a \in 1..Len(c["Ask"])
        BY <1>2, <1>4, <1>7, <2>5, <3>1
      <4>2. CASE b = p
        BY <1>8, <2>2, <3>1, <4>1, <4>2
      <4>3. CASE b # p
        <5>1. was(b) \in DOMAIN c["Bid"] /\ d["Bid"][b] = c["Bid"][was(b)]
          BY <1>2, <1>4, <1>8, <2>5, <3>1, <4>3
        <5>. QED
          BY <1>2, <1>4, <2>4, <3>1, <4>1, <5>1
      <4>. QED
        BY <4>2, <4>3
    <3>2. CASE s = "Ask" /\ o = "Bid"
      <4>1. d["Bid"] = c["Bid"] /\ b \in 1..Len(c["Bid"])
        BY <1>2, <1>4, <1>7, <2>5, <3>2
      <4>2. CASE a = p
        BY <1>8, <2>2, <3>2, <4>1, <4>2
      <4>3. CASE a # p
        <5>1. was(a) \in DOMAIN c["Ask"] /\ d["Ask"][a] = c["Ask"][was(a)]
          BY <1>2, <1>4, <1>8, <2>5, <3>2, <4>3
        <5>. QED
          BY <1>2, <1>4, <2>4, <3>2, <4>1, <5>1
      <4>. QED
        BY <4>2, <4>3
    <3>. QED
      BY <2>3, <3>1, <3>2
  <2>. QED
    BY <2>5 DEF Uncrossed, d
<1>20. WithinArena'
  <2>1. Len(c[s]) <= SIZE /\ Len(c[s]) # SIZE
    BY <1>1, <1>2, <1>3 DEF BookShape, WithinArena, IsFull, c
  <2>2. Len(d[s]) <= SIZE
    BY <1>2, <1>4, <1>8, <2>1, SizeAssumption
  <2>3. \A t \in Side \ {s} : Len(d[t]) <= SIZE
    BY <1>3, <1>7 DEF BookShape, WithinArena, c
  <2>. QED
    BY <2>2, <2>3 DEF WithinArena, d
<1>21. ContainersType'
  <2>1. orderIdsToSide' \in [DOMAIN orderIdsToSide \cup {order.id} -> Side]
    BY <1>1, <1>2, <1>3 DEF ContainersType
  <2>2. DOMAIN orderIdsToSide' \subseteq OrderId
    BY <1>1, <1>2, <1>3 DEF ContainersType
  <2>. QED
    BY <1>1, <1>7, <2>1, <2>2 DEF ContainersType, d
<1>22. pc' = "idle" /\ order' = NoOrder /\ i' = 1 /\ idsToRemove' = <<>> /\ result' = TRUE
       /\ idsToRemove' = idsToRemove
  BY <1>1, MatchedFacts DEF Return
<1>23. CallType'
  <2>1. idsToRemove' \in Seq(OrderId) /\ i' \in Nat \ {0}
    BY <1>22, BookInvParts DEF CallType
  <2>. QED
    BY <1>22, <2>1 DEF CallType
<1>24. EmptyOnlyInFront'
  <2>1. \A t \in Side : \A j \in DOMAIN c[t] : c[t][j].qty # 0
    BY <1>1, MatchedFacts DEF c
  <2>2. ASSUME NEW t \in Side, NEW j \in DOMAIN d[t] PROVE d[t][j].qty # 0
    <3>1. CASE t # s
      BY <1>7, <2>1, <2>2, <3>1
    <3>2. CASE t = s /\ j # p
      BY <1>2, <1>4, <1>8, <2>1, <2>2, <3>2
    <3>3. CASE t = s /\ j = p
      BY <1>1, <1>8, <3>3
    <3>. QED
      BY <3>1, <3>2, <3>3
  <2>. QED
    BY <2>2 DEF EmptyOnlyInFront, d
<1>25. ConsumedIsFront' /\ NoTradeBehindFront'
  BY <1>22 DEF ConsumedIsFront, NoTradeBehindFront
<1>26. BookShape'
  BY <1>15, <1>16, <1>17, <1>18, <1>19, <1>20 DEF BookShape, MapMatchesContainers
<1>. QED
  BY <1>21, <1>23, <1>24, <1>25, <1>26, BookInvParts DEF CallProgress

-----------------------------------------------------------------------------
LEMMA InitEstablishesInv ==
    ASSUME Init
    PROVE  BookInv
<1>1. \A s \in Side : containers[s] = <<>>
  BY DEF Init
<1>2. containers \in [Side -> Seq(Order)]
  BY DEF Init
<1>3. DOMAIN orderIdsToSide = {} /\ orderIdsToSide \in [DOMAIN orderIdsToSide -> Side]
  BY DEF Init
<1>4. ContainersType
  BY <1>2, <1>3 DEF ContainersType
<1>5. \A s \in Side : DOMAIN containers[s] = {} /\ Len(containers[s]) = 0
  BY <1>1
<1>6. "Bid" \in Side
  BY DEF Side
<1>7. BookShape
  BY <1>3, <1>5, <1>6, SizeAssumption
     DEF BookShape, MapMatchesContainers, UniqueIds, ContainersInMap, MapInContainers,
         PriceSorted, Uncrossed, WithinArena
<1>8. CallType
  <2>1. <<>> \in Seq(OrderId)
    BY EmptySeq
  <2>2. idsToRemove \in Seq(OrderId) /\ i \in Nat \ {0}
    BY <2>1 DEF Init
  <2>3. pc = "idle" /\ order = NoOrder /\ result \in BOOLEAN
    BY DEF Init
  <2>. QED
    BY <2>2, <2>3 DEF CallType
<1>9. CallProgress
  BY <1>5 DEF Init, CallProgress, ConsumedIsFront, NoTradeBehindFront, EmptyOnlyInFront
<1>. QED
  BY <1>4, <1>7, <1>8, <1>9, BookInvParts

LEMMA NextKeepsInv ==
    ASSUME BookInv, [Next]_bookVars
    PROVE  BookInv'
<1>1. CASE UNCHANGED bookVars
  <2>1. ContainersType' /\ BookShape'
    BY <1>1, BookInvParts, BookFrame DEF bookVars
  <2>2. CallType'
    BY <1>1, BookInvParts DEF bookVars, CallType
  <2>3. CallProgress'
    BY <1>1, BookInvParts DEF bookVars, CallProgress, ConsumedIsFront, NoTradeBehindFront,
                              EmptyOnlyInFront, Opposite
  <2>. QED
    BY <2>1, <2>2, <2>3, BookInvParts
<1>2. ASSUME NEW o \in AnyOrder, RejectInvalid(o) PROVE BookInv'
  BY <1>2, RejectInvalidKeepsInv
<1>3. ASSUME NEW o \in AnyOrder, StartMatch(o) PROVE BookInv'
  BY <1>3, StartMatchKeepsInv
<1>4. ASSUME NEW id \in OrderId, RemoveOrder(id) PROVE BookInv'
  BY <1>4, RemoveOrderKeepsInv
<1>5. CASE CallStep
  BY <1>5, SkipPassiveKeepsInv, ConsumePassiveKeepsInv, ConsumeAggressorKeepsInv,
     ConsumeBothKeepsInv, EndMatchKeepsInv, PurgeOneKeepsInv, FinishWithoutInsertKeepsInv,
     InsertKeepsInv DEF CallStep, MatchStep
<1>. QED
  BY <1>1, <1>2, <1>3, <1>4, <1>5 DEF Next

(* Every state of the book, between and inside calls of add and remove,     *)
(* satisfies the inductive invariant BookInv.                               *)
THEOREM BookInvariant == Spec => []BookInv
<1>1. Init => BookInv
  BY InitEstablishesInv
<1>2. BookInv /\ [Next]_bookVars => BookInv'
  BY NextKeepsInv
<1>. QED
  BY <1>1, <1>2, PTL DEF Spec

(* Every variable of the book keeps its type, whatever add and remove do.   *)
THEOREM TypeCorrect == Spec => []TypeOK
<1>1. BookInv => TypeOK
  BY DEF BookInv
<1>. QED
  BY <1>1, BookInvariant, PTL

(* m_order_ids_to_side and the two vectors name the same orders, each id    *)
(* once and on its own side: what remove looks up, it finds.                *)
THEOREM MapIsConsistent == Spec => []MapMatchesContainers
<1>1. BookInv => MapMatchesContainers
  BY DEF BookInv
<1>. QED
  BY <1>1, BookInvariant, PTL

(* The best price of each side is at the front of its vector.               *)
THEOREM BestPriceFirst == Spec => []PriceSorted
<1>1. BookInv => PriceSorted
  BY DEF BookInv
<1>. QED
  BY <1>1, BookInvariant, PTL

(* The book is never crossed, not even while the fill callback runs.        *)
THEOREM BookIsUncrossed == Spec => []Uncrossed
<1>1. BookInv => Uncrossed
  BY DEF BookInv
<1>. QED
  BY <1>1, BookInvariant, PTL

(* No side outgrows the SIZE orders its memory arena was made for.          *)
THEOREM ArenaSuffices == Spec => []WithinArena
<1>1. BookInv => WithinArena
  BY DEF BookInv
<1>. QED
  BY <1>1, BookInvariant, PTL

(* An order without quantity is in the book only until its purge.           *)
THEOREM EmptyOrdersArePurged == Spec => []NoEmptyOrders
<1>1. BookInv => NoEmptyOrders
  <2>1. ASSUME BookInv, NEW s \in Side, NEW k \in DOMAIN containers[s], containers[s][k].qty = 0
        PROVE  containers[s][k].id \in ToSet(idsToRemove)
    <3>1. pc = "purge" /\ s = OppSide(order.side) /\ k <= Len(idsToRemove)
      BY <2>1, BookInvParts DEF CallProgress, EmptyOnlyInFront
    <3>2. idsToRemove \in Seq(OrderId) /\ k \in Nat /\ k > 0
      BY <2>1, BookInvParts, ContainerFacts DEF CallType
    <3>3. k \in 1..Len(idsToRemove)
      BY <3>1, <3>2, LenProperties
    <3>4. idsToRemove[k] = containers[s][k].id
      BY <2>1, <3>1, <3>3, BookInvParts DEF CallProgress, ConsumedIsFront, Opposite
    <3>. QED
      BY <3>2, <3>3, <3>4, ToSetOfSeq
  <2>. QED
    BY <2>1 DEF NoEmptyOrders
<1>. QED
  BY <1>1, BookInvariant, PTL

(* Every id that remove and the fill callback are about to be given is a    *)
(* distinct resting order of the opposite side.                             *)
THEOREM PurgeFindsItsOrders == Spec => []PurgedAreResting
<1>1. ASSUME BookInv PROVE PurgedAreResting
  <2>1. CASE idsToRemove = <<>>
    BY <2>1 DEF PurgedAreResting
  <2>2. CASE idsToRemove # <<>>
    <3>1. pc # "idle" /\ order \in Order /\ idsToRemove \in Seq(OrderId)
      BY <1>1, <2>2, BookInvParts DEF CallType, CallProgress, ConsumedIsFront
    <3>2. /\ DOMAIN idsToRemove = 1..Len(idsToRemove)
          /\ \A k \in 1..Len(idsToRemove) : idsToRemove[k] = Opposite[k].id
      BY <1>1, <3>1, LenProperties, BookInvParts DEF CallProgress, ConsumedIsFront
    <3>3. /\ OppSide(order.side) \in Side
          /\ \A k \in 1..Len(idsToRemove) : k \in DOMAIN containers[OppSide(order.side)]
      BY <1>1, <3>1, OppositeFacts, LenProperties, BookInvParts
         DEF CallProgress, ConsumedIsFront, Opposite
    <3>4. BookShape
      BY <1>1, BookInvParts
    <3>. QED
      BY <3>2, <3>3, <3>4
         DEF PurgedAreResting, Opposite, BookShape, MapMatchesContainers, UniqueIds, ContainersInMap
  <2>. QED
    BY <2>1, <2>2
<1>. QED
  BY <1>1, BookInvariant, PTL

(* A call of add consumes the opposite side from its front and leaves       *)
(* behind it nothing that what is left of the order could trade with.       *)
THEOREM MatchingIsExhaustive == Spec => []CallProgress
<1>1. BookInv => CallProgress
  BY DEF BookInv
<1>. QED
  BY <1>1, BookInvariant, PTL

-----------------------------------------------------------------------------
(* How many steps a call of add can still take. *)
LEMMA StepsLeftBounds ==
    ASSUME BookInv
    PROVE  /\ StepsLeft \in 0..(2 * SIZE + 2)
           /\ pc # "idle" => StepsLeft > 0
           /\ pc = "match" => StepsLeft = 2 * (Len(Opposite) + 1 - i) + Len(idsToRemove) + 2
<1> DEFINE l == Len(Opposite)
           n == Len(idsToRemove)
<1>1. pc \in {"idle", "match", "purge"} /\ i \in Nat /\ n \in Nat /\ SIZE \in Nat
  BY SizeAssumption, BookInvParts, LenProperties DEF CallType
<1>2. ASSUME pc # "idle" PROVE l \in Nat /\ l <= SIZE /\ n <= l
  <2>1. ContainersType /\ order \in Order /\ n <= l
    BY <1>2, BookInvParts DEF CallType, CallProgress, ConsumedIsFront
  <2>2. OppSide(order.side) \in Side
    BY <2>1, OppositeFacts
  <2>. QED
    BY <2>1, <2>2, OppositeFacts, BookInvParts DEF BookShape, WithinArena, Opposite
<1>3. CASE pc = "match"
  <2>1. l \in Nat /\ l <= SIZE /\ n < i /\ i <= l + 1
    BY <1>2, <1>3, BookInvParts DEF CallProgress, NoTradeBehindFront
  <2>2. StepsLeft = 2 * (l + 1 - i) + n + 2
    BY <1>3 DEF StepsLeft
  <2> HIDE DEF l, n
  <2>3. 2 * (l + 1 - i) + n + 2 \in 1..(2 * SIZE + 2)
    BY <1>1, <2>1
  <2>. QED
    BY <1>1, <1>3, <2>2, <2>3 DEF l, n
<1>4. CASE pc = "purge"
  <2>1. StepsLeft = n + 1 /\ l \in Nat /\ l <= SIZE /\ n <= l
    BY <1>2, <1>4 DEF StepsLeft
  <2> HIDE DEF l, n
  <2>. QED
    BY <1>1, <1>4, <2>1
<1>5. CASE pc = "idle"
  <2>1. StepsLeft = 0
    BY <1>5 DEF StepsLeft
  <2>. QED
    BY <1>1, <1>5, <2>1
<1>. QED
  BY <1>1, <1>3, <1>4, <1>5

(* A step of the matching loop moves on by one order, or ends the loop.     *)
LEMMA MatchStepShrinks ==
    ASSUME BookInv, MatchStep
    PROVE  StepsLeft' < StepsLeft
<1> DEFINE l == Len(Opposite)
           n == Len(idsToRemove)
<1>1. /\ pc = "match" /\ i \in Nat /\ n \in Nat /\ l \in Nat /\ n < i /\ i <= l + 1
      /\ StepsLeft = 2 * (l + 1 - i) + n + 2 /\ order \in Order
  <2>1. pc = "match"
    BY DEF MatchStep, SkipPassive, ConsumePassive, ConsumeAggressor, ConsumeBoth, EndMatch,
           AtPassive
  <2>. QED
    BY <2>1, StepsLeftBounds, BookInvParts, OppositeFacts, LenProperties
       DEF CallType, CallProgress, NoTradeBehindFront
<1>2. CASE SkipPassive
  <2>1. StepsLeft' = 2 * (l + 1 - (i + 1)) + n + 2
    BY <1>1, <1>2 DEF SkipPassive, StepsLeft, Opposite
  <2> HIDE DEF l, n
  <2>. QED
    BY <1>1, <2>1
<1>3. CASE ConsumePassive
  <2>1. Opposite' = Opposite
    BY <1>1, <1>3 DEF ConsumePassive, Opposite, Order
  <2>2. Len(idsToRemove') = i /\ n = i - 1
    BY <1>3, FrontGrows, TradesAtFront DEF ConsumePassive
  <2>3. StepsLeft' = 2 * (l + 1 - (i + 1)) + i + 2
    BY <1>1, <1>3, <2>1, <2>2 DEF ConsumePassive, StepsLeft
  <2> HIDE DEF l, n
  <2>. QED
    BY <1>1, <2>2, <2>3
<1>4. CASE ConsumeAggressor \/ EndMatch
  <2>1. StepsLeft' = n + 1
    BY <1>4 DEF ConsumeAggressor, EndMatch, StepsLeft
  <2> HIDE DEF l, n
  <2>. QED
    BY <1>1, <2>1
<1>5. CASE ConsumeBoth
  <2>1. Len(idsToRemove') = i /\ n = i - 1 /\ i <= l
    BY <1>5, FrontGrows, TradesAtFront, AtPassiveFacts DEF ConsumeBoth
  <2>2. StepsLeft' = i + 1
    BY <1>5, <2>1 DEF ConsumeBoth, StepsLeft
  <2> HIDE DEF l, n
  <2>. QED
    BY <1>1, <2>1, <2>2
<1>. QED
  BY <1>2, <1>3, <1>4, <1>5 DEF MatchStep

LEMMA CallStepShrinks ==
    ASSUME BookInv, CallStep
    PROVE  StepsLeft' < StepsLeft
<1>1. CASE MatchStep
  BY <1>1, MatchStepShrinks
<1>2. CASE PurgeOne
  <2>1. idsToRemove \in Seq(OrderId) /\ idsToRemove # <<>>
    BY <1>2, BookInvParts DEF PurgeOne, CallType
  <2>2. Len(idsToRemove') = Len(idsToRemove) - 1 /\ Len(idsToRemove) \in Nat
    BY <1>2, <2>1, HeadTailProperties, LenProperties DEF PurgeOne
  <2>3. StepsLeft' = Len(idsToRemove') + 1 /\ StepsLeft = Len(idsToRemove) + 1
    BY <1>2 DEF PurgeOne, StepsLeft
  <2>. QED
    BY <2>2, <2>3
<1>3. CASE FinishWithoutInsert \/ Insert
  <2>1. pc' = "idle" /\ pc = "purge"
    BY <1>3 DEF FinishWithoutInsert, Insert, Return, Matched
  <2>2. StepsLeft' = 0
    BY <2>1 DEF StepsLeft
  <2>3. StepsLeft > 0 /\ StepsLeft \in Int
    BY <2>1, StepsLeftBounds
  <2>. QED
    BY <2>2, <2>3
<1>. QED
  BY <1>1, <1>2, <1>3 DEF CallStep

(* A call of add takes at most 2 * SIZE + 2 steps, each of which leaves     *)
(* fewer: none of its loops can go on for ever.                             *)
THEOREM CallsEnd == Spec => CallsAreBounded
<1>1. BookInv => StepsLeft \in 0..(2 * SIZE + 2)
  BY StepsLeftBounds
<1>2. BookInv /\ [Next]_bookVars => [pc # "idle" => StepsLeft' < StepsLeft]_bookVars
  <2>1. ASSUME BookInv, Next, pc # "idle" PROVE CallStep
    BY <2>1 DEF Next, RejectInvalid, StartMatch, RemoveOrder
  <2>. QED
    BY <2>1, CallStepShrinks
<1>. QED
  BY <1>1, <1>2, BookInvariant, PTL DEF Spec, CallsAreBounded
=============================================================================
