-------------------- MODULE OptionOrderGenerator_proofs --------------------
(***************************************************************************)
(* The generator's list of live orders mirrors the book, its prices stay   *)
(* in their band and its aggressors cross, for every configuration, id     *)
(* modulus and capacity of the book.                                       *)
(***************************************************************************)
EXTENDS OptionOrderGenerator, BookEngine_proofs

LiveOrder == [id : OrderId, side : Side, price : Price]

Band(side) == IF side = "Bid" THEN BidBand ELSE AskBand
InBand(o) == o.price \in Band(o.side)

(* LiveMirrorsBook position by position; no two live orders share an id.    *)
UniqueLive == \A j, k \in 1..Len(live) : live[j].id = live[k].id => j = k
LiveInBook ==
    \A k \in 1..Len(live) : \E s \in Side : \E j \in 1..Len(containers[s]) :
        live[k] = Quote(containers[s][j])
BookInLive ==
    \A s \in Side : \A j \in 1..Len(containers[s]) : \E k \in 1..Len(live) :
        live[k] = Quote(containers[s][j])
SameLength == Len(live) = Len(containers["Bid"]) + Len(containers["Ask"])
Mirror == OwnSide /\ UniqueLive /\ LiveInBook /\ BookInLive /\ SameLength

GenType ==
    /\ live \in Seq(LiveOrder)
    /\ nextId \in OrderId
    /\ batch \in Seq(Order)
    /\ stopRequested \in BOOLEAN /\ exited \in BOOLEAN

(* The orders on their way into the book are priced in the band too.        *)
PendingInBand ==
    /\ pc # "idle" => InBand(order)
    /\ \A k \in 1..Len(batch) : InBand(batch[k])

(* The inductive invariant. *)
GenInv == BookInv /\ GenType /\ Mirror /\ PriceBand /\ PendingInBand

-----------------------------------------------------------------------------
LEMMA QuoteFields ==
    ASSUME NEW o \in Order
    PROVE  /\ Quote(o) \in LiveOrder
           /\ Quote(o).id = o.id /\ Quote(o).side = o.side /\ Quote(o).price = o.price
BY DEF Quote, Order, LiveOrder

LEMMA LiveFacts ==
    ASSUME GenType
    PROVE  /\ Len(live) \in Nat /\ DOMAIN live = 1..Len(live)
           /\ \A k \in 1..Len(live) :
                /\ live[k] \in LiveOrder
                /\ live[k].id \in OrderId /\ live[k].side \in Side /\ live[k].price \in Price
<1>1. /\ Len(live) \in Nat /\ DOMAIN live = 1..Len(live)
      /\ \A k \in 1..Len(live) : live[k] \in LiveOrder
  BY LenProperties, ElementOfSeq DEF GenType
<1>. QED
  BY <1>1 DEF LiveOrder

(* A live order's id is in the book's map, and every resting order is live. *)
LEMMA LiveIsResting ==
    ASSUME GenInv
    PROVE  \A k \in 1..Len(live) : Has(live[k].id)
<1>1. ContainersType /\ BookShape
  BY BookInvParts DEF GenInv
<1>2. SUFFICES ASSUME NEW k \in 1..Len(live) PROVE Has(live[k].id)
  OBVIOUS
<1>3. PICK s \in Side : \E j \in 1..Len(containers[s]) : live[k] = Quote(containers[s][j])
  BY DEF GenInv, Mirror, LiveInBook
<1>4. PICK j \in 1..Len(containers[s]) : live[k] = Quote(containers[s][j])
  BY <1>3
<1>5. containers[s][j] \in Order /\ j \in DOMAIN containers[s]
  BY <1>1, ContainerFacts
<1>6. live[k].id = containers[s][j].id
  BY <1>4, <1>5, QuoteFields
<1>. QED
  BY <1>1, <1>5, <1>6 DEF BookShape, MapMatchesContainers, ContainersInMap

(* The generator finds a live order where it is. *)
LEMMA FindLive ==
    ASSUME GenType, UniqueLive, NEW m \in 1..Len(live)
    PROVE  FindId(live, live[m].id) = m
<1>1. Len(live) \in Nat /\ DOMAIN live = 1..Len(live)
  BY LiveFacts
<1>2. {k \in DOMAIN live : live[k].id = live[m].id} \cup {Len(live) + 1} = {m, Len(live) + 1}
  BY <1>1 DEF UniqueLive
<1>3. {m, Len(live) + 1} \in SUBSET Nat /\ {m, Len(live) + 1} # {}
  BY <1>1
<1>4. /\ Min({m, Len(live) + 1}) \in {m, Len(live) + 1}
      /\ \A y \in {m, Len(live) + 1} : Min({m, Len(live) + 1}) <= y
  BY <1>3, MinOfNats
<1>5. FindId(live, live[m].id) = Min({m, Len(live) + 1})
  BY <1>2 DEF FindId
<1>. QED
  BY <1>1, <1>4, <1>5

-----------------------------------------------------------------------------
(* Each way a step changes the book and the list together.                  *)

LEMMA MirrorFrame ==
    ASSUME Mirror, UNCHANGED <<containers, live>>
    PROVE  Mirror'
<1>1. OwnSide' /\ UniqueLive' /\ SameLength'
  BY DEF Mirror, OwnSide, UniqueLive, SameLength
<1>2. LiveInBook'
  BY DEF Mirror, LiveInBook
<1>3. BookInLive'
  BY DEF Mirror, BookInLive
<1>. QED
  BY <1>1, <1>2, <1>3 DEF Mirror

(* A partial fill changes nothing the generator keeps.                      *)
LEMMA QtyEditKeepsMirror ==
    ASSUME ContainersType, Mirror,
           NEW s \in Side, NEW k \in 1..Len(containers[s]), NEW q \in 0..MaxQty,
           containers' = WithQty(s, k, q), UNCHANGED live
    PROVE  Mirror'
<1> DEFINE c == containers
           d == containers'
<1>1. \A t \in Side : /\ c[t] \in Seq(Order) /\ Len(c[t]) \in Nat /\ DOMAIN c[t] = 1..Len(c[t])
                       /\ \A j \in 1..Len(c[t]) : c[t][j] \in Order
  BY ContainerFacts
<1>2. d = [c EXCEPT ![s] = [c[s] EXCEPT ![k] = [c[s][k] EXCEPT !.qty = q]]]
  BY DEF WithQty
<1>3. d[s] = [c[s] EXCEPT ![k] = [c[s][k] EXCEPT !.qty = q]] /\ \A t \in Side \ {s} : d[t] = c[t]
  BY <1>2 DEF ContainersType
<1>4. [c[s][k] EXCEPT !.qty = q] \in Order
  BY <1>1 DEF Order
<1>5. d[s] \in Seq(Order) /\ Len(d[s]) = Len(c[s])
  <2>1. d[s] \in Seq(Order)
    BY <1>1, <1>3, <1>4, ExceptSeq
  <2>2. DOMAIN d[s] = 1..Len(c[s])
    BY <1>1, <1>3
  <2>. QED
    BY <1>1, <2>1, <2>2, LenProperties
<1>6. \A t \in Side : Len(d[t]) = Len(c[t])
  BY <1>3, <1>5
<1>7. \A t \in Side : \A j \in 1..Len(c[t]) :
        d[t][j].side = c[t][j].side /\ Quote(d[t][j]) = Quote(c[t][j])
  <2>1. SUFFICES ASSUME NEW t \in Side, NEW j \in 1..Len(c[t])
                 PROVE  d[t][j].side = c[t][j].side /\ Quote(d[t][j]) = Quote(c[t][j])
    OBVIOUS
  <2>2. CASE t = s /\ j = k
    <3>1. d[t][j] = [c[s][k] EXCEPT !.qty = q]
      BY <1>1, <1>3, <2>2
    <3>2. c[s][k] \in Order
      BY <1>1
    <3>3. /\ d[t][j].id = c[t][j].id /\ d[t][j].side = c[t][j].side
          /\ d[t][j].price = c[t][j].price
      BY <2>2, <3>1, <3>2 DEF Order
    <3>. QED
      BY <3>3 DEF Quote
  <2>3. CASE ~(t = s /\ j = k)
    BY <1>1, <1>3, <2>3
  <2>. QED
    BY <2>2, <2>3
<1> HIDE DEF d
<1>8. OwnSide'
  BY <1>6, <1>7 DEF Mirror, OwnSide, d
<1>9. UniqueLive'
  BY DEF Mirror, UniqueLive
<1>10. LiveInBook'
  <2>1. ASSUME NEW x \in 1..Len(live)
        PROVE  \E t \in Side : \E j \in 1..Len(d[t]) : live[x] = Quote(d[t][j])
    <3>1. PICK t \in Side : \E j \in 1..Len(c[t]) : live[x] = Quote(c[t][j])
      BY DEF Mirror, LiveInBook
    <3>. QED
      BY <1>6, <1>7, <3>1
  <2>. QED
    BY <2>1 DEF LiveInBook, d
<1>11. BookInLive'
  <2>1. ASSUME NEW t \in Side, NEW j \in 1..Len(d[t])
        PROVE  \E x \in 1..Len(live) : live[x] = Quote(d[t][j])
    BY <1>6, <1>7 DEF Mirror, BookInLive
  <2>. QED
    BY <2>1 DEF BookInLive, d
<1>12. SameLength'
  BY <1>6 DEF Mirror, SameLength, Side, d
<1>. QED
  BY <1>8, <1>9, <1>10, <1>11, <1>12 DEF Mirror

(* Where the list of live orders has the order of a position of a container. *)
LEMMA LivePosition ==
    ASSUME ContainersType, Mirror, NEW s \in Side, NEW k \in 1..Len(containers[s])
    PROVE  \E m \in 1..Len(live) : live[m] = Quote(containers[s][k]) /\ live[m].id = containers[s][k].id
<1>1. PICK m \in 1..Len(live) : live[m] = Quote(containers[s][k])
  BY DEF Mirror, BookInLive
<1>2. containers[s][k] \in Order
  BY ContainerFacts
<1>. QED
  BY <1>1, <1>2, QuoteFields

(* An order that leaves the book leaves the list.                           *)
LEMMA EraseKeepsMirror ==
    ASSUME ContainersType, BookShape, GenType, Mirror,
           NEW id, Has(id), Erase(id), Untrack(id)
    PROVE  /\ Mirror' /\ live' \in Seq(LiveOrder)
           /\ \A a \in 1..Len(live') : \E x \in 1..Len(live) : live'[a] = live[x]
<1> DEFINE s == orderIdsToSide[id]
           c == containers
           d == containers'
<1>1. PICK k \in 1..Len(c[s]) :
        /\ s \in Side /\ c[s][k].id = id
        /\ Len(d[s]) = Len(c[s]) - 1
        /\ \A j \in 1..(Len(c[s]) - 1) : d[s][j] = IF j < k THEN c[s][j] ELSE c[s][j + 1]
        /\ \A t \in Side \ {s} : d[t] = c[t]
  BY EraseEffect
<1>2. \A t \in Side : /\ Len(c[t]) \in Nat /\ DOMAIN c[t] = 1..Len(c[t])
                       /\ \A j \in 1..Len(c[t]) : c[t][j] \in Order
  BY ContainerFacts
<1>3. PICK m \in 1..Len(live) : live[m] = Quote(c[s][k]) /\ live[m].id = id
  BY <1>1, LivePosition
<1>4. /\ Len(live) \in Nat /\ DOMAIN live = 1..Len(live) /\ live \in Seq(LiveOrder)
      /\ \A x, y \in 1..Len(live) : live[x].id = live[y].id => x = y
  BY LiveFacts DEF GenType, Mirror, UniqueLive
<1>5. live' = RemoveAt(live, m)
  <2>1. FindId(live, id) = m
    BY <1>3, FindLive DEF Mirror
  <2>. QED
    BY <1>4, <2>1 DEF Untrack
<1>6. /\ live' \in Seq(LiveOrder) /\ Len(live') = Len(live) - 1
      /\ \A a \in 1..(Len(live) - 1) : live'[a] = IF a < m THEN live[a] ELSE live[a + 1]
  BY <1>4, <1>5, RemoveAtProperties
<1>7. (* what is elsewhere in the book has another id *)
      \A t \in Side : \A j \in 1..Len(c[t]) : c[t][j].id = id => t = s /\ j = k
  BY <1>1, <1>2 DEF BookShape, MapMatchesContainers, UniqueIds, ContainersInMap
<1> HIDE DEF s, c, d
<1> DEFINE old(a) == IF a < m THEN a ELSE a + 1
           new(x) == IF x < m THEN x ELSE x - 1
           src(t, j) == IF t # s \/ j < k THEN j ELSE j + 1
           dst(t, j) == IF t # s \/ j < k THEN j ELSE j - 1
<1>8. \A a \in 1..Len(live') : old(a) \in 1..Len(live) /\ old(a) # m /\ live'[a] = live[old(a)]
  BY <1>4, <1>6
<1>9. \A x \in 1..Len(live) : x # m => new(x) \in 1..Len(live') /\ live'[new(x)] = live[x]
  BY <1>4, <1>6
<1>10. \A t \in Side : \A j \in 1..Len(d[t]) :
         src(t, j) \in 1..Len(c[t]) /\ ~(t = s /\ src(t, j) = k) /\ d[t][j] = c[t][src(t, j)]
  <2>1. SUFFICES ASSUME NEW t \in Side, NEW j \in 1..Len(d[t])
                 PROVE  /\ src(t, j) \in 1..Len(c[t]) /\ ~(t = s /\ src(t, j) = k)
                        /\ d[t][j] = c[t][src(t, j)]
    OBVIOUS
  <2>2. CASE t # s
    BY <1>1, <2>2
  <2>3. CASE t = s
    <3>1. /\ Len(c[s]) \in Nat /\ k \in 1..Len(c[s]) /\ j \in 1..(Len(c[s]) - 1)
          /\ d[s][j] = IF j < k THEN c[s][j] ELSE c[s][j + 1]
      BY <1>1, <1>2, <2>3
    <3>2. CASE j < k
      BY <2>3, <3>1, <3>2
    <3>3. CASE ~(j < k)
      BY <2>3, <3>1, <3>3
    <3>. QED
      BY <3>2, <3>3
  <2>. QED
    BY <2>2, <2>3
<1>11. \A t \in Side : \A j \in 1..Len(c[t]) :
         ~(t = s /\ j = k) => dst(t, j) \in 1..Len(d[t]) /\ d[t][dst(t, j)] = c[t][j]
  <2>1. SUFFICES ASSUME NEW t \in Side, NEW j \in 1..Len(c[t]), ~(t = s /\ j = k)
                 PROVE  dst(t, j) \in 1..Len(d[t]) /\ d[t][dst(t, j)] = c[t][j]
    OBVIOUS
  <2>2. CASE t # s
    BY <1>1, <2>2
  <2>3. CASE t = s
    BY <1>1, <1>2, <2>1, <2>3
  <2>. QED
    BY <2>2, <2>3
<1> HIDE DEF old, new, src, dst
<1>12. OwnSide'
  <2>1. \A t \in Side : \A j \in 1..Len(c[t]) : c[t][j].side = t
    BY DEF Mirror, OwnSide, c
  <2>2. \A t \in Side : \A j \in 1..Len(d[t]) : d[t][j].side = t
    BY <1>10, <2>1
  <2>. QED
    BY <2>2 DEF OwnSide, d
<1>13. UniqueLive'
  <2>1. SUFFICES ASSUME NEW a \in 1..Len(live'), NEW b \in 1..Len(live'), live'[a].id = live'[b].id
                 PROVE  a = b
    BY DEF UniqueLive
  <2>2. old(a) = old(b)
    BY <1>4, <1>8, <2>1
  <2>. QED
    BY <1>4, <1>6, <2>2 DEF old
<1>14. LiveInBook'
  <2>1. ASSUME NEW a \in 1..Len(live')
        PROVE  \E t \in Side : \E j \in 1..Len(d[t]) : live'[a] = Quote(d[t][j])
    <3>1. PICK t \in Side : \E j \in 1..Len(c[t]) : live[old(a)] = Quote(c[t][j])
      BY <1>8 DEF Mirror, LiveInBook, c
    <3>2. PICK j \in 1..Len(c[t]) : live[old(a)] = Quote(c[t][j])
      BY <3>1
    <3>3. ~(t = s /\ j = k)
      <4>1. live[old(a)].id # id
        BY <1>3, <1>4, <1>8
      <4>2. live[old(a)].id = c[t][j].id
        BY <1>2, <3>2, QuoteFields
      <4>. QED
        BY <1>1, <4>1, <4>2
    <3>4. dst(t, j) \in 1..Len(d[t]) /\ Quote(d[t][dst(t, j)]) = live'[a]
      BY <1>8, <1>11, <3>2, <3>3
    <3>. QED
      BY <3>4
  <2>. QED
    BY <2>1 DEF LiveInBook, d
<1>15. BookInLive'
  <2>1. ASSUME NEW t \in Side, NEW j \in 1..Len(d[t])
        PROVE  \E a \in 1..Len(live') : live'[a] = Quote(d[t][j])
    <3>1. /\ src(t, j) \in 1..Len(c[t]) /\ d[t][j] = c[t][src(t, j)]
          /\ c[t][src(t, j)].id # id
      BY <1>7, <1>10
    <3>2. PICK x \in 1..Len(live) : live[x] = Quote(d[t][j]) /\ live[x].id = c[t][src(t, j)].id
      BY <3>1, LivePosition DEF c
    <3>3. x # m
      BY <1>3, <3>1, <3>2
    <3>4. new(x) \in 1..Len(live') /\ live'[new(x)] = Quote(d[t][j])
      BY <1>9, <3>2, <3>3
    <3>. QED
      BY <3>4
  <2>. QED
    BY <2>1 DEF BookInLive, d
<1>16. SameLength'
  <2>1. Len(live) = Len(c["Bid"]) + Len(c["Ask"]) /\ "Bid" \in Side /\ "Ask" \in Side
    BY DEF Mirror, SameLength, Side, c
  <2>2. Len(live') = Len(d["Bid"]) + Len(d["Ask"])
    <3>a. Len(c["Bid"]) \in Nat /\ Len(c["Ask"]) \in Nat
      BY <1>2, <2>1
    <3>1. CASE s = "Bid"
      <4>1. Len(d["Bid"]) = Len(c["Bid"]) - 1
        BY <1>1, <3>1
      <4>2. "Ask" \in Side \ {s}
        BY <2>1, <3>1
      <4>3. Len(d["Ask"]) = Len(c["Ask"])
        BY <1>1, <4>2
      <4>. QED
        BY <1>6, <2>1, <3>a, <4>1, <4>3
    <3>2. CASE s = "Ask"
      <4>1. Len(d["Ask"]) = Len(c["Ask"]) - 1
        BY <1>1, <3>2
      <4>2. "Bid" \in Side \ {s}
        BY <2>1, <3>2
      <4>3. Len(d["Bid"]) = Len(c["Bid"])
        BY <1>1, <4>2
      <4>. QED
        BY <1>6, <2>1, <3>a, <4>1, <4>3
    <3>. QED
      BY <1>1, <3>1, <3>2 DEF Side
  <2>. QED
    BY <2>2 DEF SameLength, d
<1>. QED
  BY <1>6, <1>8, <1>12, <1>13, <1>14, <1>15, <1>16 DEF Mirror

(* An order that comes to rest joins the list.                              *)
LEMMA InsertKeepsMirror ==
    ASSUME ContainersType, BookShape, GenType, Mirror, order \in Order, Insert, Track(order)
    PROVE  /\ Mirror' /\ live' \in Seq(LiveOrder)
           /\ \A a \in 1..Len(live') : live'[a] = Quote(order) \/ \E x \in 1..Len(live) : live'[a] = live[x]
<1> DEFINE s == order.side
           c == containers
           d == containers'
           p == InsertPos(containers[order.side], order)
           n == Len(live) + 1
<1>1. s \in Side /\ ~Has(order.id) /\ Quote(order) \in LiveOrder /\ Quote(order).id = order.id
  BY OrderFields, QuoteFields DEF Insert
<1>2. \A t \in Side : /\ c[t] \in Seq(Order) /\ Len(c[t]) \in Nat /\ DOMAIN c[t] = 1..Len(c[t])
                       /\ \A j \in 1..Len(c[t]) : c[t][j] \in Order
  BY ContainerFacts
<1>3. p \in 1..(Len(c[s]) + 1)
  BY InsertPosFacts
<1>4. d = [c EXCEPT ![s] = InsertAt(c[s], p, order)]
  BY DEF Insert
<1>5. /\ \A t \in Side \ {s} : d[t] = c[t]
      /\ d[s] = InsertAt(c[s], p, order)
  BY <1>1, <1>4 DEF ContainersType
<1> HIDE DEF s, c, d, p, n
<1>6. /\ Len(d[s]) = Len(c[s]) + 1
      /\ \A j \in 1..(Len(c[s]) + 1) :
            d[s][j] = IF j < p THEN c[s][j] ELSE IF j = p THEN order ELSE c[s][j - 1]
  <2> DEFINE seq == c[s]
  <2>1. seq \in Seq(Order) /\ p \in 1..(Len(seq) + 1) /\ order \in Order
    BY <1>1, <1>2, <1>3
  <2> HIDE DEF seq
  <2>2. /\ Len(InsertAt(seq, p, order)) = Len(seq) + 1
        /\ \A j \in 1..(Len(seq) + 1) :
              InsertAt(seq, p, order)[j] =
                  IF j < p THEN seq[j] ELSE IF j = p THEN order ELSE seq[j - 1]
    <3>1. Len(InsertAt(seq, p, order)) = Len(seq) + 1
      BY <2>1, InsertAtProperties
    <3>2. ASSUME NEW j \in 1..(Len(seq) + 1)
          PROVE  InsertAt(seq, p, order)[j] =
                     IF j < p THEN seq[j] ELSE IF j = p THEN order ELSE seq[j - 1]
      BY <2>1, InsertAtProperties
    <3>. QED
      BY <3>1, <3>2
  <2>. QED
    BY <1>5, <2>2 DEF seq
<1>7. /\ Len(live) \in Nat /\ live \in Seq(LiveOrder)
      /\ \A x, y \in 1..Len(live) : live[x].id = live[y].id => x = y
  BY LiveFacts DEF GenType, Mirror, UniqueLive
<1>8. /\ live' \in Seq(LiveOrder) /\ Len(live') = n /\ n \in 1..Len(live') /\ live'[n] = Quote(order)
      /\ \A x \in 1..Len(live) : x \in 1..Len(live') /\ live'[x] = live[x]
  BY <1>1, <1>7, AppendProperties DEF Track, n
<1>9. \A x \in 1..Len(live') : x = n \/ x \in 1..Len(live)
  BY <1>7, <1>8 DEF n
<1> HIDE DEF n
<1>10. \A x \in 1..Len(live) : live[x].id # order.id
  <2>1. SUFFICES ASSUME NEW x \in 1..Len(live) PROVE Has(live[x].id)
    BY <1>1
  <2>2. PICK t \in Side : \E j \in 1..Len(c[t]) : live[x] = Quote(c[t][j])
    BY DEF Mirror, LiveInBook, c
  <2>3. PICK j \in 1..Len(c[t]) : live[x] = Quote(c[t][j])
    BY <2>2
  <2>4. live[x].id = c[t][j].id /\ j \in DOMAIN c[t]
    BY <1>2, <2>3, QuoteFields
  <2>. QED
    BY <2>4 DEF BookShape, MapMatchesContainers, ContainersInMap, c
<1> DEFINE src(t, j) == IF t # s \/ j < p THEN j ELSE j - 1
           dst(t, j) == IF t # s \/ j < p THEN j ELSE j + 1
<1>11. \A t \in Side : \A j \in 1..Len(d[t]) :
         \/ t = s /\ j = p /\ d[t][j] = order
         \/ src(t, j) \in 1..Len(c[t]) /\ d[t][j] = c[t][src(t, j)]
  <2>1. SUFFICES ASSUME NEW t \in Side, NEW j \in 1..Len(d[t])
                 PROVE  \/ t = s /\ j = p /\ d[t][j] = order
                        \/ src(t, j) \in 1..Len(c[t]) /\ d[t][j] = c[t][src(t, j)]
    OBVIOUS
  <2>2. CASE t # s
    BY <1>5, <2>2
  <2>3. CASE t = s
    <3>1. /\ Len(c[s]) \in Nat /\ p \in 1..(Len(c[s]) + 1) /\ j \in 1..(Len(c[s]) + 1)
          /\ d[s][j] = IF j < p THEN c[s][j] ELSE IF j = p THEN order ELSE c[s][j - 1]
      BY <1>2, <1>3, <1>6, <2>3
    <3>2. CASE j < p
      BY <2>3, <3>1, <3>2
    <3>3. CASE j = p
      BY <2>3, <3>1, <3>3
    <3>4. CASE ~(j < p) /\ j # p
      BY <2>3, <3>1, <3>4
    <3>. QED
      BY <3>2, <3>3, <3>4
  <2>. QED
    BY <2>2, <2>3
<1>12. \A t \in Side : \A j \in 1..Len(c[t]) : dst(t, j) \in 1..Len(d[t]) /\ d[t][dst(t, j)] = c[t][j]
  <2>1. SUFFICES ASSUME NEW t \in Side, NEW j \in 1..Len(c[t])
                 PROVE  dst(t, j) \in 1..Len(d[t]) /\ d[t][dst(t, j)] = c[t][j]
    OBVIOUS
  <2>2. CASE t # s
    BY <1>5, <2>2
  <2>3. CASE t = s
    <3>1. /\ Len(c[s]) \in Nat /\ p \in 1..(Len(c[s]) + 1) /\ j \in 1..Len(c[s])
          /\ Len(d[s]) = Len(c[s]) + 1
      BY <1>2, <1>3, <1>6, <2>3
    <3>2. CASE j < p
      BY <1>6, <2>3, <3>1, <3>2
    <3>3. CASE ~(j < p)
      <4>1. j + 1 \in 1..(Len(c[s]) + 1) /\ ~(j + 1 < p) /\ j + 1 # p /\ (j + 1) - 1 = j
        BY <3>1, <3>3
      <4>2. d[s][j + 1] = c[s][j]
        BY <1>6, <4>1
      <4>. QED
        BY <2>3, <3>1, <3>3, <4>1, <4>2
    <3>. QED
      BY <3>2, <3>3
  <2>. QED
    BY <2>2, <2>3
<1>13. p \in 1..Len(d[s]) /\ d[s][p] = order
  BY <1>2, <1>1, <1>3, <1>6
<1> HIDE DEF src, dst
<1>14. OwnSide'
  <2>1. \A t \in Side : \A j \in 1..Len(c[t]) : c[t][j].side = t
    BY DEF Mirror, OwnSide, c
  <2>2. \A t \in Side : \A j \in 1..Len(d[t]) : d[t][j].side = t
    BY <1>11, <2>1 DEF s
  <2>. QED
    BY <2>2 DEF OwnSide, d
<1>15. UniqueLive'
  <2>1. SUFFICES ASSUME NEW a \in 1..Len(live'), NEW b \in 1..Len(live'), live'[a].id = live'[b].id
                 PROVE  a = b
    BY DEF UniqueLive
  <2>. QED
    BY <1>1, <1>7, <1>8, <1>9, <1>10, <2>1
<1>16. LiveInBook'
  <2>1. ASSUME NEW a \in 1..Len(live')
        PROVE  \E t \in Side : \E j \in 1..Len(d[t]) : live'[a] = Quote(d[t][j])
    <3>1. CASE a = n
      BY <1>1, <1>8, <1>13, <3>1
    <3>2. CASE a \in 1..Len(live)
      <4>1. PICK t \in Side : \E j \in 1..Len(c[t]) : live[a] = Quote(c[t][j])
        BY <3>2 DEF Mirror, LiveInBook, c
      <4>2. PICK j \in 1..Len(c[t]) : live[a] = Quote(c[t][j])
        BY <4>1
      <4>3. dst(t, j) \in 1..Len(d[t]) /\ live'[a] = Quote(d[t][dst(t, j)])
        BY <1>8, <1>12, <3>2, <4>2
      <4>. QED
        BY <4>3
    <3>. QED
      BY <1>9, <3>1, <3>2
  <2>. QED
    BY <2>1 DEF LiveInBook, d
<1>17. BookInLive'
  <2>1. ASSUME NEW t \in Side, NEW j \in 1..Len(d[t])
        PROVE  \E a \in 1..Len(live') : live'[a] = Quote(d[t][j])
    <3>1. CASE d[t][j] = order
      BY <1>8, <3>1
    <3>2. CASE src(t, j) \in 1..Len(c[t]) /\ d[t][j] = c[t][src(t, j)]
      <4>1. PICK x \in 1..Len(live) : live[x] = Quote(d[t][j])
        BY <3>2 DEF Mirror, BookInLive, c
      <4>. QED
        BY <1>8, <4>1
    <3>. QED
      BY <1>11, <3>1, <3>2
  <2>. QED
    BY <2>1 DEF BookInLive, d
<1>18. SameLength'
  <2>1. /\ Len(live) = Len(c["Bid"]) + Len(c["Ask"]) /\ "Bid" \in Side /\ "Ask" \in Side
        /\ Len(c["Bid"]) \in Nat /\ Len(c["Ask"]) \in Nat
    BY <1>2 DEF Mirror, SameLength, Side, c
  <2>2. Len(live') = Len(live) + 1
    BY <1>8 DEF n
  <2>3. \A t \in Side \ {s} : Len(d[t]) = Len(c[t])
    BY <1>5
  <2> DEFINE cb == Len(c["Bid"])
             ca == Len(c["Ask"])
             db == Len(d["Bid"])
             da == Len(d["Ask"])
  <2>4. \/ db = cb + 1 /\ da = ca
        \/ db = cb /\ da = ca + 1
    <3>1. CASE s = "Bid"
      <4>1. "Ask" \in Side \ {s}
        BY <2>1, <3>1
      <4>. QED
        BY <1>6, <2>3, <3>1, <4>1
    <3>2. CASE s = "Ask"
      <4>1. "Bid" \in Side \ {s}
        BY <2>1, <3>2
      <4>. QED
        BY <1>6, <2>3, <3>2, <4>1
    <3>. QED
      BY <1>1, <3>1, <3>2 DEF Side
  <2>5. cb \in Nat /\ ca \in Nat /\ Len(live') = (cb + ca) + 1
    BY <2>1, <2>2
  <2> HIDE DEF cb, ca, db, da
  <2>6. Len(live') = db + da
    BY <2>4, <2>5
  <2>. QED
    BY <2>6 DEF SameLength, d, db, da
<1>19. \A a \in 1..Len(live') : live'[a] = Quote(order) \/ \E x \in 1..Len(live) : live'[a] = live[x]
  BY <1>8, <1>9
<1>. QED
  BY <1>8, <1>14, <1>15, <1>16, <1>17, <1>18, <1>19 DEF Mirror

(* The id at the head of the purge is in the book.                          *)
LEMMA PurgedHas ==
    ASSUME BookInv, pc = "purge", idsToRemove # <<>>
    PROVE  Has(Head(idsToRemove))
<1>1. order \in Order /\ idsToRemove \in Seq(OrderId)
  BY BookInvParts DEF CallType
<1>2. /\ OppSide(order.side) \in Side /\ Len(Opposite) \in Nat
      /\ DOMAIN Opposite = 1..Len(Opposite)
  BY <1>1, BookInvParts, OppositeFacts
<1>3. Len(idsToRemove) \in Nat /\ Len(idsToRemove) > 0 /\ Head(idsToRemove) = idsToRemove[1]
  BY <1>1, HeadTailProperties, EmptySeq, LenProperties
<1>4. /\ Len(idsToRemove) <= Len(Opposite)
      /\ \A k \in 1..Len(idsToRemove) : idsToRemove[k] = Opposite[k].id
  BY BookInvParts DEF CallProgress, ConsumedIsFront
<1>5. 1 \in 1..Len(idsToRemove) /\ 1 \in DOMAIN Opposite
  BY <1>2, <1>3, <1>4
<1>6. Opposite[1].id = Head(idsToRemove)
  BY <1>3, <1>4, <1>5
<1>. QED
  BY <1>2, <1>5, <1>6, BookInvParts
     DEF BookShape, MapMatchesContainers, ContainersInMap, Opposite

LEMMA GenInvParts ==
    ASSUME GenInv
    PROVE  /\ BookInv /\ ContainersType /\ BookShape /\ CallType
           /\ GenType /\ Mirror /\ PriceBand /\ PendingInBand
           /\ \A k \in 1..Len(live) : InBand(live[k])
<1>1. \A k \in 1..Len(live) : InBand(live[k])
  BY LiveFacts DEF GenInv, PriceBand, InBand, Band
<1>. QED
  BY <1>1, BookInvParts DEF GenInv

(* The list keeps the band when it only loses orders or gains one in the band. *)
LEMMA BandKept ==
    ASSUME GenInv, live' \in Seq(LiveOrder),
           \A a \in 1..Len(live') :
               \/ \E x \in 1..Len(live) : live'[a] = live[x]
               \/ InBand(live'[a])
    PROVE  PriceBand'
<1>1. \A a \in 1..Len(live') : InBand(live'[a])
  BY GenInvParts
<1>2. DOMAIN live' = 1..Len(live')
  BY LenProperties
<1>. QED
  BY <1>1, <1>2 DEF PriceBand, InBand, Band

LEMMA ListFrame ==
    ASSUME GenInv, UNCHANGED live
    PROVE  live' \in Seq(LiveOrder) /\ PriceBand'
BY DEF GenInv, GenType, PriceBand

(* Ids wrap within the id type.                                             *)
LEMMA IdWraps ==
    ASSUME nextId \in OrderId, NEW n \in Nat
    PROVE  (nextId + n) % IdModulus \in OrderId
<1>1. nextId + n \in Int /\ IdModulus \in Int /\ IdModulus > 0
  BY IdAssumption
<1>2. (nextId + n) % IdModulus \in 0..(IdModulus - 1)
  BY <1>1
<1>. QED
  BY <1>2, IdAssumption

LEMMA MadeOrder ==
    ASSUME nextId \in OrderId, NEW n \in Nat, NEW side \in Side, NEW price \in Band(side),
           NEW qty \in 0..MaxQty
    PROVE  /\ MakeOrder(n, side, price, qty) \in Order
           /\ InBand(MakeOrder(n, side, price, qty))
           /\ MakeOrder(n, side, price, qty).price = price
           /\ MakeOrder(n, side, price, qty).side = side
<1>1. (nextId + n) % IdModulus \in OrderId
  BY IdWraps
<1>2. price \in Price
  BY ConfigAssumption DEF Band
<1>. QED
  BY <1>1, <1>2 DEF MakeOrder, Order, InBand

-----------------------------------------------------------------------------
(* What the generator's own list says of the book.                          *)

(* The front of a container has the best price of the live orders of its side. *)
LEMMA FrontIsBest ==
    ASSUME GenInv, NEW s \in Side
    PROVE  /\ LivePrices(s) \subseteq Band(s)
           /\ containers[s] = <<>> => LivePrices(s) = {}
           /\ containers[s] # <<>> =>
                /\ containers[s][1].price \in LivePrices(s)
                /\ \A y \in LivePrices(s) : ~IsMoreCons(containers[s][1].price, y, s)
<1> DEFINE c == containers
<1>1. /\ c[s] \in Seq(Order) /\ Len(c[s]) \in Nat /\ DOMAIN c[s] = 1..Len(c[s])
      /\ \A j \in 1..Len(c[s]) : c[s][j] \in Order
  BY GenInvParts, ContainerFacts
<1>2. /\ DOMAIN live = 1..Len(live)
      /\ \A k \in 1..Len(live) : live[k] \in LiveOrder
  BY GenInvParts, LiveFacts
<1>3. \A y : y \in LivePrices(s) <=> \E k \in 1..Len(live) : live[k].side = s /\ live[k].price = y
  BY <1>2 DEF LivePrices
<1>4. LivePrices(s) \subseteq Band(s)
  BY <1>3, GenInvParts DEF InBand
<1>5. ASSUME NEW y \in LivePrices(s) PROVE \E j \in 1..Len(c[s]) : c[s][j].price = y
  <2>1. PICK k \in 1..Len(live) : live[k].side = s /\ live[k].price = y
    BY <1>3
  <2>2. PICK t \in Side : \E j \in 1..Len(c[t]) : live[k] = Quote(c[t][j])
    BY GenInvParts DEF Mirror, LiveInBook
  <2>3. PICK j \in 1..Len(c[t]) : live[k] = Quote(c[t][j])
    BY <2>2
  <2>4. c[t][j] \in Order /\ c[t][j].side = t
    BY GenInvParts, ContainerFacts DEF Mirror, OwnSide
  <2>5. t = s /\ c[t][j].price = y
    BY <2>1, <2>3, <2>4, QuoteFields
  <2>. QED
    BY <2>5
<1>6. c[s] = <<>> => LivePrices(s) = {}
  BY <1>1, <1>5
<1>7. ASSUME c[s] # <<>>
      PROVE  /\ c[s][1].price \in LivePrices(s)
             /\ \A y \in LivePrices(s) : ~IsMoreCons(c[s][1].price, y, s)
  <2>1. 1 \in 1..Len(c[s])
    BY <1>1, <1>7, EmptySeq
  <2>2. PICK k \in 1..Len(live) : live[k] = Quote(c[s][1])
    BY <2>1, GenInvParts DEF Mirror, BookInLive
  <2>3. c[s][1] \in Order /\ c[s][1].side = s
    BY <1>1, <2>1, GenInvParts DEF Mirror, OwnSide
  <2>4. live[k].side = s /\ live[k].price = c[s][1].price
    BY <2>2, <2>3, QuoteFields
  <2>5. \A j \in 1..Len(c[s]) : ~IsMoreCons(c[s][1].price, c[s][j].price, s)
    <3>1. ~IsMoreCons(c[s][1].price, c[s][1].price, s)
      BY <2>3, OrderFields DEF IsMoreCons
    <3>2. \A j \in 1..Len(c[s]) : j # 1 => ~IsMoreCons(c[s][1].price, c[s][j].price, s)
      BY <1>1, <2>1, GenInvParts DEF BookShape, PriceSorted
    <3>. QED
      BY <3>1, <3>2
  <2>. QED
    BY <1>3, <1>5, <2>4, <2>5
<1>. QED
  BY <1>4, <1>6, <1>7

LEMMA BandFacts ==
    /\ BidBand \subseteq Int /\ AskBand \subseteq Int
    /\ MidPrice \in Int /\ SpreadHalfWidth \in Nat /\ SpreadHalfWidth > 0 /\ AggressorOffset \in Nat
BY ConfigAssumption DEF BidBand, AskBand

LEMMA BestBidIsFront ==
    ASSUME GenInv
    PROVE  /\ BestBid \in BidBand
           /\ containers["Bid"] # <<>> => BestBid = containers["Bid"][1].price
<1> DEFINE T == LivePrices("Bid")
           f == containers["Bid"][1].price
<1>1. /\ T \subseteq BidBand /\ T \subseteq Int
      /\ containers["Bid"] = <<>> => T = {}
      /\ containers["Bid"] # <<>> => f \in T /\ \A y \in T : ~(f < y)
  <2>1. "Bid" \in Side
    BY DEF Side
  <2>. QED
    BY <2>1, FrontIsBest, BandFacts DEF Band, IsMoreCons
<1> HIDE DEF T, f
<1>2. CASE T = {}
  <2>1. BestBid = MidPrice - SpreadHalfWidth
    BY <1>2 DEF BestBid, T
  <2>. QED
    BY <1>1, <1>2, <2>1, BandFacts DEF BidBand
<1>3. CASE T # {}
  <2>1. f \in T /\ f \in Int /\ \A y \in T : f >= y
    <3>1. f \in T /\ \A y \in T : ~(f < y)
      BY <1>1, <1>3
    <3>2. \A y \in T : y \in Int
      BY <1>1
    <3>. QED
      BY <3>1, <3>2
  <2>2. Max(T) \in T /\ \A y \in T : Max(T) >= y
    BY <2>1 DEF Max
  <2>3. Max(T) = f
    <3>1. Max(T) \in Int /\ Max(T) >= f /\ f >= Max(T)
      BY <1>1, <2>1, <2>2
    <3>. QED
      BY <2>1, <3>1
  <2>4. BestBid = f
    BY <1>3, <2>3 DEF BestBid, T
  <2>. QED
    BY <1>1, <2>1, <2>4 DEF f
<1>. QED
  BY <1>2, <1>3

LEMMA BestAskIsFront ==
    ASSUME GenInv
    PROVE  /\ BestAsk \in AskBand
           /\ containers["Ask"] # <<>> => BestAsk = containers["Ask"][1].price
<1> DEFINE T == LivePrices("Ask")
           f == containers["Ask"][1].price
<1>1. /\ T \subseteq AskBand /\ T \subseteq Int
      /\ containers["Ask"] = <<>> => T = {}
      /\ containers["Ask"] # <<>> => f \in T /\ \A y \in T : ~(f > y)
  <2>1. "Ask" \in Side /\ "Ask" # "Bid"
    BY DEF Side
  <2>. QED
    BY <2>1, FrontIsBest, BandFacts DEF Band, IsMoreCons
<1> HIDE DEF T, f
<1>2. CASE T = {}
  <2>1. BestAsk = MidPrice + SpreadHalfWidth
    BY <1>2 DEF BestAsk, T
  <2>. QED
    BY <1>1, <1>2, <2>1, BandFacts DEF AskBand
<1>3. CASE T # {}
  <2>1. f \in T /\ f \in Int /\ \A y \in T : f <= y
    <3>1. f \in T /\ \A y \in T : ~(f > y)
      BY <1>1, <1>3
    <3>2. \A y \in T : y \in Int
      BY <1>1
    <3>. QED
      BY <3>1, <3>2
  <2>2. Min(T) \in T /\ \A y \in T : Min(T) <= y
    BY <2>1 DEF Min
  <2>3. Min(T) = f
    <3>1. Min(T) \in Int /\ Min(T) <= f /\ f <= Min(T)
      BY <1>1, <2>1, <2>2
    <3>. QED
      BY <2>1, <3>1
  <2>4. BestAsk = f
    BY <1>3, <2>3 DEF BestAsk, T
  <2>. QED
    BY <1>1, <2>1, <2>4 DEF f
<1>. QED
  BY <1>2, <1>3

(* Offsets do not add up: an aggressor is priced within the band of its side. *)
LEMMA AggressorInBand ==
    ASSUME GenInv, NEW side \in Side
    PROVE  AggressorPrice(side) \in Band(side)
<1>1. CASE side = "Bid"
  <2>1. BestAsk \in AskBand
    BY BestAskIsFront
  <2>. QED
    BY <1>1, <2>1, BandFacts DEF AggressorPrice, Band, AskBand, BidBand
<1>2. CASE side = "Ask"
  <2>1. BestBid \in BidBand
    BY BestBidIsFront
  <2>. QED
    BY <1>2, <2>1, BandFacts DEF AggressorPrice, Band, AskBand, BidBand
<1>. QED
  BY <1>1, <1>2 DEF Side

-----------------------------------------------------------------------------
(* One lemma for each way an action of the generator moves the book.        *)

LEMMA Conclude ==
    ASSUME BookInv', GenType', Mirror', PriceBand', PendingInBand'
    PROVE  GenInv'
BY DEF GenInv

(* An order of the generator enters the book.                               *)
LEMMA StartKeepsGenInv ==
    ASSUME GenInv, NEW o \in Order, InBand(o), StartMatch(o),
           nextId' \in OrderId,
           batch' \in Seq(Order), \A k \in 1..Len(batch') : InBand(batch'[k]),
           UNCHANGED <<live, stopRequested, exited>>
    PROVE  GenInv'
<1>1. o \in AnyOrder
  BY DEF Order, AnyOrder
<1>2. BookInv'
  BY <1>1, GenInvParts, StartMatchKeepsInv
<1>3. Mirror'
  BY GenInvParts, MirrorFrame DEF StartMatch
<1>4. live' \in Seq(LiveOrder) /\ PriceBand'
  BY ListFrame
<1>5. GenType'
  BY <1>4, GenInvParts DEF GenType
<1>6. PendingInBand'
  BY DEF PendingInBand, StartMatch, InBand, Band, BidBand, AskBand
<1>. QED
  BY <1>2, <1>3, <1>4, <1>5, <1>6, Conclude

LEMMA LotsAreQuantities ==
    /\ \A q \in 1..MmLotMax : q \in 0..MaxQty /\ q > 0
    /\ \A q \in 1..AggressorLotMax : q \in 0..MaxQty /\ q > 0
BY ConfigAssumption, QtyAssumption

LEMMA AggressKeepsGenInv ==
    ASSUME GenInv, NEW side \in Side, NEW qty \in 1..AggressorLotMax, Aggress(side, qty)
    PROVE  GenInv'
<1> DEFINE o == MakeOrder(1, side, AggressorPrice(side), qty)
<1>1. nextId \in OrderId
  BY GenInvParts DEF GenType
<1>2. o \in Order /\ InBand(o)
  BY <1>1, AggressorInBand, LotsAreQuantities, MadeOrder
<1>3. nextId' \in OrderId
  BY <1>1, IdWraps DEF Aggress
<1>4. StartMatch(o) /\ UNCHANGED <<live, batch, stopRequested, exited>>
  BY DEF Aggress
<1>5. batch' \in Seq(Order) /\ \A k \in 1..Len(batch') : InBand(batch'[k])
  BY <1>4, GenInvParts DEF GenType, PendingInBand
<1> HIDE DEF o
<1>. QED
  BY <1>2, <1>3, <1>4, <1>5, StartKeepsGenInv

LEMMA QuoteInBand ==
    ASSUME NEW side \in Side, NEW j \in 1..SpreadHalfWidth
    PROVE  MmPrice(side, j) \in Band(side)
BY BandFacts DEF MmPrice, Band, BidBand, AskBand, Side

LEMMA QuotePairKeepsGenInv ==
    ASSUME GenInv, NEW bj \in 1..SpreadHalfWidth, NEW bq \in 1..MmLotMax,
           NEW aj \in 1..SpreadHalfWidth, NEW aq \in 1..MmLotMax, QuotePair(bj, bq, aj, aq)
    PROVE  GenInv'
<1> DEFINE b == MakeOrder(1, "Bid", MmPrice("Bid", bj), bq)
           a == MakeOrder(2, "Ask", MmPrice("Ask", aj), aq)
<1>1. nextId \in OrderId /\ "Bid" \in Side /\ "Ask" \in Side
  BY GenInvParts DEF GenType, Side
<1>2. b \in Order /\ InBand(b)
  BY <1>1, QuoteInBand, LotsAreQuantities, MadeOrder
<1>3. a \in Order /\ InBand(a)
  BY <1>1, QuoteInBand, LotsAreQuantities, MadeOrder
<1>4. nextId' \in OrderId
  BY <1>1, IdWraps DEF QuotePair
<1>5. StartMatch(b) /\ batch' = <<a>> /\ UNCHANGED <<live, stopRequested, exited>>
  BY DEF QuotePair
<1> HIDE DEF a, b
<1>6. batch' \in Seq(Order) /\ \A k \in 1..Len(batch') : InBand(batch'[k])
  BY <1>3, <1>5
<1>. QED
  BY <1>2, <1>4, <1>5, <1>6, StartKeepsGenInv

LEMMA AddSecondQuoteKeepsGenInv ==
    ASSUME GenInv, AddSecondQuote
    PROVE  GenInv'
<1>1. /\ batch \in Seq(Order) /\ batch # <<>> /\ nextId \in OrderId
      /\ \A k \in 1..Len(batch) : InBand(batch[k])
  BY GenInvParts DEF GenType, PendingInBand, AddSecondQuote
<1>2. /\ Head(batch) = batch[1] /\ Len(batch) \in Nat /\ Len(batch) > 0
      /\ Tail(batch) \in Seq(Order) /\ Len(Tail(batch)) = Len(batch) - 1
      /\ \A k \in 1..Len(Tail(batch)) : Tail(batch)[k] = batch[k + 1]
  BY <1>1, HeadTailProperties, EmptySeq, LenProperties
<1>3. Head(batch) \in Order /\ InBand(Head(batch))
  <2>1. 1 \in 1..Len(batch)
    BY <1>2
  <2>2. batch[1] \in Order
    BY <1>1, <2>1, ElementOfSeq
  <2>. QED
    BY <1>1, <1>2, <2>1, <2>2
<1>4. \A k \in 1..Len(Tail(batch)) : InBand(Tail(batch)[k])
  <2>1. ASSUME NEW k \in 1..Len(Tail(batch)) PROVE InBand(Tail(batch)[k])
    <3>1. k + 1 \in 1..Len(batch)
      BY <1>2
    <3>. QED
      BY <1>1, <1>2, <3>1
  <2>. QED
    BY <2>1
<1>5. /\ StartMatch(Head(batch)) /\ batch' = Tail(batch)
      /\ UNCHANGED <<live, nextId, stopRequested, exited>>
  BY DEF AddSecondQuote
<1>6. /\ nextId' \in OrderId /\ batch' \in Seq(Order)
      /\ \A k \in 1..Len(batch') : InBand(batch'[k])
  BY <1>1, <1>2, <1>4, <1>5
<1>. QED
  BY <1>3, <1>5, <1>6, StartKeepsGenInv

(* What the matching loop does to the aggressor leaves its price and side.  *)
LEMMA MatchKeepsAggressor ==
    ASSUME GenInv, MatchStep
    PROVE  pc # "idle" /\ InBand(order')
<1>1. pc = "match"
  BY DEF MatchStep, SkipPassive, ConsumePassive, ConsumeAggressor, ConsumeBoth, EndMatch, AtPassive
<1>2. order \in Order /\ InBand(order)
  BY <1>1, GenInvParts DEF CallType, PendingInBand
<1>3. order' = order \/ \E q : order' = [order EXCEPT !.qty = q]
  BY DEF MatchStep, SkipPassive, ConsumePassive, ConsumeAggressor, ConsumeBoth, EndMatch
<1>4. order'.price = order.price /\ order'.side = order.side
  BY <1>2, <1>3 DEF Order
<1>. QED
  BY <1>1, <1>2, <1>4 DEF InBand

LEMMA MatchKeepsMirror ==
    ASSUME GenInv, MatchStep, UNCHANGED live
    PROVE  Mirror'
<1>1. CASE SkipPassive \/ ConsumePassive \/ EndMatch
  BY <1>1, GenInvParts, MirrorFrame DEF SkipPassive, ConsumePassive, EndMatch
<1>2. ASSUME AtPassive, Tradeable(order, Passive), NEW q \in 0..MaxQty,
             containers' = WithQty(OppSide(order.side), i, q)
      PROVE  Mirror'
  <2>1. order \in Order /\ i \in 1..Len(Opposite)
    BY <1>2, GenInvParts, AtPassiveFacts
  <2>2. OppSide(order.side) \in Side /\ i \in 1..Len(containers[OppSide(order.side)])
    BY <2>1, GenInvParts, OppositeFacts DEF Opposite
  <2>. QED
    BY <1>2, <2>2, GenInvParts, QtyEditKeepsMirror
<1>3. CASE ConsumeAggressor
  <2>1. AtPassive /\ Tradeable(order, Passive)
    BY <1>3 DEF ConsumeAggressor
  <2>2. Passive.qty - order.qty \in 0..MaxQty
    BY <1>3, <2>1, GenInvParts, AtPassiveFacts, QtyAssumption DEF ConsumeAggressor
  <2>3. containers' = WithQty(OppSide(order.side), i, Passive.qty - order.qty)
    BY <1>3 DEF ConsumeAggressor, WithQty, Passive, Opposite
  <2>. QED
    BY <1>2, <2>1, <2>2, <2>3
<1>4. CASE ConsumeBoth
  <2>1. AtPassive /\ Tradeable(order, Passive)
    BY <1>4 DEF ConsumeBoth
  <2>2. 0 \in 0..MaxQty
    BY QtyAssumption
  <2>3. containers' = WithQty(OppSide(order.side), i, 0)
    BY <1>4 DEF ConsumeBoth, WithQty
  <2>. QED
    BY <1>2, <2>1, <2>2, <2>3
<1>. QED
  BY <1>1, <1>3, <1>4 DEF MatchStep

LEMMA MatchKeepsGenInv ==
    ASSUME GenInv, Match
    PROVE  GenInv'
<1>1. MatchStep /\ UNCHANGED genVars
  BY DEF Match
<1>2. BookInv'
  BY <1>1, GenInvParts, NextKeepsInv DEF Next, CallStep
<1>3. Mirror'
  BY <1>1, MatchKeepsMirror DEF genVars
<1>4. live' \in Seq(LiveOrder) /\ PriceBand'
  BY <1>1, ListFrame DEF genVars
<1>5. GenType'
  BY <1>1, <1>4, GenInvParts DEF GenType, genVars
<1>6. PendingInBand'
  <2>1. InBand(order')
    BY <1>1, MatchKeepsAggressor
  <2>2. batch' = batch /\ \A k \in 1..Len(batch) : InBand(batch[k])
    BY <1>1, GenInvParts DEF PendingInBand, genVars
  <2>. QED
    BY <2>1, <2>2 DEF PendingInBand, InBand, Band, BidBand, AskBand
<1>. QED
  BY <1>2, <1>3, <1>4, <1>5, <1>6, Conclude

(* An order leaves the book and the list, by a cancel or by the purge.      *)
LEMMA EraseKeepsGenInv ==
    ASSUME GenInv, BookInv', NEW id, Has(id), Erase(id), Untrack(id),
           UNCHANGED <<pc, order, nextId, batch, stopRequested, exited>>
    PROVE  GenInv'
<1>1. /\ Mirror' /\ live' \in Seq(LiveOrder)
      /\ \A a \in 1..Len(live') : \E x \in 1..Len(live) : live'[a] = live[x]
  BY GenInvParts, EraseKeepsMirror
<1>2. PriceBand'
  BY <1>1, BandKept
<1>3. GenType'
  BY <1>1, GenInvParts DEF GenType
<1>4. PendingInBand'
  BY GenInvParts DEF PendingInBand, InBand, Band, BidBand, AskBand
<1>. QED
  BY <1>1, <1>2, <1>3, <1>4, Conclude

LEMMA CancelKeepsGenInv ==
    ASSUME GenInv, Cancel
    PROVE  GenInv'
<1>1. PICK k \in DOMAIN live : RemoveOrder(live[k].id) /\ Untrack(live[k].id)
  BY DEF Cancel
<1>2. Has(live[k].id)
  BY GenInvParts, LiveFacts, LiveIsResting
<1>3. BookInv'
  BY <1>1, GenInvParts, RemoveOrderKeepsInv
<1>4. Erase(live[k].id) /\ UNCHANGED <<pc, order, nextId, batch, stopRequested, exited>>
  BY <1>1 DEF RemoveOrder, Cancel
<1>. QED
  BY <1>1, <1>2, <1>3, <1>4, EraseKeepsGenInv

LEMMA PurgeAndNotifyKeepsGenInv ==
    ASSUME GenInv, PurgeAndNotify
    PROVE  GenInv'
<1>1. /\ PurgeOne /\ Untrack(Head(idsToRemove))
      /\ UNCHANGED <<nextId, batch, stopRequested, exited>>
  BY DEF PurgeAndNotify
<1>2. /\ pc = "purge" /\ idsToRemove # <<>> /\ Erase(Head(idsToRemove))
      /\ UNCHANGED <<pc, order>>
  BY <1>1 DEF PurgeOne
<1>3. Has(Head(idsToRemove))
  BY <1>2, GenInvParts, PurgedHas
<1>4. BookInv'
  BY <1>1, GenInvParts, PurgeOneKeepsInv
<1>. QED
  BY <1>1, <1>2, <1>3, <1>4, EraseKeepsGenInv

LEMMA InsertAndTrackKeepsGenInv ==
    ASSUME GenInv, InsertAndTrack
    PROVE  GenInv'
<1>1. Insert /\ Track(order) /\ UNCHANGED <<nextId, batch, stopRequested, exited>>
  BY DEF InsertAndTrack
<1>2. Matched /\ pc' = "idle" /\ pc = "purge"
  BY <1>1 DEF Insert, Return, Matched
<1>3. order \in Order /\ InBand(order)
  BY <1>2, GenInvParts DEF CallType, PendingInBand
<1>4. /\ Mirror' /\ live' \in Seq(LiveOrder)
      /\ \A a \in 1..Len(live') : live'[a] = Quote(order) \/ \E x \in 1..Len(live) : live'[a] = live[x]
  BY <1>1, <1>3, GenInvParts, InsertKeepsMirror
<1>5. BookInv'
  BY <1>1, GenInvParts, InsertKeepsInv
<1>6. PriceBand'
  <2>1. InBand(Quote(order))
    BY <1>3, QuoteFields DEF InBand
  <2>. QED
    BY <1>4, <2>1, BandKept
<1>7. GenType'
  BY <1>1, <1>4, GenInvParts DEF GenType
<1>8. PendingInBand'
  BY <1>1, <1>2, GenInvParts DEF PendingInBand, InBand, Band, BidBand, AskBand
<1>. QED
  BY <1>4, <1>5, <1>6, <1>7, <1>8, Conclude

(* A step that changes neither the book's orders nor the list.              *)
LEMMA QuietStepKeepsGenInv ==
    ASSUME GenInv, BookInv', UNCHANGED <<containers, live, nextId, batch>>,
           pc' # "idle" => pc # "idle" /\ order' = order,
           stopRequested' \in BOOLEAN, exited' \in BOOLEAN
    PROVE  GenInv'
<1>1. Mirror'
  BY GenInvParts, MirrorFrame
<1>2. live' \in Seq(LiveOrder) /\ PriceBand'
  BY ListFrame
<1>3. GenType'
  BY <1>2, GenInvParts DEF GenType
<1>4. PendingInBand'
  BY GenInvParts DEF PendingInBand, InBand, Band, BidBand, AskBand
<1>. QED
  BY <1>1, <1>2, <1>3, <1>4, Conclude

LEMMA ForgetKeepsGenInv ==
    ASSUME GenInv, Forget
    PROVE  GenInv'
<1>1. FinishWithoutInsert /\ UNCHANGED genVars
  BY DEF Forget
<1>2. BookInv'
  BY <1>1, GenInvParts, FinishWithoutInsertKeepsInv
<1>3. pc' = "idle" /\ UNCHANGED containers
  BY <1>1 DEF FinishWithoutInsert, Return
<1>4. stopRequested' \in BOOLEAN /\ exited' \in BOOLEAN
  BY <1>1, GenInvParts DEF GenType, genVars
<1>. QED
  BY <1>1, <1>2, <1>3, <1>4, QuietStepKeepsGenInv DEF genVars

LEMMA BookStutterKeepsGenInv ==
    ASSUME GenInv, UNCHANGED <<bookVars, live, nextId, batch>>,
           stopRequested' \in BOOLEAN, exited' \in BOOLEAN
    PROVE  GenInv'
<1>1. BookInv'
  BY GenInvParts, NextKeepsInv
<1>2. UNCHANGED <<containers, pc, order>>
  BY DEF bookVars
<1>. QED
  BY <1>1, <1>2, QuietStepKeepsGenInv

-----------------------------------------------------------------------------
LEMMA GenInitEstablishesInv ==
    ASSUME GenInit
    PROVE  GenInv
<1>1. BookInv
  BY InitEstablishesInv DEF GenInit
<1>2. /\ live = <<>> /\ nextId = 0 /\ batch = <<>> /\ stopRequested = FALSE /\ exited = FALSE
      /\ pc = "idle" /\ containers = [s \in Side |-> <<>>]
  BY DEF GenInit, Init
<1>3. Len(live) = 0 /\ Len(batch) = 0 /\ DOMAIN live = 1..0 /\ \A s \in Side : Len(containers[s]) = 0
  BY <1>2
<1>4. 0 \in OrderId
  BY IdAssumption
<1>5. GenType
  <2>1. live \in Seq(LiveOrder) /\ batch \in Seq(Order)
    BY <1>2
  <2>. QED
    BY <1>2, <1>4, <2>1 DEF GenType
<1>6. Mirror
  <2>1. OwnSide /\ UniqueLive /\ LiveInBook /\ BookInLive
    BY <1>3 DEF OwnSide, UniqueLive, LiveInBook, BookInLive
  <2>2. SameLength
    <3>1. "Bid" \in Side /\ "Ask" \in Side
      BY DEF Side
    <3>2. Len(live) = 0 /\ Len(containers["Bid"]) = 0 /\ Len(containers["Ask"]) = 0
      BY <1>3, <3>1
    <3>. QED
      BY <3>2 DEF SameLength
  <2>. QED
    BY <2>1, <2>2 DEF Mirror
<1>7. PriceBand
  BY <1>3 DEF PriceBand
<1>8. PendingInBand
  BY <1>2, <1>3 DEF PendingInBand
<1>. QED
  BY <1>1, <1>5, <1>6, <1>7, <1>8 DEF GenInv

LEMMA GenNextKeepsInv ==
    ASSUME GenInv, [GenNext]_allVars
    PROVE  GenInv'
<1>1. CASE GenStep
  <2>1. CASE ExitLoop
    <3>1. UNCHANGED <<bookVars, live, nextId, batch>> /\ stopRequested' \in BOOLEAN /\ exited' \in BOOLEAN
      BY <2>1, GenInvParts DEF ExitLoop, GenType
    <3>. QED
      BY <3>1, BookStutterKeepsGenInv
  <2>2. CASE \E side \in Side, qty \in 1..AggressorLotMax : Aggress(side, qty)
    BY <2>2, AggressKeepsGenInv
  <2>3. CASE \E bj, aj \in 1..SpreadHalfWidth, bq, aq \in 1..MmLotMax : QuotePair(bj, bq, aj, aq)
    BY <2>3, QuotePairKeepsGenInv
  <2>. QED
    BY <1>1, <2>1, <2>2, <2>3, CancelKeepsGenInv, AddSecondQuoteKeepsGenInv, MatchKeepsGenInv,
       PurgeAndNotifyKeepsGenInv, InsertAndTrackKeepsGenInv, ForgetKeepsGenInv DEF GenStep
<1>2. CASE RequestStop
  <2>1. UNCHANGED <<bookVars, live, nextId, batch>> /\ stopRequested' \in BOOLEAN /\ exited' \in BOOLEAN
    BY <1>2, GenInvParts DEF RequestStop, GenType
  <2>. QED
    BY <2>1, BookStutterKeepsGenInv
<1>3. CASE UNCHANGED allVars
  <2>1. UNCHANGED <<bookVars, live, nextId, batch>> /\ stopRequested' \in BOOLEAN /\ exited' \in BOOLEAN
    BY <1>3, GenInvParts DEF allVars, genVars, GenType
  <2>. QED
    BY <2>1, BookStutterKeepsGenInv
<1>. QED
  BY <1>1, <1>2, <1>3 DEF GenNext

(* Every state of the generator and the book, also between two purges of    *)
(* one call, satisfies the inductive invariant GenInv.                      *)
THEOREM GenInvariant == GenSpec => []GenInv
<1>1. GenInit => GenInv
  BY GenInitEstablishesInv
<1>2. GenInv /\ [GenNext]_allVars => GenInv'
  BY GenNextKeepsInv
<1>. QED
  BY <1>1, <1>2, PTL DEF GenSpec

(* The book's invariants hold in the wired program too: its calls of add    *)
(* and remove keep to what the book expects.                                *)
THEOREM BookInvariantInGenerator == GenSpec => []BookInv
<1>1. GenInv => BookInv
  BY DEF GenInv
<1>. QED
  BY <1>1, GenInvariant, PTL

(* Every variable of the generator and of the book keeps its type.          *)
THEOREM GenTypeCorrect == GenSpec => []GenTypeOK
<1>1. GenInv => GenTypeOK
  BY DEF GenInv, BookInv, GenType, GenTypeOK, LiveOrder
<1>. QED
  BY <1>1, GenInvariant, PTL

(* m_live_orders and the book hold the same orders in every state.          *)
THEOREM ListMirrorsBook == GenSpec => []LiveMirrorsBook
<1>1. ASSUME GenInv PROVE LiveMirrorsBook
  <2>1. /\ containers["Bid"] \in Seq(Order) /\ containers["Ask"] \in Seq(Order)
        /\ live \in Seq(LiveOrder)
    BY <1>1, GenInvParts, ContainerFacts DEF Side, GenType
  <2>2. /\ \A x : x \in ToSet(containers["Bid"]) <=> \E j \in 1..Len(containers["Bid"]) : containers["Bid"][j] = x
        /\ \A x : x \in ToSet(containers["Ask"]) <=> \E j \in 1..Len(containers["Ask"]) : containers["Ask"][j] = x
        /\ \A x : x \in ToSet(live) <=> \E j \in 1..Len(live) : live[j] = x
    BY <2>1, ToSetOfSeq
  <2> DEFINE held == ToSet(containers["Bid"]) \cup ToSet(containers["Ask"])
  <2>3. \A x : x \in held <=> \E s \in Side : \E j \in 1..Len(containers[s]) : containers[s][j] = x
    BY <2>2 DEF Side
  <2> HIDE DEF held
  <2>4. ASSUME NEW x \in held PROVE Quote(x) \in ToSet(live)
    BY <2>2, <2>3, <1>1, GenInvParts DEF Mirror, BookInLive
  <2>5. ASSUME NEW q \in ToSet(live) PROVE \E x \in held : q = Quote(x)
    <3>1. PICK k \in 1..Len(live) : live[k] = q
      BY <2>2
    <3>2. PICK s \in Side : \E j \in 1..Len(containers[s]) : live[k] = Quote(containers[s][j])
      BY <1>1, GenInvParts DEF Mirror, LiveInBook
    <3>3. PICK j \in 1..Len(containers[s]) : live[k] = Quote(containers[s][j])
      BY <3>2
    <3>4. containers[s][j] \in held
      BY <2>3
    <3>. QED
      BY <3>1, <3>3, <3>4
  <2>6. {Quote(o) : o \in held} = ToSet(live)
    BY <2>4, <2>5
  <2>. QED
    BY <2>6, <1>1, GenInvParts DEF LiveMirrorsBook, Mirror, SameLength, held
<1>. QED
  BY <1>1, GenInvariant, PTL

(* Aggressor offsets never add up: live prices stay in a fixed band.        *)
THEOREM PricesStayInBand == GenSpec => []PriceBand
<1>1. GenInv => PriceBand
  BY DEF GenInv
<1>. QED
  BY <1>1, GenInvariant, PTL

(* An aggressor trades whenever there is something to trade with.           *)
THEOREM AggressorsCross == GenSpec => AggressorCrosses
<1>1. ASSUME GenInv, NEW side \in Side, NEW qty \in 1..AggressorLotMax,
             Aggress(side, qty), containers[OppSide(side)] # <<>>
      PROVE  Tradeable(order', containers[OppSide(side)][1])
  <2>1. order' = MakeOrder(1, side, AggressorPrice(side), qty)
    BY <1>1 DEF Aggress, StartMatch
  <2>2. order'.price = AggressorPrice(side) /\ order'.side = side
    BY <2>1 DEF MakeOrder
  <2>3. AggressorOffset \in Nat
    BY BandFacts
  <2>4. CASE side = "Bid"
    <3>1. OppSide(side) = "Ask" /\ BestAsk = containers["Ask"][1].price /\ BestAsk \in Int
      BY <1>1, <2>4, BestAskIsFront, BandFacts DEF OppSide
    <3>2. order'.price = BestAsk + AggressorOffset
      BY <2>2, <2>4 DEF AggressorPrice
    <3>. QED
      BY <2>2, <2>3, <2>4, <3>1, <3>2 DEF Tradeable, IsMoreCons
  <2>5. CASE side = "Ask"
    <3>1. OppSide(side) = "Bid" /\ BestBid = containers["Bid"][1].price /\ BestBid \in Int
      BY <1>1, <2>5, BestBidIsFront, BandFacts DEF OppSide
    <3>2. order'.price = BestBid - AggressorOffset
      BY <2>2, <2>5 DEF AggressorPrice
    <3>. QED
      BY <2>2, <2>3, <2>5, <3>1, <3>2 DEF Tradeable, IsMoreCons
  <2>. QED
    BY <2>4, <2>5 DEF Side
<1> DEFINE Crosses == \A side \in Side, qty \in 1..AggressorLotMax :
                         Aggress(side, qty) /\ containers[OppSide(side)] # <<>>
                             => Tradeable(order', containers[OppSide(side)][1])
<1>2. GenInv => [Crosses]_allVars
  BY <1>1
<1> HIDE DEF Crosses
<1>3. GenSpec => [][Crosses]_allVars
  BY <1>2, GenInvariant, PTL
<1>. QED
  BY <1>3 DEF AggressorCrosses, Crosses

-----------------------------------------------------------------------------
(* The book in the generator's hands. *)

(* Whatever the generator does is a step of the book or none of its steps.  *)
LEMMA BookSteps ==
    ASSUME GenInv, [GenNext]_allVars
    PROVE  [Next]_bookVars
<1>1. ASSUME NEW o \in Order, StartMatch(o) PROVE Next
  <2>1. o \in AnyOrder
    BY DEF Order, AnyOrder
  <2>. QED
    BY <1>1, <2>1 DEF Next
<1>2. nextId \in OrderId /\ batch \in Seq(Order) /\ live \in Seq(LiveOrder)
  BY GenInvParts DEF GenType
<1>3. CASE Cancel
  <2>1. PICK k \in DOMAIN live : RemoveOrder(live[k].id)
    BY <1>3 DEF Cancel
  <2>2. live[k] \in LiveOrder
    BY <1>2, <2>1, LenProperties, ElementOfSeq
  <2>3. live[k].id \in OrderId
    BY <2>2 DEF LiveOrder
  <2>. QED
    BY <2>1, <2>3 DEF Next
<1>4. ASSUME NEW side \in Side, NEW qty \in 1..AggressorLotMax, Aggress(side, qty) PROVE Next
  <2> DEFINE o == MakeOrder(1, side, AggressorPrice(side), qty)
  <2>1. o \in Order
    BY <1>2, AggressorInBand, LotsAreQuantities, MadeOrder
  <2>2. StartMatch(o)
    BY <1>4 DEF Aggress
  <2> HIDE DEF o
  <2>. QED
    BY <1>1, <2>1, <2>2
<1>5. ASSUME NEW bj \in 1..SpreadHalfWidth, NEW bq \in 1..MmLotMax, NEW aj, NEW aq,
             QuotePair(bj, bq, aj, aq)
      PROVE  Next
  <2> DEFINE o == MakeOrder(1, "Bid", MmPrice("Bid", bj), bq)
  <2>1. "Bid" \in Side
    BY DEF Side
  <2>2. o \in Order
    BY <1>2, <2>1, QuoteInBand, LotsAreQuantities, MadeOrder
  <2>3. StartMatch(o)
    BY <1>5 DEF QuotePair
  <2> HIDE DEF o
  <2>. QED
    BY <1>1, <2>2, <2>3
<1>6. CASE AddSecondQuote
  <2>1. batch # <<>> /\ StartMatch(Head(batch))
    BY <1>6 DEF AddSecondQuote
  <2>2. Head(batch) \in Order
    BY <1>2, <2>1, HeadTailProperties
  <2>. QED
    BY <1>1, <2>1, <2>2
<1>7. CASE Match \/ PurgeAndNotify \/ InsertAndTrack \/ Forget
  BY <1>7 DEF Match, PurgeAndNotify, InsertAndTrack, Forget, CallStep, Next
<1>8. CASE ExitLoop \/ RequestStop \/ UNCHANGED allVars
  BY <1>8 DEF ExitLoop, RequestStop, allVars
<1>. QED
  BY <1>3, <1>4, <1>5, <1>6, <1>7, <1>8 DEF GenNext, GenStep

(* In the wired program too, every step of the book is a step of the        *)
(* matching engine: the callbacks and the generator's own calls change      *)
(* nothing about that.                                                      *)
THEOREM GeneratorDrivesAnEngine == GenSpec => EngineSteps
<1>1. GenInit => Engine!Init /\ EngineInv
  BY InitIsEngineInit DEF GenInit
<1>2. GenInv /\ EngineInv /\ [GenNext]_allVars => EngineInv' /\ [Engine!Next]_Engine!vars
  BY BookSteps, StepIsEngineStep
<1>. QED
  BY <1>1, <1>2, GenInvariant, PTL DEF GenSpec, EngineSteps

-----------------------------------------------------------------------------
(* How many steps the thread still takes when it is stopped. *)

(* At most the second quote of a pair waits, and none after the loop. *)
ShortBatch == Len(batch) \in 0..1

LEMMA BatchLength ==
    ASSUME GenInv, ShortBatch, [GenNext]_allVars
    PROVE  ShortBatch'
<1>1. batch \in Seq(Order)
  BY GenInvParts DEF GenType
<1>2. CASE UNCHANGED batch
  BY <1>2 DEF ShortBatch
<1>3. ASSUME NEW x, batch' = <<x>> PROVE ShortBatch'
  BY <1>3 DEF ShortBatch
<1>4. CASE AddSecondQuote
  <2>1. batch # <<>> /\ batch' = Tail(batch)
    BY <1>4 DEF AddSecondQuote
  <2>2. Len(batch') = Len(batch) - 1 /\ Len(batch) \in Nat /\ Len(batch) > 0
    BY <1>1, <2>1, HeadTailProperties, EmptySeq, LenProperties
  <2>. QED
    BY <2>2 DEF ShortBatch
<1>5. CASE \E bj, aj \in 1..SpreadHalfWidth, bq, aq \in 1..MmLotMax : QuotePair(bj, bq, aj, aq)
  BY <1>3, <1>5 DEF QuotePair
<1>6. CASE ~AddSecondQuote /\ ~(\E bj, aj \in 1..SpreadHalfWidth, bq, aq \in 1..MmLotMax :
                                  QuotePair(bj, bq, aj, aq))
  <2>1. UNCHANGED batch
    BY <1>6 DEF GenNext, GenStep, Cancel, Aggress, Match, PurgeAndNotify, InsertAndTrack, Forget,
                ExitLoop, RequestStop, allVars, genVars
  <2>. QED
    BY <1>2, <2>1
<1>. QED
  BY <1>4, <1>5, <1>6

LEMMA GenStepsLeftBounds ==
    ASSUME GenInv, ShortBatch
    PROVE  GenStepsLeft \in 0..(4 * SIZE + 6)
<1>1. StepsLeft \in 0..(2 * SIZE + 2) /\ SIZE \in Nat
  BY GenInvParts, StepsLeftBounds, SizeAssumption
<1>2. Len(batch) = 0 \/ Len(batch) = 1
  BY DEF ShortBatch
<1>3. CASE Len(batch) = 0
  BY <1>1, <1>3 DEF GenStepsLeft
<1>4. CASE Len(batch) = 1
  BY <1>1, <1>4 DEF GenStepsLeft
<1>. QED
  BY <1>2, <1>3, <1>4

LEMMA CallLength == GenInv => StepsLeft \in 0..(2 * SIZE + 2)
  BY GenInvParts, StepsLeftBounds

LEMMA CallLengthAfter == (GenInv => StepsLeft \in 0..(2 * SIZE + 2))'
  BY CallLength, PTL

LEMMA LessTogether ==
    \A m, n, a, b \in Int : m < n => a + m + b < a + n + b
  OBVIOUS

LEMMA LessByOne ==
    \A m, n, a, b \in Int : n >= 0 /\ m < b => a + m + 0 < a + n + b
  OBVIOUS

LEMMA StoppedShrinks ==
    ASSUME GenInv, GenInv', ShortBatch, ShortBatch', GenNext, stopRequested
    PROVE  GenStepsLeft' < GenStepsLeft
<1>1. /\ StepsLeft \in 0..(2 * SIZE + 2) /\ SIZE \in Nat /\ BookInv
      /\ batch \in Seq(Order) /\ exited \in BOOLEAN
  BY GenInvParts, StepsLeftBounds, SizeAssumption DEF GenType
<1>2. StepsLeft \in Int /\ StepsLeft' \in Int /\ StepsLeft' <= 2 * SIZE + 2 /\ StepsLeft >= 0
  BY <1>1, CallLengthAfter
<1>3. Len(batch) * (2 * SIZE + 3) \in Int
  BY <1>1 DEF ShortBatch
<1>4. CASE Match \/ PurgeAndNotify \/ InsertAndTrack \/ Forget
  <2>1. CallStep /\ UNCHANGED <<batch, exited>>
    BY <1>4 DEF Match, PurgeAndNotify, InsertAndTrack, Forget, CallStep, genVars
  <2>2. StepsLeft' < StepsLeft
    BY <1>1, <2>1, CallStepShrinks
  <2> DEFINE b == Len(batch) * (2 * SIZE + 3)
             e == IF exited THEN 0 ELSE 1
  <2>3. GenStepsLeft = e + StepsLeft + b /\ GenStepsLeft' = e + StepsLeft' + b
    BY <2>1 DEF GenStepsLeft
  <2>4. b \in Int /\ e \in Int
    BY <1>3
  <2> HIDE DEF b, e
  <2>. QED
    BY <1>2, <2>2, <2>3, <2>4, LessTogether
<1>5. CASE AddSecondQuote
  <2>1. batch # <<>> /\ batch' = Tail(batch) /\ exited' = exited
    BY <1>5 DEF AddSecondQuote
  <2>2. Len(batch') = Len(batch) - 1 /\ Len(batch) \in Nat /\ Len(batch) > 0
    BY <1>1, <2>1, HeadTailProperties, EmptySeq, LenProperties
  <2>3. Len(batch) = 1 /\ Len(batch') = 0
    BY <2>2 DEF ShortBatch
  <2> DEFINE e == IF exited THEN 0 ELSE 1
             c == 2 * SIZE + 3
  <2>4. 1 * c = c /\ 0 * c = 0 /\ c \in Int /\ StepsLeft' < c
    BY <1>1, <1>2
  <2>5. GenStepsLeft = e + StepsLeft + c
    BY <2>3, <2>4 DEF GenStepsLeft
  <2>6. GenStepsLeft' = e + StepsLeft' + 0
    BY <2>1, <2>3, <2>4 DEF GenStepsLeft
  <2>7. e \in Int
    OBVIOUS
  <2> HIDE DEF c, e
  <2>. QED
    BY <1>2, <2>4, <2>5, <2>6, <2>7, LessByOne
<1>6. CASE ExitLoop
  <2>1. /\ exited = FALSE /\ exited' = TRUE
        /\ UNCHANGED <<containers, pc, order, i, idsToRemove, batch>>
    BY <1>1, <1>6 DEF ExitLoop, AtLoopTop, bookVars
  <2>2. StepsLeft' = StepsLeft
    BY <2>1 DEF StepsLeft, Opposite
  <2> DEFINE b == Len(batch) * (2 * SIZE + 3)
  <2>3. GenStepsLeft = 1 + StepsLeft + b /\ GenStepsLeft' = 0 + StepsLeft' + b
    BY <2>1 DEF GenStepsLeft
  <2>4. b \in Int
    BY <1>3
  <2> HIDE DEF b
  <2>. QED
    BY <1>2, <2>2, <2>3, <2>4
<1>7. CASE ~(Match \/ PurgeAndNotify \/ InsertAndTrack \/ Forget \/ AddSecondQuote \/ ExitLoop)
  BY <1>7 DEF GenNext, GenStep, Cancel, Aggress, QuotePair, NewIteration, RequestStop
<1>. QED
  BY <1>4, <1>5, <1>6, <1>7

(* After request_stop the thread is at most 4 * SIZE + 6 steps from the end *)
(* of run, and each step it takes leaves fewer.                             *)
THEOREM StopIsNear == GenSpec => StopIsBounded
<1>1. GenInit => ShortBatch
  BY EmptySeq DEF GenInit, ShortBatch
<1>2. GenInv /\ ShortBatch /\ [GenNext]_allVars => ShortBatch'
  BY BatchLength
<1>3. GenInv /\ ShortBatch => GenStepsLeft \in 0..(4 * SIZE + 6)
  BY GenStepsLeftBounds
<1>4. GenInv /\ GenInv' /\ ShortBatch /\ ShortBatch' /\ [GenNext]_allVars
        => [stopRequested => GenStepsLeft' < GenStepsLeft]_allVars
  BY StoppedShrinks
<1>. QED
  BY <1>1, <1>2, <1>3, <1>4, GenInvariant, PTL DEF GenSpec, StopIsBounded
=============================================================================
