-------------------------- MODULE OptionOrderBook --------------------------
(***************************************************************************)
(* The limit order book of include/mms/exchange/OptionOrderBook.hh: two    *)
(* vectors of resting orders, one map from order id to side, and the three *)
(* operations add, remove and try_match.  A call of add is a sequence of   *)
(* steps: one per iteration of the matching loop, one per order purged     *)
(* after the loop (remove, then the fill callback), and one for the        *)
(* outcome.  The steps between two states with pc = "idle" are one call,   *)
(* so a state with another pc is what the fill callback can observe.       *)
(*                                                                         *)
(* An order keeps the fields the book reads: id, side, price and qty.      *)
(*                                                                         *)
(* A definition named Buggy... is no part of the model.  It is a mistake   *)
(* the code could have made, kept beside the definition it would replace   *)
(* to show that a property notices.                                        *)
(***************************************************************************)
EXTENDS Integers, Sequences, SequencesExt

CONSTANTS
    SIZE,           \* capacity of each side, the template parameter SIZE
    OrderId,        \* the ids orders can carry
    Price,          \* the valid prices
    InvalidPrice,   \* Price32::INVALID_PRICE
    MaxQty,         \* the largest quantity of an order
    NoOrder         \* the value of order between calls

ASSUME SizeAssumption == SIZE \in Nat
ASSUME PriceAssumption == Price \subseteq Int /\ InvalidPrice \in Int \ Price
ASSUME QtyAssumption == MaxQty \in Nat

VARIABLES
    containers,     \* m_bids and m_asks, best order first
    orderIdsToSide, \* m_order_ids_to_side
    pc,             \* where the running call of add stands
    order,          \* its argument, whose qty try_match reduces; NoOrder between calls
    i,              \* index of the matching loop
    idsToRemove,    \* ids of the consumed passives not yet purged
    result          \* what the last call of add or remove returned

bookVars == <<containers, orderIdsToSide, pc, order, i, idsToRemove, result>>

-----------------------------------------------------------------------------
Side == {"Bid", "Ask"}
OppSide(s) == IF s = "Bid" THEN "Ask" ELSE "Bid"

Order == [id : OrderId, side : Side, price : Price, qty : 0..MaxQty]
AnyOrder == [id : OrderId, side : Side, price : Price \cup {InvalidPrice}, qty : 0..MaxQty]
ASSUME NoOrderAssumption == NoOrder \notin AnyOrder

BuggyIsValid(o) == o.qty > 0
IsValid(o) == o.price # InvalidPrice /\ o.qty > 0

(* Price32::is_more_cons: lhs is the less aggressive of two prices of side s. *)
IsMoreCons(lhs, rhs, s) == IF s = "Bid" THEN lhs < rhs ELSE lhs > rhs

BuggyTradeable(o, p) == ~IsMoreCons(o.price, p.price, p.side)
Tradeable(o, p) == ~IsMoreCons(o.price, p.price, o.side)

Has(id) == id \in DOMAIN orderIdsToSide

(* Where std::ranges::find meets the id; one past the end when it does not. *)
FindId(s, id) == Min({k \in DOMAIN s : s[k].id = id} \cup {Len(s) + 1})

(* Where add inserts: before the first order no more aggressive than o. *)
BuggyInsertPos(s, o) ==
    Min({k \in DOMAIN s : ~IsMoreCons(s[k].price, o.price, o.side)} \cup {Len(s) + 1})
InsertPos(s, o) ==
    Min({k \in DOMAIN s : ~IsMoreCons(o.price, s[k].price, o.side)} \cup {Len(s) + 1})

-----------------------------------------------------------------------------
Init ==
    /\ containers = [s \in Side |-> <<>>]
    /\ orderIdsToSide = <<>>
    /\ pc = "idle"
    /\ order = NoOrder
    /\ i = 1
    /\ idsToRemove = <<>>
    /\ result = FALSE

(* The body of remove for an id that may be absent. *)
BuggyErase(id) ==
    IF Has(id)
    THEN LET s == orderIdsToSide[id]
         IN  /\ containers' = [containers EXCEPT ![s] = RemoveAt(@, FindId(@, id))]
             /\ UNCHANGED orderIdsToSide
    ELSE UNCHANGED <<containers, orderIdsToSide>>
Erase(id) ==
    IF Has(id)
    THEN LET s == orderIdsToSide[id]
         IN  /\ containers' = [containers EXCEPT ![s] = RemoveAt(@, FindId(@, id))]
             /\ orderIdsToSide' = Restrict(orderIdsToSide, DOMAIN orderIdsToSide \ {id})
    ELSE UNCHANGED <<containers, orderIdsToSide>>

(* A call of remove between calls of add. *)
RemoveOrder(id) ==
    /\ pc = "idle"
    /\ Erase(id)
    /\ result' = Has(id)
    /\ UNCHANGED <<pc, order, i, idsToRemove>>

RejectInvalid(o) ==
    /\ pc = "idle"
    /\ ~IsValid(o)
    /\ result' = FALSE
    /\ UNCHANGED <<containers, orderIdsToSide, pc, order, i, idsToRemove>>

(* A valid order enters try_match. *)
StartMatch(o) ==
    /\ pc = "idle"
    /\ IsValid(o)
    /\ pc' = "match"
    /\ order' = o
    /\ i' = 1
    /\ idsToRemove' = <<>>
    /\ UNCHANGED <<containers, orderIdsToSide, result>>

-----------------------------------------------------------------------------
(* One iteration of the matching loop over the opposite container.          *)
Opposite == containers[OppSide(order.side)]
Passive == Opposite[i]

AtPassive == pc = "match" /\ i \in DOMAIN Opposite

BuggySkipPassive ==
    /\ AtPassive
    /\ ~Tradeable(order, Passive)
    /\ UNCHANGED bookVars
SkipPassive ==
    /\ AtPassive
    /\ ~Tradeable(order, Passive)
    /\ i' = i + 1
    /\ UNCHANGED <<containers, orderIdsToSide, pc, order, idsToRemove, result>>

BuggyConsumePassive ==
    /\ AtPassive
    /\ Tradeable(order, Passive)
    /\ Passive.qty < order.qty
    /\ idsToRemove' = Append(idsToRemove, Passive.id)
    /\ order' = [order EXCEPT !.qty = @ - Passive.qty]
    /\ UNCHANGED <<containers, orderIdsToSide, pc, i, result>>
ConsumePassive ==
    /\ AtPassive
    /\ Tradeable(order, Passive)
    /\ Passive.qty < order.qty
    /\ idsToRemove' = Append(idsToRemove, Passive.id)
    /\ order' = [order EXCEPT !.qty = @ - Passive.qty]
    /\ i' = i + 1
    /\ UNCHANGED <<containers, orderIdsToSide, pc, result>>

(* The two exits by break: the aggressor is used up. *)
BuggyConsumeAggressor ==
    /\ AtPassive
    /\ Tradeable(order, Passive)
    /\ Passive.qty > order.qty
    /\ order' = [order EXCEPT !.qty = 0]
    /\ pc' = "purge"
    /\ UNCHANGED <<containers, orderIdsToSide, i, idsToRemove, result>>
ConsumeAggressor ==
    /\ AtPassive
    /\ Tradeable(order, Passive)
    /\ Passive.qty > order.qty
    /\ containers' = [containers EXCEPT ![OppSide(order.side)][i].qty = @ - order.qty]
    /\ order' = [order EXCEPT !.qty = 0]
    /\ pc' = "purge"
    /\ UNCHANGED <<orderIdsToSide, i, idsToRemove, result>>

BuggyConsumeBoth ==
    /\ AtPassive
    /\ Tradeable(order, Passive)
    /\ Passive.qty = order.qty
    /\ containers' = [containers EXCEPT ![OppSide(order.side)][i].qty = 0]
    /\ order' = [order EXCEPT !.qty = 0]
    /\ pc' = "purge"
    /\ UNCHANGED <<orderIdsToSide, i, idsToRemove, result>>
ConsumeBoth ==
    /\ AtPassive
    /\ Tradeable(order, Passive)
    /\ Passive.qty = order.qty
    /\ idsToRemove' = Append(idsToRemove, Passive.id)
    /\ containers' = [containers EXCEPT ![OppSide(order.side)][i].qty = 0]
    /\ order' = [order EXCEPT !.qty = 0]
    /\ pc' = "purge"
    /\ UNCHANGED <<orderIdsToSide, i, result>>

EndMatch ==
    /\ pc = "match"
    /\ i \notin DOMAIN Opposite
    /\ pc' = "purge"
    /\ UNCHANGED <<containers, orderIdsToSide, order, i, idsToRemove, result>>

(* One iteration of the purge: remove(id), after which the fill callback    *)
(* runs for Head(idsToRemove).                                              *)
PurgeOne ==
    /\ pc = "purge"
    /\ idsToRemove # <<>>
    /\ Erase(Head(idsToRemove))
    /\ idsToRemove' = Tail(idsToRemove)
    /\ UNCHANGED <<pc, order, i, result>>

-----------------------------------------------------------------------------
(* The rest of add, after try_match returned. *)
Matched == pc = "purge" /\ idsToRemove = <<>>

(* The call returns res and its locals die. *)
Return(res) ==
    /\ result' = res
    /\ pc' = "idle"
    /\ order' = NoOrder
    /\ i' = 1
    /\ UNCHANGED idsToRemove

BuggyIsFull(s) == Len(containers[s]) > SIZE
IsFull(s) == Len(containers[s]) = SIZE

(* Fully consumed, or the id is in the book, or the side is full.  In the   *)
(* last two cases what is left of the order is dropped.                     *)
FinishWithoutInsert ==
    /\ Matched
    /\ order.qty = 0 \/ Has(order.id) \/ IsFull(order.side)
    /\ Return(FALSE)
    /\ UNCHANGED <<containers, orderIdsToSide>>

Insert ==
    /\ Matched
    /\ order.qty > 0
    /\ ~Has(order.id)
    /\ ~IsFull(order.side)
    /\ containers' = [containers EXCEPT ![order.side] = InsertAt(@, InsertPos(@, order), order)]
    /\ orderIdsToSide' = [id \in DOMAIN orderIdsToSide \cup {order.id} |->
                            IF id = order.id THEN order.side ELSE orderIdsToSide[id]]
    /\ Return(TRUE)

-----------------------------------------------------------------------------
MatchStep == SkipPassive \/ ConsumePassive \/ ConsumeAggressor \/ ConsumeBoth \/ EndMatch
CallStep == MatchStep \/ PurgeOne \/ FinishWithoutInsert \/ Insert

Next ==
    \/ \E o \in AnyOrder : RejectInvalid(o) \/ StartMatch(o)
    \/ \E id \in OrderId : RemoveOrder(id)
    \/ CallStep

(* A call, once entered, runs to its return on the caller's thread. *)
Spec == Init /\ [][Next]_bookVars /\ WF_bookVars(CallStep)

-----------------------------------------------------------------------------
(* Properties.  Those stated without pc hold in the middle of a call too,   *)
(* which is when the fill callback runs.                                    *)

(* Every variable keeps its type; an argument exists exactly during a call. *)
TypeOK ==
    /\ containers \in [Side -> Seq(Order)]
    /\ DOMAIN orderIdsToSide \subseteq OrderId
    /\ orderIdsToSide \in [DOMAIN orderIdsToSide -> Side]
    /\ pc \in {"idle", "match", "purge"}
    /\ IF pc = "idle" THEN order = NoOrder ELSE order \in Order
    /\ i \in Nat \ {0}
    /\ idsToRemove \in Seq(OrderId)
    /\ result \in BOOLEAN

(* remove erases what find returns without a check, so the map and the two  *)
(* containers must name the same orders: every id once, on its own side.    *)
UniqueIds ==
    \A s \in Side : \A j, k \in DOMAIN containers[s] :
        containers[s][j].id = containers[s][k].id => j = k
ContainersInMap ==
    \A s \in Side : \A k \in DOMAIN containers[s] :
        Has(containers[s][k].id) /\ orderIdsToSide[containers[s][k].id] = s
MapInContainers ==
    \A id \in DOMAIN orderIdsToSide :
        \E k \in DOMAIN containers[orderIdsToSide[id]] : containers[orderIdsToSide[id]][k].id = id
MapMatchesContainers == UniqueIds /\ ContainersInMap /\ MapInContainers

(* The matching loop walks a container from its front, so the front must be *)
(* the best price whatever was inserted, filled and removed before.         *)
PriceSorted ==
    \A s \in Side : \A j, k \in DOMAIN containers[s] :
        j < k => ~IsMoreCons(containers[s][j].price, containers[s][k].price, s)

(* No resting bid reaches a resting ask: an order comes to rest only when   *)
(* nothing is left that it could trade with, also after the drops of add.   *)
Uncrossed ==
    \A b \in DOMAIN containers["Bid"], a \in DOMAIN containers["Ask"] :
        containers["Bid"][b].price < containers["Ask"][a].price

(* An order without quantity is in the book only until its purge.           *)
NoEmptyOrders ==
    \A s \in Side : \A k \in DOMAIN containers[s] :
        containers[s][k].qty = 0 => containers[s][k].id \in ToSet(idsToRemove)

(* The vectors live in arenas of SIZE orders that never grow.               *)
WithinArena == \A s \in Side : Len(containers[s]) <= SIZE

(* Each id the purge hands to remove and to the fill callback is a distinct *)
(* order of the opposite side that is still in the book.                    *)
PurgedAreResting ==
    /\ \A j, k \in DOMAIN idsToRemove : idsToRemove[j] = idsToRemove[k] => j = k
    /\ \A j \in DOMAIN idsToRemove :
          /\ Has(idsToRemove[j])
          /\ orderIdsToSide[idsToRemove[j]] = OppSide(order.side)

(* Where a call stands: what it has consumed and not yet purged is the      *)
(* front of the opposite container, in order, and behind the front nothing  *)
(* that the loop has passed can trade with what is left of the aggressor.   *)
ConsumedIsFront ==
    IF pc = "idle" THEN idsToRemove = <<>>
    ELSE /\ Len(idsToRemove) <= Len(Opposite)
         /\ \A k \in 1..Len(idsToRemove) : idsToRemove[k] = Opposite[k].id
NoTradeBehindFront ==
    /\ pc = "match" =>
         /\ order.qty > 0 /\ Len(idsToRemove) < i /\ i <= Len(Opposite) + 1
         /\ \A k \in (Len(idsToRemove) + 1)..(i - 1) : ~Tradeable(order, Opposite[k])
    /\ pc = "purge" =>
         \/ order.qty = 0
         \/ \A k \in (Len(idsToRemove) + 1)..Len(Opposite) : ~Tradeable(order, Opposite[k])
EmptyOnlyInFront ==
    \A s \in Side : \A k \in DOMAIN containers[s] :
        containers[s][k].qty = 0 =>
            pc = "purge" /\ s = OppSide(order.side) /\ k <= Len(idsToRemove)
CallProgress == ConsumedIsFront /\ NoTradeBehindFront /\ EmptyOnlyInFront

(* The inductive invariant. *)
BookInv ==
    /\ TypeOK
    /\ MapMatchesContainers
    /\ PriceSorted
    /\ Uncrossed
    /\ WithinArena
    /\ CallProgress

(* add returns: the loop over the opposite container, which only collects,  *)
(* and the purge of what it collected both end.                             *)
CallReturns == pc # "idle" ~> pc = "idle"

(* Each step of a call uses up one of the steps it had left, at most two    *)
(* for each order a side can hold and two more: each order the loop passes  *)
(* is collected, and so purged, at most once.                               *)
StepsLeft ==
    CASE pc = "match" -> 2 * (Len(Opposite) + 1 - i) + Len(idsToRemove) + 2
      [] pc = "purge" -> Len(idsToRemove) + 1
      [] OTHER -> 0
CallsAreBounded ==
    /\ [](StepsLeft \in 0..(2 * SIZE + 2))
    /\ [][pc # "idle" => StepsLeft' < StepsLeft]_bookVars

(* The book as a matching engine: what rests is what is in the containers   *)
(* and has not been consumed.                                               *)
Resting ==
    {o \in ToSet(containers["Bid"]) \cup ToSet(containers["Ask"]) : o.id \notin ToSet(idsToRemove)}

Engine == INSTANCE MatchingEngine WITH
    resting <- Resting, incoming <- order, answer <- result, CAPACITY <- SIZE, None <- NoOrder

(* What is proved of ImplementsEngine, everything but its fairness: every   *)
(* step of the book is a step of the engine or leaves it alone.             *)
EngineSteps == Engine!Init /\ [][Engine!Next]_Engine!vars

(* add trades at the best price first, takes the same quantity from both    *)
(* orders, rests the remainder only when nothing compatible is left, and    *)
(* answers true exactly when the order came to rest.                        *)
ImplementsEngine == Engine!Spec
=============================================================================
