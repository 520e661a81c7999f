------------------------ MODULE OptionOrderGenerator ------------------------
(***************************************************************************)
(* The order generator of src/mms/exchange/OptionOrderGenerator.cc wired   *)
(* to the order book as src/mms/market_data/generator_main.cc does it: the *)
(* generator's thread calls add and remove of the book, and the book calls *)
(* notify_fill back for every order it purges.  The generator prices its   *)
(* next orders from its own list of live orders, never from the book.      *)
(*                                                                         *)
(* Draws of the pseudo-random generator are arbitrary choices; sleeping    *)
(* between iterations takes no step.                                       *)
(***************************************************************************)
EXTENDS OptionOrderBook

CONSTANTS
    MidPrice, SpreadHalfWidth, AggressorOffset, \* OptionOrderGeneratorConfig
    MmLotMax, AggressorLotMax,
    CancelEnabled,  \* cancel_weight > 0
    IdModulus       \* 2^32 for the uint32_t m_next_id

BidBand == (MidPrice - SpreadHalfWidth)..(MidPrice + SpreadHalfWidth + AggressorOffset)
AskBand == (MidPrice - SpreadHalfWidth - AggressorOffset)..(MidPrice + SpreadHalfWidth)

ASSUME ConfigAssumption ==
    /\ MidPrice \in Int
    /\ SpreadHalfWidth \in Nat \ {0}
    /\ AggressorOffset \in Nat
    /\ MmLotMax \in 1..MaxQty /\ AggressorLotMax \in 1..MaxQty
    /\ CancelEnabled \in BOOLEAN
    /\ BidBand \cup AskBand \subseteq Price
ASSUME IdAssumption == IdModulus \in Nat \ {0} /\ OrderId = 0..(IdModulus - 1)

VARIABLES
    live,           \* m_live_orders, oldest first: id, side and price of each
    nextId,         \* m_next_id
    batch,          \* the generated order that the running iteration still has to add
    stopRequested,  \* the stop token of m_thread
    exited          \* run has returned

genVars == <<live, nextId, batch, stopRequested, exited>>
allVars == <<bookVars, genVars>>

-----------------------------------------------------------------------------
Quote(o) == [id |-> o.id, side |-> o.side, price |-> o.price]

Track(o) == live' = Append(live, Quote(o))

BuggyUntrack(id) == UNCHANGED live
Untrack(id) == live' = IF FindId(live, id) \in DOMAIN live THEN RemoveAt(live, FindId(live, id)) ELSE live

LivePrices(side) == {live[k].price : k \in {k \in DOMAIN live : live[k].side = side}}

BestBid ==
    IF LivePrices("Bid") = {} THEN MidPrice - SpreadHalfWidth ELSE Max(LivePrices("Bid"))
BestAsk ==
    IF LivePrices("Ask") = {} THEN MidPrice + SpreadHalfWidth ELSE Min(LivePrices("Ask"))

(* The n-th order made from now: ++m_next_id wraps as an unsigned integer. *)
BuggyMakeOrder(n, side, price, qty) ==
    [id |-> nextId + n, side |-> side, price |-> price, qty |-> qty]
MakeOrder(n, side, price, qty) ==
    [id |-> (nextId + n) % IdModulus, side |-> side, price |-> price, qty |-> qty]

MmPrice(side, jitter) == IF side = "Bid" THEN MidPrice - jitter ELSE MidPrice + jitter
BuggyAggressorPrice(side) ==
    IF side = "Bid" THEN BestBid + AggressorOffset ELSE BestAsk - AggressorOffset
AggressorPrice(side) ==
    IF side = "Bid" THEN BestAsk + AggressorOffset ELSE BestBid - AggressorOffset

-----------------------------------------------------------------------------
GenInit ==
    /\ Init
    /\ live = <<>>
    /\ nextId = 0
    /\ batch = <<>>
    /\ stopRequested = FALSE
    /\ exited = FALSE

(* The top of the loop in run. *)
AtLoopTop == pc = "idle" /\ batch = <<>> /\ ~exited
BuggyNewIteration == AtLoopTop
NewIteration == AtLoopTop /\ ~stopRequested

Cancel ==
    /\ NewIteration
    /\ CancelEnabled
    /\ \E k \in DOMAIN live : RemoveOrder(live[k].id) /\ Untrack(live[k].id)
    /\ UNCHANGED <<nextId, batch, stopRequested, exited>>

(* cancel_weight > 0 and nothing to cancel: the iteration does nothing. *)

Aggress(side, qty) ==
    /\ NewIteration
    /\ StartMatch(MakeOrder(1, side, AggressorPrice(side), qty))
    /\ nextId' = (nextId + 1) % IdModulus
    /\ UNCHANGED <<live, batch, stopRequested, exited>>

(* Both quotes of a pair are made before the first is added. *)
QuotePair(bidJitter, bidQty, askJitter, askQty) ==
    /\ NewIteration
    /\ StartMatch(MakeOrder(1, "Bid", MmPrice("Bid", bidJitter), bidQty))
    /\ batch' = <<MakeOrder(2, "Ask", MmPrice("Ask", askJitter), askQty)>>
    /\ nextId' = (nextId + 2) % IdModulus
    /\ UNCHANGED <<live, stopRequested, exited>>

AddSecondQuote ==
    /\ pc = "idle"
    /\ batch # <<>>
    /\ StartMatch(Head(batch))
    /\ batch' = Tail(batch)
    /\ UNCHANGED <<live, nextId, stopRequested, exited>>

(* try_match changes nothing here until it purges. *)
Match == MatchStep /\ UNCHANGED genVars

(* m_fill_fn runs after each remove of the purge. *)
PurgeAndNotify ==
    /\ PurgeOne
    /\ Untrack(Head(idsToRemove))
    /\ UNCHANGED <<nextId, batch, stopRequested, exited>>

(* add returned true. *)
InsertAndTrack ==
    /\ Insert
    /\ Track(order)
    /\ UNCHANGED <<nextId, batch, stopRequested, exited>>

(* add returned false. *)
Forget == FinishWithoutInsert /\ UNCHANGED genVars

ExitLoop ==
    /\ AtLoopTop
    /\ stopRequested
    /\ exited' = TRUE
    /\ UNCHANGED <<bookVars, live, nextId, batch, stopRequested>>

(* The jthread's destructor, at any moment. *)
RequestStop ==
    /\ ~stopRequested
    /\ stopRequested' = TRUE
    /\ UNCHANGED <<bookVars, live, nextId, batch, exited>>

GenStep ==
    \/ Cancel
    \/ \E side \in Side, qty \in 1..AggressorLotMax : Aggress(side, qty)
    \/ \E bj, aj \in 1..SpreadHalfWidth, bq, aq \in 1..MmLotMax : QuotePair(bj, bq, aj, aq)
    \/ AddSecondQuote
    \/ Match \/ PurgeAndNotify \/ InsertAndTrack \/ Forget
    \/ ExitLoop

GenNext == GenStep \/ RequestStop

GenSpec == GenInit /\ [][GenNext]_allVars /\ WF_allVars(GenStep)

-----------------------------------------------------------------------------
GenTypeOK ==
    /\ TypeOK
    /\ live \in Seq([id : OrderId, side : Side, price : Price])
    /\ nextId \in OrderId
    /\ batch \in Seq(Order)
    /\ stopRequested \in BOOLEAN /\ exited \in BOOLEAN

(* The generator's list and the book hold the same orders, also between two *)
(* purges of one call: the generator learns of an order's end only through  *)
(* the fill callback and the return value of add.                           *)
LiveMirrorsBook ==
    /\ {Quote(o) : o \in ToSet(containers["Bid"]) \cup ToSet(containers["Ask"])} = ToSet(live)
    /\ Len(live) = Len(containers["Bid"]) + Len(containers["Ask"])

(* Prices stay in a fixed band although each aggressor is priced from       *)
(* earlier aggressors: offsets do not add up.                               *)
PriceBand ==
    \A k \in DOMAIN live : live[k].price \in IF live[k].side = "Bid" THEN BidBand ELSE AskBand

(* An aggressor trades whenever there is something to trade with: the best  *)
(* of the generator's list is the front of the book's container.            *)
AggressorCrosses ==
    [][\A side \in Side, qty \in 1..AggressorLotMax :
          Aggress(side, qty) /\ containers[OppSide(side)] # <<>>
              => Tradeable(order', containers[OppSide(side)][1])]_allVars

(* A stop that arrives at any point of a pair or of a purge ends run.       *)
StopExits == stopRequested ~> exited

(* Once a stop is requested, each step of the thread uses up one of those   *)
(* it had left: the call it is in, and one more when a quote is pending.    *)
GenStepsLeft == (IF exited THEN 0 ELSE 1) + StepsLeft + Len(batch) * (2 * SIZE + 3)
StopIsBounded ==
    /\ [](GenStepsLeft \in 0..(4 * SIZE + 6))
    /\ [][stopRequested => GenStepsLeft' < GenStepsLeft]_allVars

(* "Price-time allocation order book": while an older order at the same     *)
(* price is untouched, a younger one is not filled.                         *)
PriceTimePriority ==
    [][\A k \in DOMAIN live :
          (PurgeAndNotify /\ live[k].id = Head(idsToRemove)) =>
              \A j \in 1..(k - 1) :
                  (live[j].side = live[k].side /\ live[j].price = live[k].price) =>
                      live[j].id \in ToSet(idsToRemove)]_allVars
=============================================================================
