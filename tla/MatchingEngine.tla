--------------------------- MODULE MatchingEngine ---------------------------
(***************************************************************************)
(* What the order book promises its caller, without containers, loops or   *)
(* maps: a set of resting orders and at most one incoming order that       *)
(* trades with them at the best price until it is used up, comes to rest   *)
(* or is dropped.                                                          *)
(***************************************************************************)
EXTENDS Integers, FiniteSets

CONSTANTS
    CAPACITY,       \* how many orders of one side can rest
    OrderId, Price, InvalidPrice, MaxQty,
    None            \* no incoming order

VARIABLES
    resting,        \* the resting orders
    incoming,       \* the order being matched, or None
    answer          \* what the last operation answered its caller

vars == <<resting, incoming, answer>>

Side == {"Bid", "Ask"}
Submitted == [id : OrderId, side : Side, price : Price \cup {InvalidPrice}, qty : 0..MaxQty]

OfSide(s) == {o \in resting : o.side = s}
Better(p, q, s) == IF s = "Bid" THEN p > q ELSE p < q

(* The orders the incoming order can trade with. *)
Compatible == {p \in resting : p.side # incoming.side /\ ~Better(p.price, incoming.price, incoming.side)}
Best == {p \in Compatible : \A q \in Compatible : ~Better(q.price, p.price, p.side)}

Init == resting = {} /\ incoming = None /\ answer = FALSE

Reject ==
    /\ incoming = None
    /\ answer' = FALSE
    /\ UNCHANGED <<resting, incoming>>

Submit(o) ==
    /\ incoming = None
    /\ o.price # InvalidPrice /\ o.qty > 0
    /\ incoming' = o
    /\ UNCHANGED <<resting, answer>>

Trade(p) ==
    LET n == IF p.qty < incoming.qty THEN p.qty ELSE incoming.qty
    IN  /\ incoming.qty > 0
        /\ incoming' = [incoming EXCEPT !.qty = @ - n]
        /\ resting' = (resting \ {p}) \cup (IF p.qty = n THEN {} ELSE {[p EXCEPT !.qty = @ - n]})
        /\ UNCHANGED answer

Rest ==
    /\ incoming.qty > 0 /\ Compatible = {}
    /\ \A p \in resting : p.id # incoming.id
    /\ Cardinality(OfSide(incoming.side)) < CAPACITY
    /\ resting' = resting \cup {incoming}
    /\ incoming' = None
    /\ answer' = TRUE

(* Used up, or nothing to trade with and no place to rest. *)
Drop ==
    /\ \/ incoming.qty = 0
       \/ /\ Compatible = {}
          /\ \/ \E p \in resting : p.id = incoming.id
             \/ Cardinality(OfSide(incoming.side)) >= CAPACITY
    /\ incoming' = None
    /\ answer' = FALSE
    /\ UNCHANGED resting

Cancel(id) ==
    /\ incoming = None
    /\ resting' = {p \in resting : p.id # id}
    /\ answer' = (resting' # resting)
    /\ UNCHANGED incoming

Progress == incoming # None /\ ((\E p \in Best : Trade(p)) \/ Rest \/ Drop)

Next == Reject \/ (\E o \in Submitted : Submit(o)) \/ Progress \/ (\E id \in OrderId : Cancel(id))

Spec == Init /\ [][Next]_vars /\ WF_vars(Progress)
=============================================================================
