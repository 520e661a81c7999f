--------------------------- MODULE MCMarketDepth ----------------------------
(* Instances of the market depth feed for TLC: bytes of two values, so that *)
(* the sequence number wraps after four messages and a price can be         *)
(* negative.                                                                *)
EXTENDS MarketDepth

MCInstruments ==
    <<[symbol |-> [k \in 0..5 |-> k % 2], strike |-> 5, base |-> 1],
      [symbol |-> [k \in 0..5 |-> IF k = 0 THEN 1 ELSE 0], strike |-> -3, base |-> 4]>>

MCDraws ==
    LET Draw(i, b, m) == [idx |-> i, isBid |-> b, modifier |-> m]
    IN  <<Draw(1, TRUE, 2), Draw(2, FALSE, 3), Draw(1, FALSE, 1), Draw(1, TRUE, 2), Draw(2, TRUE, 1)>>
=============================================================================
