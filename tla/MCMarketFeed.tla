---------------------------- MODULE MCMarketFeed ----------------------------
(***************************************************************************)
(* An instance of MarketFeed for TLC.                                      *)
(***************************************************************************)
EXTENDS MarketFeed

\* A history begins with one bid and one ask that leave a price between them.
WideBook == {[l \in Levels |-> IF l \in {<<"bids", 1>>, <<"asks", 3>>} THEN 1 ELSE 0]}
=============================================================================
