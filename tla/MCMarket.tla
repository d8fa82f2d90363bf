------------------------------ MODULE MCMarket ------------------------------
(* An instance of MarketClient for TLC. *)
EXTENDS MarketClient

CONSTANTS near, far, s1

\* The near and the far expiry of one symbol, with the same option.
TwoExpiries == {near, far}
OneSymbol == [k \in TwoExpiries |-> "nifty"]
OneContract == {{s1}}
=============================================================================
