--------------------------- MODULE MCMatchingEngine ---------------------------
(***************************************************************************)
(* A small instance of the matching engine for TLC: enough ids for two     *)
(* makers at one price, one at another and a taker that sweeps them.       *)
(***************************************************************************)
EXTENDS MatchingEngine

MCPrices == 1..3
MCQuantities == 0..2
=============================================================================
